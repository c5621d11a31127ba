--------------------------- MODULE SharedMemory_proofs ---------------------------
(* Proofs about what processes keep in memory they share (MCSharedMemory).        *)
EXTENDS MCSharedMemory, Integers, Sequences, FiniteSetTheorems, WellFoundedInduction, TLAPS

--------------------------------------------------------------------------------
(* Containers: the table stays sorted.                                            *)
(*                                                                                *)
(* While one user searches and inserts nobody else does, so that all cells below  *)
(* the lower bound are smaller than its id and all from the upper bound on are    *)
(* larger.  A removal by index may move cells below a search, and then the run    *)
(* counts as overtaken.                                                           *)
MapType ==
    /\ listed \in [0 .. Capacity - 1 -> Nat]
    /\ count \in 0 .. Capacity
    /\ op \in [MapUsers -> [kind : {"none", "add", "indexOf", "remove"}, id : Nat, l : Nat, u : Nat]]
    /\ overtaken \in BOOLEAN

(* The holder of the semaphore is the one who searches.                           *)
SearchersHold ==
    \A t \in MapUsers : op[t].kind \in {"add", "indexOf"} => owner = t /\ op[t].l <= op[t].u

(* The bounds of a search, as long as nothing was removed under it.               *)
BoundsHold ==
    \A t \in MapUsers : op[t].kind \in {"add", "indexOf"} =>
        /\ op[t].u <= count
        /\ \A i \in 0 .. count - 1 :
              /\ i < op[t].l => listed[i] < op[t].id
              /\ i >= op[t].u => listed[i] > op[t].id

MapInv == MapType /\ SearchersHold /\ (overtaken \/ (Containers!Sorted /\ BoundsHold))

LEMMA MiddleBetween ==
  ASSUME NEW l \in Nat, NEW u \in Nat, l < u
  PROVE  l + (u - l) \div 2 \in l .. u - 1
  OBVIOUS

LEMMA MapInit == Containers!ContainersAssumption /\ Containers!Init => MapInv
  <1> SUFFICES ASSUME Containers!ContainersAssumption, Containers!Init PROVE MapInv
    OBVIOUS
  <1> USE DEF Containers!ContainersAssumption, Containers!Init, Containers!Idle
  <1>1. MapType
    <2>1. listed \in [0 .. Capacity - 1 -> Nat] /\ overtaken \in BOOLEAN
      OBVIOUS
    <2>3. count \in 0 .. Capacity
      <3>1. count = 0 /\ Capacity \in Nat
        OBVIOUS
      <3> QED BY <3>1
    <2>2. op \in [MapUsers -> [kind : {"none", "add", "indexOf", "remove"}, id : Nat, l : Nat, u : Nat]]
      OBVIOUS
    <2> QED BY <2>1, <2>2, <2>3 DEF MapType
  <1>2. SearchersHold /\ BoundsHold
    BY DEF SearchersHold, BoundsHold
  <1>3. Containers!Sorted
    BY DEF Containers!Sorted
  <1> QED BY <1>1, <1>2, <1>3 DEF MapInv

(* A search begins with the whole list between its bounds.                        *)
LEMMA MapBegin ==
  ASSUME Containers!ContainersAssumption, MapInv, NEW t \in MapUsers, NEW id \in MapIds,
         NEW kind \in {"add", "indexOf"}, Containers!Begin(t, kind, id)
  PROVE  MapInv'
  <1> USE DEF Containers!ContainersAssumption, Containers!Begin
  <1>1. MapType'
    BY DEF MapInv, MapType
  <1>2. SearchersHold'
    BY DEF MapInv, MapType, SearchersHold
  <1>3. ~overtaken => Containers!Sorted'
    BY DEF MapInv, Containers!Sorted
  <1>4. ~overtaken => BoundsHold'
    <2>1. \A x \in MapUsers : x # t => op[x].kind \notin {"add", "indexOf"}
      BY DEF MapInv, SearchersHold
    <2>2. \A x \in MapUsers : x # t => op'[x] = op[x]
      BY DEF MapInv, MapType
    <2>3. op'[t] = [kind |-> kind, id |-> id, l |-> 0, u |-> count]
      BY DEF MapInv, MapType
    <2> QED BY <2>1, <2>2, <2>3 DEF MapInv, MapType, BoundsHold
  <1> QED BY <1>1, <1>2, <1>3, <1>4 DEF MapInv

(* A probe halves the bounds and keeps what they mean.                            *)
LEMMA MapNarrow ==
  ASSUME Containers!ContainersAssumption, MapInv, NEW t \in MapUsers, Containers!Narrow(t)
  PROVE  MapInv'
  <1> DEFINE m == Containers!Middle(t)
  <1> USE DEF Containers!ContainersAssumption, Containers!Narrow
  <1>1. op[t].l \in Nat /\ op[t].u \in Nat /\ op[t].id \in Nat /\ op[t].kind \in {"add", "indexOf"}
    BY DEF MapInv, MapType, Containers!Searching
  <1>2. \A x \in MapUsers : x # t => op'[x] = op[x] /\ op[x].kind \notin {"add", "indexOf"}
    BY <1>1 DEF MapInv, MapType, SearchersHold
  <1>3. op'[t] = Containers!Narrowed(t)
    BY DEF MapInv, MapType
  <1>4. m \in op[t].l .. op[t].u - 1
    BY <1>1, MiddleBetween DEF Containers!Middle, Containers!Searching, MapInv, SearchersHold
  <1>5. /\ op'[t].kind = op[t].kind /\ op'[t].id = op[t].id
        /\ \/ listed[m] < op[t].id /\ op'[t].l = m + 1 /\ op'[t].u = op[t].u
           \/ ~(listed[m] < op[t].id) /\ op'[t].l = op[t].l /\ op'[t].u = m
        /\ op'[t] \in [kind : {"none", "add", "indexOf", "remove"}, id : Nat, l : Nat, u : Nat]
    <2>1. op[t] \in [kind : {"none", "add", "indexOf", "remove"}, id : Nat, l : Nat, u : Nat]
      BY DEF MapInv, MapType
    <2> HIDE DEF m
    <2>2. m \in Nat
      BY <1>1, <1>4
    <2>3. op'[t] = IF listed[m] < op[t].id THEN [op[t] EXCEPT !.l = m + 1] ELSE [op[t] EXCEPT !.u = m]
      BY <1>3 DEF Containers!Narrowed, m
    <2> QED BY <2>1, <2>2, <2>3
  <1> HIDE DEF m
  <1>6. SearchersHold'
    BY <1>1, <1>2, <1>4, <1>5 DEF MapInv, SearchersHold
  <1>7. MapType'
    <2>1. op' \in [MapUsers -> [kind : {"none", "add", "indexOf", "remove"}, id : Nat, l : Nat, u : Nat]]
      BY <1>2, <1>5 DEF MapInv, MapType
    <2> QED BY <2>1 DEF MapInv, MapType
  <1>8. ASSUME ~overtaken PROVE BoundsHold'
    <2>1. listed[m] # op[t].id
      BY DEF m
    <2>2. /\ op[t].u <= count /\ count \in Nat
          /\ \A i \in 0 .. count - 1 : i < op[t].l => listed[i] < op[t].id
          /\ \A i \in 0 .. count - 1 : i >= op[t].u => listed[i] > op[t].id
      BY <1>1, <1>8 DEF MapInv, MapType, BoundsHold
    <2>3. m \in 0 .. count - 1 /\ \A i \in 0 .. count - 1 : listed[i] \in Nat
      BY <1>1, <1>4, <2>2 DEF MapInv, MapType
    <2>4. \A i, j \in 0 .. count - 1 : i < j => listed[i] < listed[j]
      BY <1>8 DEF MapInv, Containers!Sorted
    <2>5. ASSUME NEW i \in 0 .. count - 1
          PROVE  /\ i < op'[t].l => listed[i] < op[t].id
                 /\ i >= op'[t].u => listed[i] > op[t].id
      <3>1. i < m \/ i = m \/ i > m
        BY <2>3
      <3> QED BY <1>1, <1>4, <1>5, <2>1, <2>2, <2>3, <2>4, <3>1
    <2>6. op'[t].u <= count
      BY <1>1, <1>4, <1>5, <2>2
    <2> QED BY <1>2, <1>5, <2>5, <2>6 DEF BoundsHold
  <1>9. ~overtaken => Containers!Sorted'
    BY DEF MapInv, Containers!Sorted
  <1> QED BY <1>6, <1>7, <1>8, <1>9 DEF MapInv

(* The end of a search leaves the list alone, and no search goes on.              *)
LEMMA MapSearchEnds ==
  ASSUME Containers!ContainersAssumption, MapInv, NEW t \in MapUsers, UNCHANGED <<listed, count, overtaken>>,
         op[t].kind \in {"add", "indexOf"}, owner' = 0,
         NEW r \in [kind : {"none", "remove"}, id : Nat, l : Nat, u : Nat], op' = [op EXCEPT ![t] = r]
  PROVE  MapInv'
  <1>1. \A x \in MapUsers : op'[x].kind \notin {"add", "indexOf"}
    BY DEF MapInv, MapType, SearchersHold
  <1>2. MapType'
    BY DEF MapInv, MapType
  <1>3. SearchersHold' /\ BoundsHold'
    BY <1>1 DEF SearchersHold, BoundsHold
  <1>4. ~overtaken => Containers!Sorted'
    BY DEF MapInv, Containers!Sorted
  <1> QED BY <1>2, <1>3, <1>4 DEF MapInv

LEMMA MapHit ==
  ASSUME Containers!ContainersAssumption, MapInv, NEW t \in MapUsers, Containers!Hit(t)
  PROVE  MapInv'
  <1> DEFINE r == IF op[t].kind = "add" THEN Containers!Idle
                  ELSE [op[t] EXCEPT !.kind = "remove", !.l = Containers!Middle(t)]
  <1>1. op[t] \in [kind : {"none", "add", "indexOf", "remove"}, id : Nat, l : Nat, u : Nat]
    BY DEF MapInv, MapType
  <1>2. op[t].kind \in {"add", "indexOf"}
    BY DEF Containers!Hit, Containers!Searching
  <1>3. Containers!Middle(t) \in Nat
    BY <1>1, <1>2, MiddleBetween DEF Containers!Hit, Containers!Middle, Containers!Searching, MapInv, SearchersHold
  <1>4. r \in [kind : {"none", "remove"}, id : Nat, l : Nat, u : Nat]
    BY <1>1, <1>2, <1>3 DEF Containers!Idle
  <1>5. op' = [op EXCEPT ![t] = r] /\ owner' = 0 /\ UNCHANGED <<listed, count, overtaken>>
    BY DEF Containers!Hit
  <1> QED BY <1>2, <1>4, <1>5, MapSearchEnds

LEMMA MapNotFound ==
  ASSUME Containers!ContainersAssumption, MapInv, NEW t \in MapUsers, Containers!NotFound(t)
  PROVE  MapInv'
  <1>1. Containers!Idle \in [kind : {"none", "remove"}, id : Nat, l : Nat, u : Nat]
    BY DEF Containers!Idle
  <1> QED BY <1>1, MapSearchEnds DEF Containers!NotFound

(* An insertion puts the id between the smaller and the larger ones.              *)
LEMMA InsertSorted ==
  ASSUME Containers!ContainersAssumption, MapType, Containers!Sorted, NEW at0 \in 0 .. count, NEW id \in Nat,
         count < Capacity,
         \A i \in 0 .. count - 1 : (i < at0 => listed[i] < id) /\ (i >= at0 => listed[i] > id),
         listed' = Containers!Inserted(listed, at0, id), count' = count + 1
  PROVE  Containers!Sorted'
  <1>1. count \in Nat /\ at0 \in Nat /\ Capacity \in Nat
    BY DEF MapType, Containers!ContainersAssumption
  <1>2. ASSUME NEW k \in 0 .. count
        PROVE  listed'[k] = IF k < at0 THEN listed[k] ELSE IF k = at0 THEN id ELSE listed[k - 1]
    BY <1>1 DEF MapType, Containers!Inserted
  <1>3. \A i, j \in 0 .. count - 1 : i < j => listed[i] < listed[j]
    BY DEF Containers!Sorted
  <1>4. \A i \in 0 .. count - 1 : listed[i] \in Nat
    BY <1>1 DEF MapType
  <1>5. ASSUME NEW i \in 0 .. count, NEW j \in 0 .. count, i < j
        PROVE  listed'[i] < listed'[j]
    <2>1. CASE j < at0
      BY <1>1, <1>2, <1>3, <1>5, <2>1
    <2>2. CASE j = at0
      BY <1>1, <1>2, <1>5, <2>2
    <2>3. CASE j > at0 /\ i < at0
      BY <1>1, <1>2, <1>3, <1>4, <1>5, <2>3
    <2>4. CASE j > at0 /\ i = at0
      BY <1>1, <1>2, <1>5, <2>4
    <2>5. CASE i > at0
      <3>1. i - 1 \in 0 .. count - 1 /\ j - 1 \in 0 .. count - 1 /\ i - 1 < j - 1
        BY <1>1, <1>5, <2>5
      <3> QED BY <1>1, <1>2, <1>3, <1>5, <2>5, <3>1
    <2> QED BY <1>1, <2>1, <2>2, <2>3, <2>4, <2>5
  <1> QED BY <1>1, <1>5 DEF Containers!Sorted

LEMMA MapInsert ==
  ASSUME Containers!ContainersAssumption, MapInv, NEW t \in MapUsers, Containers!insert(t)
  PROVE  MapInv'
  <1>1. op[t].kind = "add" /\ op[t].l = op[t].u /\ op' = [op EXCEPT ![t] = Containers!Idle] /\ owner' = 0
    BY DEF Containers!insert, Containers!Searching
  <1>2. Containers!Idle \in [kind : {"none", "remove"}, id : Nat, l : Nat, u : Nat]
    BY DEF Containers!Idle
  <1>3. CASE UNCHANGED <<listed, count, overtaken>>
    BY <1>1, <1>2, <1>3, MapSearchEnds
  <1>4. CASE /\ ~(count = Capacity \/ op[t].l > count)
             /\ listed' = Containers!Inserted(listed, op[t].l, op[t].id)
             /\ count' = count + 1
             /\ overtaken' = (overtaken \/ Containers!Removing # {})
    <2>1. op[t].l \in 0 .. count /\ op[t].id \in Nat /\ count < Capacity /\ count \in Nat /\ Capacity \in Nat
      BY <1>4 DEF MapInv, MapType, Containers!ContainersAssumption
    <2>2. listed' \in [0 .. Capacity - 1 -> Nat]
      <3>1. \A k \in 0 .. Capacity - 1 : k > op[t].l => k - 1 \in 0 .. Capacity - 1
        BY <2>1
      <3> QED BY <1>4, <2>1, <3>1 DEF MapInv, MapType, Containers!Inserted
    <2>3. \A x \in MapUsers : op'[x].kind \notin {"add", "indexOf"}
      BY <1>1 DEF MapInv, MapType, SearchersHold, Containers!Idle
    <2>4. op' \in [MapUsers -> [kind : {"none", "add", "indexOf", "remove"}, id : Nat, l : Nat, u : Nat]]
      BY <1>1, <1>2 DEF MapInv, MapType
    <2>5. MapType'
      BY <1>4, <2>1, <2>2, <2>4 DEF MapInv, MapType
    <2>6. SearchersHold' /\ BoundsHold'
      BY <2>3 DEF SearchersHold, BoundsHold
    <2>7. ASSUME ~overtaken' PROVE Containers!Sorted'
      <3>1. MapType /\ Containers!Sorted /\ BoundsHold
        BY <1>4, <2>7 DEF MapInv
      <3>2. \A i \in 0 .. count - 1 : (i < op[t].l => listed[i] < op[t].id) /\ (i >= op[t].l => listed[i] > op[t].id)
        BY <1>1, <3>1 DEF BoundsHold
      <3> QED BY <1>4, <2>1, <3>1, <3>2, InsertSorted
    <2> QED BY <2>5, <2>6, <2>7 DEF MapInv
  <1> QED BY <1>3, <1>4 DEF Containers!insert

(* A removal closes the gap; nobody searches while it does unless it overtakes.   *)
LEMMA MapRemove ==
  ASSUME Containers!ContainersAssumption, MapInv, NEW t \in MapUsers, Containers!remove(t)
  PROVE  MapInv'
  <1>1. op[t].kind = "remove" /\ op' = [op EXCEPT ![t] = Containers!Idle] /\ owner' = owner
    BY DEF Containers!remove
  <1>2. \A x \in MapUsers : op'[x] = IF x = t THEN Containers!Idle ELSE op[x]
    BY <1>1 DEF MapInv, MapType
  <1>3. op' \in [MapUsers -> [kind : {"none", "add", "indexOf", "remove"}, id : Nat, l : Nat, u : Nat]]
    BY <1>1 DEF MapInv, MapType, Containers!Idle
  <1>4. SearchersHold'
    BY <1>1, <1>2 DEF MapInv, SearchersHold, Containers!Idle
  <1>5. CASE UNCHANGED <<listed, count, overtaken>>
    <2>1. MapType'
      BY <1>3, <1>5 DEF MapInv, MapType
    <2>2. ~overtaken => BoundsHold' /\ Containers!Sorted'
      BY <1>2, <1>5 DEF MapInv, BoundsHold, Containers!Idle, Containers!Sorted
    <2> QED BY <1>4, <1>5, <2>1, <2>2 DEF MapInv
  <1>6. CASE /\ ~(op[t].l >= count)
             /\ listed' = Containers!Removed(listed, op[t].l)
             /\ count' = count - 1
             /\ overtaken' = (overtaken \/ Containers!Removing # {t} \/ owner # 0)
    <2>1. count \in 1 .. Capacity /\ op[t].l \in 0 .. count - 1 /\ Capacity \in Nat
      BY <1>6 DEF MapInv, MapType, Containers!ContainersAssumption
    <2>2. \A k \in 0 .. Capacity - 1 :
             listed'[k] = IF k >= op[t].l /\ k < count - 1 THEN listed[k + 1] ELSE listed[k]
      BY <1>6 DEF MapInv, MapType, Containers!Removed
    <2>3. listed' \in [0 .. Capacity - 1 -> Nat]
      BY <1>6, <2>1 DEF MapInv, MapType, Containers!Removed
    <2>4. MapType'
      BY <1>3, <1>6, <2>1, <2>3 DEF MapInv, MapType
    <2>5. ASSUME ~overtaken' PROVE BoundsHold' /\ Containers!Sorted'
      <3>1. \A x \in MapUsers : op[x].kind \notin {"add", "indexOf"}
        BY <1>6, <2>5 DEF MapInv, SearchersHold, Containers!ContainersAssumption
      <3>2. BoundsHold'
        BY <1>2, <3>1 DEF BoundsHold, Containers!Idle
      <3>3. \A i, j \in 0 .. count - 1 : i < j => listed[i] < listed[j]
        BY <1>6, <2>5 DEF MapInv, Containers!Sorted
      <3>4. ASSUME NEW i \in 0 .. count - 2, NEW j \in 0 .. count - 2, i < j
            PROVE  listed'[i] < listed'[j]
        <4>1. i + 1 \in 0 .. count - 1 /\ j + 1 \in 0 .. count - 1 /\ i \in 0 .. Capacity - 1 /\ j \in 0 .. Capacity - 1
          BY <2>1, <3>4
        <4> QED BY <2>1, <2>2, <3>3, <3>4, <4>1
      <3>5. Containers!Sorted'
        BY <1>6, <2>1, <3>4 DEF Containers!Sorted
      <3> QED BY <3>2, <3>5
    <2> QED BY <1>4, <2>4, <2>5 DEF MapInv
  <1> QED BY <1>5, <1>6 DEF Containers!remove

LEMMA MapStep ==
  ASSUME Containers!ContainersAssumption, MapInv, Containers!Next \/ UNCHANGED mapVars
  PROVE  MapInv'
  <1>1. CASE UNCHANGED mapVars
    BY <1>1 DEF mapVars, MapInv, MapType, SearchersHold, BoundsHold, Containers!Sorted
  <1>2. CASE Containers!Next
    <2>1. PICK t \in MapUsers :
             \/ \E id \in MapIds : Containers!Begin(t, "add", id) \/ Containers!Begin(t, "indexOf", id)
             \/ Containers!Narrow(t) \/ Containers!Hit(t) \/ Containers!insert(t)
             \/ Containers!NotFound(t) \/ Containers!remove(t)
      BY <1>2 DEF Containers!Next
    <2> QED BY <2>1, MapBegin, MapNarrow, MapHit, MapInsert, MapNotFound, MapRemove
  <1> QED BY <1>1, <1>2

(* However searches, insertions and removals of several users interleave, the     *)
(* table stays sorted until a removal by index meets a list that has changed      *)
(* (SharedMap::add and remove, SharedList::insert and remove).                    *)
THEOREM MapStaysSorted == Spec => []SortedUnlessOvertaken
  <1>1. Init => MapInv
    BY MapInit, Assumptions DEF Init
  <1>2. MapInv /\ [Next]_vars => MapInv'
    <2>1. [Next]_vars => Containers!Next \/ UNCHANGED mapVars
      BY DEF Next, vars
    <2> QED BY <2>1, MapStep, Assumptions
  <1>3. MapInv => SortedUnlessOvertaken
    BY DEF MapInv, SortedUnlessOvertaken, Containers!SortedUnlessOvertaken
  <1> QED BY <1>1, <1>2, <1>3, PTL DEF Spec

--------------------------------------------------------------------------------
(* CyclicQueueRace: what is read is what was stored.                              *)
(*                                                                                *)
(* Pushes are serialised by their callers and pops by the access semaphore.  A    *)
(* pop that has passed the read semaphore, and every unit of it, stands for a     *)
(* value that is stored and not read; a unit of the write semaphore, or a buffer  *)
(* in a hand, for a cell that may be written.  Free plays no part in either.      *)
RingSteps ==
    {"idle", "pushWait", "pushStore", "pushTest", "pushLoad", "pushCount", "pushPost", "pushAdvance",
     "popEnter", "popRead", "popTest", "popLoad", "popCount", "popPost", "popAdvance"}
PushSteps == {"pushWait", "pushStore", "pushTest", "pushLoad", "pushCount", "pushPost", "pushAdvance"}
PopSteps  == {"popRead", "popTest", "popLoad", "popCount", "popPost", "popAdvance"}

Some(steps) == \E t \in Ring!Threads : at[t] \in steps
Bit(b) == IF b THEN 1 ELSE 0

AtStore    == Some({"pushStore"})
Unposted   == Some({"pushTest", "pushLoad", "pushCount", "pushPost"})
Stored     == Some({"pushTest", "pushLoad", "pushCount", "pushPost", "pushAdvance"})
Taken      == Some({"popTest", "popLoad", "popCount", "popPost", "popAdvance"})
Unreturned == Some({"popTest", "popLoad", "popCount", "popPost"})
Waiting    == {t \in Ring!Threads : at[t] \in {"popEnter", "popRead"}}
Holders    == {t \in Workers : hand[t] # NoValue}

RingValues == {NoValue} \cup Nat \cup (Producers \X Nat)
RingType ==
    /\ at \in [Ring!Threads -> RingSteps]
    /\ hand \in [Ring!Threads -> RingValues]
    /\ Blocking \in {"BLOCKING", "EXCEPTION"}
    /\ ReadSemaphore \in Nat /\ WriteSemaphore \in Nat
    /\ cells \in [0 .. RingSize - 1 -> RingValues]
    /\ pushed \in Seq(RingValues) /\ popped \in Seq(RingValues)

(* One push and one pop at a time.                                                *)
RingLocks ==
    /\ \A t, u \in Ring!Threads :
          /\ at[t] \in PushSteps /\ at[u] \in PushSteps => t = u
          /\ at[t] \in PopSteps /\ at[u] \in PopSteps => t = u
    /\ \A t \in Ring!Threads :
          /\ at[t] \in PushSteps => pushLock = 0
          /\ at[t] \in PopSteps => AccessSemaphore = 0
          /\ at[t] \in PushSteps => IF Blocking = "BLOCKING" THEN t \in Producers ELSE t \in Workers
          /\ at[t] \in {"popEnter"} \cup PopSteps => IF Blocking = "BLOCKING" THEN t \in Consumers ELSE t \in Workers
    /\ pushLock \in {0, 1} /\ AccessSemaphore \in {0, 1}

RingCounts ==
    /\ IsFiniteSet(Waiting) /\ IsFiniteSet(Holders)
    /\ Len(popped) <= Len(pushed)
    /\ Cardinality(Waiting) + ReadSemaphore + Bit(Unposted) <= Len(pushed) - Len(popped)
    /\ IF Blocking = "BLOCKING"
       THEN WriteSemaphore + Bit(AtStore) + Bit(Unreturned) + Len(pushed) - Len(popped) <= RingSize
       ELSE Cardinality(Holders) + Len(pushed) - Len(popped) <= RingSize

RingCells ==
    /\ NextWriteCell = (Len(pushed) - Bit(Stored)) % RingSize /\ Bit(Stored) <= Len(pushed)
    /\ NextReadCell = (Len(popped) - Bit(Taken)) % RingSize /\ Bit(Taken) <= Len(popped)
    /\ \A i \in 1 .. Len(popped) : popped[i] = pushed[i]
    /\ \A i \in Len(popped) + 1 .. Len(pushed) : cells[(i - 1) % RingSize] = pushed[i]

(* A buffer of the free list is in one place.                                     *)
RingBuffers ==
    IF Blocking = "BLOCKING" THEN \A t \in Workers : hand[t] = NoValue
    ELSE /\ \A t \in Workers : at[t] \in {"pushWait", "pushStore"} => hand[t] # NoValue
         /\ Ring!HandsDisjoint
         /\ \A i \in Len(popped) + 1 .. Len(pushed) :
               /\ pushed[i] # NoValue
               /\ \A t \in Workers : hand[t] # pushed[i]
               /\ \A k \in Len(popped) + 1 .. Len(pushed) : i # k => pushed[i] # pushed[k]

RingInv == RingType /\ RingLocks /\ RingCounts /\ RingCells /\ RingBuffers

LEMMA Euclid ==
  ASSUME NEW n \in Nat \ {0}, NEW x \in Nat
  PROVE  x = n * (x \div n) + (x % n) /\ x % n \in 0 .. n - 1 /\ x \div n \in Nat
  BY SMT

LEMMA Unique ==
  ASSUME NEW n \in Nat \ {0}, NEW q \in Int, NEW p \in Int, NEW r \in 0 .. n - 1, NEW s \in 0 .. n - 1,
         n * q + r = n * p + s
  PROVE  q = p /\ r = s
  <1>1. n * (q - p) = s - r
    OBVIOUS
  <1>2. q - p >= 1 => n * (q - p) >= n
    OBVIOUS
  <1>3. q - p <= 0 - 1 => n * (q - p) <= 0 - n
    OBVIOUS
  <1>4. s - r < n /\ s - r > 0 - n
    OBVIOUS
  <1>5. q - p \in Int /\ n * (q - p) \in Int
    OBVIOUS
  <1>6. q = p
    BY <1>1, <1>2, <1>3, <1>4, <1>5
  <1>7. r = s
    BY <1>6
  <1> QED BY <1>6, <1>7

LEMMA EuclidPick ==
  ASSUME NEW n \in Nat \ {0}, NEW x \in Nat
  PROVE  \E q \in Nat, r \in 0 .. n - 1 : x = n * q + r /\ x % n = r
  BY Euclid

LEMMA ModNext ==
  ASSUME NEW n \in Nat \ {0}, NEW x \in Nat
  PROVE  ((x % n) + 1) % n = (x + 1) % n
  <1>1. PICK q \in Nat, r \in 0 .. n - 1 : x = n * q + r /\ x % n = r
    BY EuclidPick
  <1>2. x + 1 \in Nat
    OBVIOUS
  <1>3. PICK p \in Nat, s \in 0 .. n - 1 : x + 1 = n * p + s /\ (x + 1) % n = s
    BY <1>2, EuclidPick
  <1>4. n * p + s = n * q + (r + 1)
    BY <1>1, <1>3
  <1>5. CASE r = n - 1
    <2>1. n * p + s = n * (q + 1) + 0
      BY <1>4, <1>5
    <2>2. s = 0
      <3>1. q + 1 \in Int /\ p \in Int /\ 0 \in 0 .. n - 1
        OBVIOUS
      <3> QED BY <3>1, <2>1, Unique
    <2>3. n % n = 0
      OBVIOUS
    <2> QED BY <1>1, <1>3, <1>5, <2>2, <2>3
  <1>6. CASE r # n - 1
    <2>1. r + 1 \in 0 .. n - 1
      BY <1>6
    <2>2. s = r + 1
      BY <1>4, <2>1, Unique
    <2>3. (r + 1) % n = r + 1
      BY <2>1
    <2> QED BY <1>1, <1>3, <2>2, <2>3
  <1> QED BY <1>5, <1>6

LEMMA ModDiffers ==
  ASSUME NEW n \in Nat \ {0}, NEW x \in Nat, NEW y \in Nat, x < y, y - x < n
  PROVE  x % n # y % n
  <1> SUFFICES ASSUME x % n = y % n PROVE FALSE
    OBVIOUS
  <1>1. PICK q \in Nat : x = n * q + (x % n)
    BY Euclid
  <1>2. PICK p \in Nat : y = n * p + (x % n)
    BY Euclid
  <1>3. x % n \in 0 .. n - 1
    BY Euclid
  <1> DEFINE r == x % n
  <1> HIDE DEF r
  <1>4. x = n * q + r /\ y = n * p + r /\ r \in Int
    BY <1>1, <1>2, <1>3 DEF r
  <1>5. n * (p - q) = y - x
    BY <1>4
  <1>6. p - q >= 1 => n * (p - q) >= n
    OBVIOUS
  <1>7. p - q <= 0 => n * (p - q) <= 0
    OBVIOUS
  <1> QED BY <1>5, <1>6, <1>7

LEMMA AppendIs ==
  ASSUME NEW S, NEW s \in Seq(S), NEW v \in S
  PROVE  /\ Append(s, v) \in Seq(S) /\ Len(s) \in Nat /\ Len(Append(s, v)) = Len(s) + 1
         /\ \A i \in 1 .. Len(s) : Append(s, v)[i] = s[i]
         /\ Append(s, v)[Len(s) + 1] = v
  OBVIOUS

(* How one step of a thread changes whether some thread is at certain steps.      *)
LEMMA SomeKept ==
  ASSUME RingType, NEW t \in Ring!Threads, NEW b, at' = [at EXCEPT ![t] = b], NEW steps,
         at[t] \notin steps, b \notin steps
  PROVE  Some(steps)' <=> Some(steps)
  BY DEF Some, RingType

LEMMA SomeReached ==
  ASSUME RingType, NEW t \in Ring!Threads, NEW b, at' = [at EXCEPT ![t] = b], NEW steps, b \in steps
  PROVE  Some(steps)'
  BY DEF Some, RingType

LEMMA SomeLeft ==
  ASSUME RingType, NEW t \in Ring!Threads, NEW b, at' = [at EXCEPT ![t] = b], NEW steps, b \notin steps,
         \A u \in Ring!Threads : at[u] \in steps => u = t
  PROVE  ~Some(steps)'
  BY DEF Some, RingType

LEMMA RingFacts ==
  ASSUME Assumptions, RingInv
  PROVE  /\ RingSize \in Nat \ {0} /\ Len(pushed) \in Nat /\ Len(popped) \in Nat
         /\ Cardinality(Waiting) \in Nat /\ Cardinality(Holders) \in Nat
         /\ Bit(Unposted) \in {0, 1} /\ Bit(AtStore) \in {0, 1} /\ Bit(Stored) \in {0, 1}
         /\ Bit(Taken) \in {0, 1} /\ Bit(Unreturned) \in {0, 1}
         /\ Workers \subseteq Ring!Threads /\ Workers \cap (Producers \cup Consumers) = {} /\ NoValue \notin Nat
  <1>1. RingSize \in Nat \ {0} /\ Workers \cap (Producers \cup Consumers) = {} /\ NoValue \notin Nat
    BY DEF Assumptions, Ring!SizeAssumption, Ring!ThreadAssumption
  <1>2. Len(pushed) \in Nat /\ Len(popped) \in Nat
    BY DEF RingInv, RingType
  <1>3. Cardinality(Waiting) \in Nat /\ Cardinality(Holders) \in Nat
    BY FS_CardinalityType DEF RingInv, RingCounts
  <1>4. Workers \subseteq Ring!Threads
    BY DEF Ring!Threads
  <1> QED BY <1>1, <1>2, <1>3, <1>4 DEF Bit

(* What a step inside a push, or inside a pop, does to the counts of steps.       *)
LEMMA PushBits ==
  ASSUME RingType, RingLocks, NEW t \in Ring!Threads, NEW b \in PushSteps \cup {"idle"},
         at[t] \in PushSteps, at' = [at EXCEPT ![t] = b]
  PROVE  /\ AtStore <=> at[t] = "pushStore"
         /\ AtStore' <=> b = "pushStore"
         /\ Unposted <=> at[t] \in {"pushTest", "pushLoad", "pushCount", "pushPost"}
         /\ Unposted' <=> b \in {"pushTest", "pushLoad", "pushCount", "pushPost"}
         /\ Stored <=> at[t] \in {"pushTest", "pushLoad", "pushCount", "pushPost", "pushAdvance"}
         /\ Stored' <=> b \in {"pushTest", "pushLoad", "pushCount", "pushPost", "pushAdvance"}
         /\ Bit(Taken)' = Bit(Taken)
         /\ Bit(Unreturned)' = Bit(Unreturned)
         /\ Waiting' = Waiting
  <1>1. \A u \in Ring!Threads : at[u] \in PushSteps => u = t
    BY DEF RingLocks
  <1>2. \A u \in Ring!Threads : at'[u] = IF u = t THEN b ELSE at[u]
    BY DEF RingType
  <1>3. (AtStore <=> at[t] = "pushStore") /\ (AtStore' <=> b = "pushStore")
    BY <1>1, <1>2 DEF AtStore, Some, PushSteps
  <1>4. /\ Unposted <=> at[t] \in {"pushTest", "pushLoad", "pushCount", "pushPost"}
        /\ Unposted' <=> b \in {"pushTest", "pushLoad", "pushCount", "pushPost"}
    BY <1>1, <1>2 DEF Unposted, Some, PushSteps
  <1>5. /\ Stored <=> at[t] \in {"pushTest", "pushLoad", "pushCount", "pushPost", "pushAdvance"}
        /\ Stored' <=> b \in {"pushTest", "pushLoad", "pushCount", "pushPost", "pushAdvance"}
    BY <1>1, <1>2 DEF Stored, Some, PushSteps
  <1>6. Bit(Taken)' = Bit(Taken) /\ Bit(Unreturned)' = Bit(Unreturned)
    <2>1. (Taken' <=> Taken) /\ (Unreturned' <=> Unreturned)
      BY SomeKept DEF Taken, Unreturned, PushSteps
    <2> QED BY <2>1 DEF Bit
  <1>7. Waiting' = Waiting
    BY <1>2 DEF Waiting, PushSteps
  <1> QED BY <1>3, <1>4, <1>5, <1>6, <1>7

LEMMA PopBits ==
  ASSUME RingType, RingLocks, NEW t \in Ring!Threads, NEW b \in (PopSteps \ {"popRead"}) \cup {"idle"},
         at[t] \in PopSteps, at' = [at EXCEPT ![t] = b]
  PROVE  /\ Unreturned <=> at[t] \in {"popTest", "popLoad", "popCount", "popPost"}
         /\ Unreturned' <=> b \in {"popTest", "popLoad", "popCount", "popPost"}
         /\ Taken <=> at[t] \in {"popTest", "popLoad", "popCount", "popPost", "popAdvance"}
         /\ Taken' <=> b \in {"popTest", "popLoad", "popCount", "popPost", "popAdvance"}
         /\ Bit(AtStore)' = Bit(AtStore)
         /\ Bit(Unposted)' = Bit(Unposted)
         /\ Bit(Stored)' = Bit(Stored)
         /\ Waiting' = Waiting \ {t}
  <1>1. \A u \in Ring!Threads : at[u] \in PopSteps => u = t
    BY DEF RingLocks
  <1>2. \A u \in Ring!Threads : at'[u] = IF u = t THEN b ELSE at[u]
    BY DEF RingType
  <1>3. /\ Unreturned <=> at[t] \in {"popTest", "popLoad", "popCount", "popPost"}
        /\ Unreturned' <=> b \in {"popTest", "popLoad", "popCount", "popPost"}
    BY <1>1, <1>2 DEF Unreturned, Some, PopSteps
  <1>4. /\ Taken <=> at[t] \in {"popTest", "popLoad", "popCount", "popPost", "popAdvance"}
        /\ Taken' <=> b \in {"popTest", "popLoad", "popCount", "popPost", "popAdvance"}
    BY <1>1, <1>2 DEF Taken, Some, PopSteps
  <1>5. Bit(AtStore)' = Bit(AtStore) /\ Bit(Unposted)' = Bit(Unposted) /\ Bit(Stored)' = Bit(Stored)
    <2>1. (AtStore' <=> AtStore) /\ (Unposted' <=> Unposted) /\ (Stored' <=> Stored)
      BY SomeKept DEF AtStore, Unposted, Stored, PopSteps
    <2> QED BY <2>1 DEF Bit
  <1>6. Waiting' = Waiting \ {t}
    BY <1>2 DEF Waiting, PopSteps
  <1> QED BY <1>3, <1>4, <1>5, <1>6

LEMMA BitsKept ==
  ASSUME RingType, NEW t \in Ring!Threads, at[t] \in {"idle", "popEnter"},
         NEW b \in {"pushWait", "popEnter", "popRead"}, at' = [at EXCEPT ![t] = b]
  PROVE  /\ Bit(AtStore)' = Bit(AtStore) /\ Bit(Unposted)' = Bit(Unposted) /\ Bit(Stored)' = Bit(Stored)
         /\ Bit(Taken)' = Bit(Taken) /\ Bit(Unreturned)' = Bit(Unreturned)
  <1>1. AtStore' <=> AtStore
    BY SomeKept DEF AtStore
  <1>2. Unposted' <=> Unposted
    BY SomeKept DEF Unposted
  <1>3. Stored' <=> Stored
    BY SomeKept DEF Stored
  <1>4. Taken' <=> Taken
    BY SomeKept DEF Taken
  <1>5. Unreturned' <=> Unreturned
    BY SomeKept DEF Unreturned
  <1> QED BY <1>1, <1>2, <1>3, <1>4, <1>5 DEF Bit

(* A step that enters neither a push nor a pop keeps both to one at a time.       *)
LEMMA LocksKept ==
  ASSUME RingType, RingLocks, NEW t \in Ring!Threads, NEW b \in RingSteps, at' = [at EXCEPT ![t] = b],
         Blocking' = Blocking,
         b \in PushSteps => at[t] \in PushSteps,
         b \in PopSteps => at[t] \in PopSteps,
         b # "popEnter",
         pushLock' = IF at[t] \in PushSteps /\ b \notin PushSteps THEN 1 ELSE pushLock,
         AccessSemaphore' = IF at[t] \in PopSteps /\ b \notin PopSteps THEN 1 ELSE AccessSemaphore
  PROVE  RingLocks'
  <1>1. \A u \in Ring!Threads : at'[u] = IF u = t THEN b ELSE at[u]
    BY DEF RingType
  <1>2. \A u, v \in Ring!Threads :
           /\ at'[u] \in PushSteps /\ at'[v] \in PushSteps => u = v
           /\ at'[u] \in PopSteps /\ at'[v] \in PopSteps => u = v
    BY <1>1 DEF RingLocks
  <1>3. ASSUME NEW u \in Ring!Threads, at'[u] \in PushSteps PROVE pushLock' = 0
    BY <1>1, <1>3 DEF RingLocks
  <1>4. ASSUME NEW u \in Ring!Threads, at'[u] \in PopSteps PROVE AccessSemaphore' = 0
    BY <1>1, <1>4 DEF RingLocks
  <1>5. ASSUME NEW u \in Ring!Threads
        PROVE  /\ at'[u] \in PushSteps => IF Blocking' = "BLOCKING" THEN u \in Producers ELSE u \in Workers
               /\ at'[u] \in {"popEnter"} \cup PopSteps =>
                     IF Blocking' = "BLOCKING" THEN u \in Consumers ELSE u \in Workers
    BY <1>1 DEF RingLocks
  <1>6. pushLock' \in {0, 1} /\ AccessSemaphore' \in {0, 1}
    BY DEF RingLocks
  <1> QED BY <1>2, <1>3, <1>4, <1>5, <1>6 DEF RingLocks

LEMMA RingInit == Assumptions /\ Ring!Init => RingInv
  <1> SUFFICES ASSUME Assumptions, Ring!Init PROVE RingInv
    OBVIOUS
  <1> DEFINE full == Blocking = "EXCEPTION"
             n == IF full THEN RingSize ELSE 0
  <1>1. RingSize \in Nat \ {0} /\ Workers \cap (Producers \cup Consumers) = {} /\ NoValue \notin Nat
    BY DEF Assumptions, Ring!SizeAssumption, Ring!ThreadAssumption
  <1>2. /\ Blocking \in {"BLOCKING", "EXCEPTION"}
        /\ cells = [c \in 0 .. RingSize - 1 |-> IF full THEN c + 1 ELSE NoValue]
        /\ NextWriteCell = 0 /\ NextReadCell = 0
        /\ WriteSemaphore = IF full THEN 0 ELSE RingSize
        /\ ReadSemaphore = IF full THEN RingSize ELSE 0
        /\ AccessSemaphore = 1 /\ pushLock = 1
        /\ at = [t \in Ring!Threads |-> "idle"]
        /\ hand = [t \in Ring!Threads |-> NoValue]
        /\ pushed = IF full THEN [i \in 1 .. RingSize |-> i] ELSE <<>>
        /\ popped = <<>>
    BY DEF Ring!Init, Ring!IsFreeList, Ring!Cell, Assumptions, Ring!PolicyAssumption
  <1>3. /\ Len(pushed) = n /\ n \in Nat /\ Len(popped) = 0 /\ popped \in Seq(RingValues) /\ pushed \in Seq(RingValues)
        /\ \A i \in 1 .. n : pushed[i] = i
    <2>1. CASE full
      <3>1. [i \in 1 .. RingSize |-> i] \in Seq(RingValues)
        BY <1>1 DEF RingValues
      <3>2. Len([i \in 1 .. RingSize |-> i]) = RingSize
        BY <1>1
      <3> QED BY <1>1, <1>2, <2>1, <3>1, <3>2
    <2>2. CASE ~full
      BY <1>2, <2>2
    <2> QED BY <2>1, <2>2
  <1>4. ~AtStore /\ ~Unposted /\ ~Stored /\ ~Taken /\ ~Unreturned
    BY <1>2 DEF AtStore, Unposted, Stored, Taken, Unreturned, Some
  <1>5. Waiting = {} /\ Holders = {}
    BY <1>2 DEF Waiting, Holders, Ring!Threads
  <1>6. IsFiniteSet({}) /\ Cardinality({}) = 0
    BY FS_EmptySet
  <1>7. RingType
    <2>1. cells \in [0 .. RingSize - 1 -> RingValues]
      BY <1>1, <1>2 DEF RingValues
    <2>2. hand \in [Ring!Threads -> RingValues]
      BY <1>2 DEF RingValues
    <2>3. ReadSemaphore \in Nat /\ WriteSemaphore \in Nat
      BY <1>1, <1>2
    <2> QED BY <1>2, <1>3, <2>1, <2>2, <2>3 DEF RingType, RingSteps
  <1>8. RingLocks
    BY <1>2 DEF RingLocks, PushSteps, PopSteps
  <1>9. RingCounts
    BY <1>1, <1>2, <1>3, <1>4, <1>5, <1>6 DEF RingCounts, Bit
  <1>10. RingCells
    <2>1. 0 % RingSize = 0 /\ RingSize % RingSize = 0
      BY <1>1
    <2>2. ASSUME NEW i \in 1 .. n PROVE cells[(i - 1) % RingSize] = i
      <3>1. full /\ i - 1 \in 0 .. RingSize - 1 /\ i \in Nat
        BY <1>1
      <3>2. (i - 1) % RingSize = i - 1
        BY <1>1, <3>1
      <3>3. cells[i - 1] = i - 1 + 1
        BY <1>2, <3>1
      <3> QED BY <3>1, <3>2, <3>3
    <2>3. (n - 0) % RingSize = 0 /\ (0 - 0) % RingSize = 0
      <3>1. n - 0 \in {0, RingSize} /\ 0 - 0 = 0
        BY <1>1
      <3> QED BY <2>1, <3>1
    <2>4. NextWriteCell = (Len(pushed) - Bit(Stored)) % RingSize /\ Bit(Stored) <= Len(pushed)
      <3>1. Bit(Stored) = 0 /\ Len(pushed) = n /\ n \in Nat /\ NextWriteCell = 0
        BY <1>2, <1>3, <1>4 DEF Bit
      <3> HIDE DEF n
      <3> QED BY <2>3, <3>1
    <2>5. NextReadCell = (Len(popped) - Bit(Taken)) % RingSize /\ Bit(Taken) <= Len(popped)
      BY <1>2, <1>3, <1>4, <2>3 DEF Bit
    <2>6. \A i \in 1 .. Len(popped) : popped[i] = pushed[i]
      BY <1>3
    <2>7. \A i \in Len(popped) + 1 .. Len(pushed) : i \in 1 .. n
      BY <1>3
    <2> HIDE DEF n, full
    <2> QED BY <1>3, <2>2, <2>4, <2>5, <2>6, <2>7 DEF RingCells
  <1>11. RingBuffers
    <2>1. \A t \in Workers : at[t] = "idle" /\ hand[t] = NoValue
      BY <1>2 DEF Ring!Threads
    <2> QED BY <1>1, <1>2, <1>3, <2>1 DEF RingBuffers, Ring!HandsDisjoint
  <1> QED BY <1>7, <1>8, <1>9, <1>10, <1>11 DEF RingInv

(* The counts survive a step that stores and reads nothing.                       *)
LEMMA CountsKept ==
  ASSUME Assumptions, RingInv, UNCHANGED <<Blocking, pushed, popped>>, Holders' = Holders, IsFiniteSet(Waiting'),
         ReadSemaphore' \in Nat, WriteSemaphore' \in Nat,
         Cardinality(Waiting') + ReadSemaphore' + Bit(Unposted')
            <= Cardinality(Waiting) + ReadSemaphore + Bit(Unposted),
         Blocking = "BLOCKING" =>
            WriteSemaphore' + Bit(AtStore') + Bit(Unreturned') <= WriteSemaphore + Bit(AtStore) + Bit(Unreturned)
  PROVE  RingCounts'
  <1>1. PICK w, r, n \in Nat : w = Len(pushed) /\ r = Len(popped) /\ n = RingSize
    BY RingFacts
  <1>2. PICK a, b \in Int : /\ a = Cardinality(Waiting) + ReadSemaphore + Bit(Unposted)
                           /\ b = Cardinality(Waiting') + ReadSemaphore' + Bit(Unposted')
    <2>1. Cardinality(Waiting') \in Nat
      BY FS_CardinalityType
    <2>2. Bit(Unposted') \in {0, 1}
      BY DEF Bit
    <2>3. ReadSemaphore \in Nat /\ Cardinality(Waiting) \in Nat /\ Bit(Unposted) \in {0, 1}
      BY RingFacts DEF RingInv, RingType
    <2> QED BY <2>1, <2>2, <2>3
  <1>3. PICK c, d \in Int : /\ c = WriteSemaphore + Bit(AtStore) + Bit(Unreturned)
                           /\ d = WriteSemaphore' + Bit(AtStore') + Bit(Unreturned')
    <2>1. Bit(AtStore') \in {0, 1} /\ Bit(Unreturned') \in {0, 1}
      BY DEF Bit
    <2>2. WriteSemaphore \in Nat /\ Bit(AtStore) \in {0, 1} /\ Bit(Unreturned) \in {0, 1}
      BY RingFacts DEF RingInv, RingType
    <2> QED BY <2>1, <2>2
  <1>4. a <= w - r => b <= w - r
    BY <1>2
  <1>5. Blocking = "BLOCKING" => (c + w - r <= n => d + w - r <= n)
    BY <1>3
  <1>6. RingCounts
    BY DEF RingInv
  <1>7. Cardinality(Waiting') + ReadSemaphore' + Bit(Unposted') <= Len(pushed) - Len(popped)
    BY <1>1, <1>2, <1>4, <1>6 DEF RingCounts
  <1>8. Blocking = "BLOCKING" =>
          WriteSemaphore' + Bit(AtStore') + Bit(Unreturned') + Len(pushed) - Len(popped) <= RingSize
    BY <1>1, <1>3, <1>5, <1>6 DEF RingCounts
  <1> QED BY <1>6, <1>7, <1>8 DEF RingCounts

(* The steps of a push from its store to its post change no cell.                 *)
LEMMA RingPushMoves ==
  ASSUME Assumptions, RingInv, NEW t \in Ring!Threads,
         at[t] \in {"pushTest", "pushLoad", "pushCount", "pushPost"},
         NEW b \in {"pushLoad", "pushCount", "pushPost", "pushAdvance"}, at' = [at EXCEPT ![t] = b],
         ReadSemaphore' = ReadSemaphore \/ (ReadSemaphore' = ReadSemaphore + 1 /\ b = "pushAdvance"),
         UNCHANGED <<Blocking, cells, NextWriteCell, NextReadCell, WriteSemaphore, AccessSemaphore, pushLock,
                     hand, pushed, popped>>
  PROVE  RingInv'
  <1>1. RingType'
    BY DEF RingInv, RingType, RingSteps
  <1>2. RingLocks'
    BY LocksKept DEF RingInv, RingSteps, PushSteps, PopSteps
  <1>3. /\ Unposted /\ Stored /\ Stored' /\ ~AtStore /\ ~AtStore' /\ (b = "pushAdvance" => ~Unposted')
        /\ Bit(Taken)' = Bit(Taken)
        /\ Bit(Unreturned)' = Bit(Unreturned)
        /\ Waiting' = Waiting
    BY PushBits DEF RingInv, PushSteps
  <1>4. Holders' = Holders
    BY DEF Holders
  <1>5. RingCounts'
    <2>1. IsFiniteSet(Waiting') /\ ReadSemaphore \in Nat /\ WriteSemaphore \in Nat
      BY <1>3 DEF RingInv, RingCounts, RingType
    <2>2. ReadSemaphore' \in Nat /\ Cardinality(Waiting) \in Nat
      BY <2>1, RingFacts
    <2>3. Cardinality(Waiting) + ReadSemaphore' + Bit(Unposted')
             <= Cardinality(Waiting) + ReadSemaphore + Bit(Unposted)
      BY <1>3, <2>1, <2>2 DEF Bit
    <2>4. WriteSemaphore' + Bit(AtStore') + Bit(Unreturned') = WriteSemaphore + Bit(AtStore) + Bit(Unreturned)
      BY <1>3 DEF Bit
    <2>5. WriteSemaphore + Bit(AtStore) + Bit(Unreturned) \in Nat
      BY <2>1 DEF Bit
    <2> QED BY <1>3, <1>4, <2>1, <2>2, <2>3, <2>4, <2>5, CountsKept
  <1>6. RingCells'
    BY <1>3 DEF RingInv, RingCells, Bit
  <1>7. RingBuffers'
    <2>1. \A u \in Workers : at'[u] \in {"pushWait", "pushStore"} => at[u] \in {"pushWait", "pushStore"}
      BY RingFacts DEF RingInv, RingType
    <2> QED BY <2>1 DEF RingInv, RingBuffers, Ring!HandsDisjoint
  <1> QED BY <1>1, <1>2, <1>5, <1>6, <1>7 DEF RingInv

LEMMA RingPopMoves ==
  ASSUME Assumptions, RingInv, NEW t \in Ring!Threads,
         at[t] \in {"popTest", "popLoad", "popCount", "popPost"},
         NEW b \in {"popLoad", "popCount", "popPost", "popAdvance"}, at' = [at EXCEPT ![t] = b],
         WriteSemaphore' = WriteSemaphore \/ (WriteSemaphore' = WriteSemaphore + 1 /\ b = "popAdvance"),
         UNCHANGED <<Blocking, cells, NextWriteCell, NextReadCell, ReadSemaphore, AccessSemaphore, pushLock,
                     hand, pushed, popped>>
  PROVE  RingInv'
  <1>1. RingType'
    BY DEF RingInv, RingType, RingSteps
  <1>2. RingLocks'
    BY LocksKept DEF RingInv, RingSteps, PushSteps, PopSteps
  <1>3. /\ Unreturned /\ Taken /\ Taken' /\ (b = "popAdvance" => ~Unreturned')
        /\ Bit(Stored)' = Bit(Stored)
        /\ Bit(AtStore)' = Bit(AtStore)
        /\ Bit(Unposted)' = Bit(Unposted)
        /\ Waiting' = Waiting
    BY PopBits DEF RingInv, PopSteps, Waiting
  <1>4. Holders' = Holders
    BY DEF Holders
  <1>5. RingCounts'
    <2>1. IsFiniteSet(Waiting') /\ ReadSemaphore \in Nat /\ WriteSemaphore \in Nat
      BY <1>3 DEF RingInv, RingCounts, RingType
    <2>2. WriteSemaphore' \in Nat
      BY <2>1
    <2>3. Bit(Unreturned) = 1 /\ Bit(Unreturned') \in {0, 1} /\ (b = "popAdvance" => Bit(Unreturned') = 0)
      BY <1>3 DEF Bit
    <2>4. Bit(AtStore) \in {0, 1} /\ Bit(AtStore') = Bit(AtStore)
      BY <1>3, RingFacts
    <2>5. WriteSemaphore' + Bit(AtStore') + Bit(Unreturned') <= WriteSemaphore + Bit(AtStore) + Bit(Unreturned)
      BY <2>1, <2>2, <2>3, <2>4
    <2>6. Cardinality(Waiting) \in Nat /\ Bit(Unposted) \in {0, 1}
      BY RingFacts
    <2>7. Cardinality(Waiting') + ReadSemaphore' + Bit(Unposted') <= Cardinality(Waiting) + ReadSemaphore + Bit(Unposted)
      BY <1>3, <2>1, <2>6
    <2> QED BY <1>3, <1>4, <2>1, <2>2, <2>5, <2>7, CountsKept
  <1>6. RingCells'
    BY <1>3 DEF RingInv, RingCells, Bit
  <1>7. RingBuffers'
    <2>1. \A u \in Workers : at'[u] \in {"pushWait", "pushStore"} => at[u] \in {"pushWait", "pushStore"}
      BY RingFacts DEF RingInv, RingType
    <2> QED BY <2>1 DEF RingInv, RingBuffers, Ring!HandsDisjoint
  <1> QED BY <1>1, <1>2, <1>5, <1>6, <1>7 DEF RingInv

(* A push begins when no other one is under way, with a value of its own.         *)
LEMMA RingPushCall ==
  ASSUME Assumptions, RingInv, NEW t \in Ring!Threads, Ring!PushCall(t)
  PROVE  RingInv'
  <1>1. /\ at[t] = "idle" /\ at' = [at EXCEPT ![t] = "pushWait"] /\ pushLock = 1 /\ pushLock' = 0
        /\ UNCHANGED <<Blocking, cells, NextWriteCell, NextReadCell, WriteSemaphore, ReadSemaphore,
                       AccessSemaphore, pushed, popped>>
        /\ \/ t \in Producers /\ Blocking # "EXCEPTION" /\ hand' = [hand EXCEPT ![t] = <<t, Len(pushed)>>]
           \/ t \in Workers /\ hand[t] # NoValue /\ hand' = hand
    BY DEF Ring!PushCall, Ring!Step, Ring!queueVars, Ring!history, Ring!IsFreeList
  <1>2. \A u \in Ring!Threads : at'[u] = IF u = t THEN "pushWait" ELSE at[u]
    BY <1>1 DEF RingInv, RingType
  <1>3. RingType'
    <2>1. hand' \in [Ring!Threads -> RingValues]
      BY <1>1, RingFacts DEF RingInv, RingType, RingValues
    <2>2. at' \in [Ring!Threads -> RingSteps]
      BY <1>1 DEF RingInv, RingType, RingSteps
    <2> QED BY <1>1, <2>1, <2>2 DEF RingInv, RingType
  <1>4. \A u \in Ring!Threads : at[u] \notin PushSteps
    BY <1>1 DEF RingInv, RingLocks
  <1>5. t \in Workers => Blocking # "BLOCKING"
    BY <1>1, RingFacts DEF RingInv, RingBuffers
  <1>6. RingLocks'
    BY <1>1, <1>2, <1>4, <1>5 DEF RingInv, RingType, RingLocks, PushSteps, PopSteps
  <1>7. /\ Bit(Stored)' = Bit(Stored)
        /\ Bit(AtStore)' = Bit(AtStore)
        /\ Bit(Unposted)' = Bit(Unposted)
        /\ Bit(Taken)' = Bit(Taken)
        /\ Bit(Unreturned)' = Bit(Unreturned)
    BY <1>1, BitsKept DEF RingInv
  <1>8. Waiting' = Waiting
    BY <1>1, <1>2 DEF Waiting
  <1>9. \A u \in Workers : hand'[u] = hand[u]
    BY <1>1, RingFacts DEF RingInv, RingType
  <1>10. Holders' = Holders
    BY <1>9 DEF Holders
  <1>11. RingCounts'
    BY <1>1, <1>7, <1>8, <1>10 DEF RingInv, RingCounts
  <1>12. RingCells'
    BY <1>1, <1>7 DEF RingInv, RingCells
  <1>13. RingBuffers'
    BY <1>1, <1>2, <1>9, RingFacts DEF RingInv, RingBuffers, Ring!HandsDisjoint
  <1> QED BY <1>3, <1>6, <1>11, <1>12, <1>13 DEF RingInv

LEMMA RingPushWait ==
  ASSUME Assumptions, RingInv, NEW t \in Ring!Threads, Ring!PushWait(t)
  PROVE  RingInv'
  <1>1. /\ at[t] = "pushWait" /\ at' = [at EXCEPT ![t] = "pushStore"]
        /\ UNCHANGED <<Blocking, cells, NextWriteCell, NextReadCell, ReadSemaphore,
                       AccessSemaphore, pushLock, hand, pushed, popped>>
        /\ IF Blocking = "BLOCKING" THEN WriteSemaphore > 0 /\ WriteSemaphore' = WriteSemaphore - 1
           ELSE WriteSemaphore' = WriteSemaphore
    BY DEF Ring!PushWait, Ring!Step, Ring!queueVars, Ring!history
  <1>2. RingType'
    BY <1>1 DEF RingInv, RingType, RingSteps
  <1>3. RingLocks'
    BY <1>1, LocksKept DEF RingInv, RingSteps, PushSteps, PopSteps
  <1>4. /\ ~Unposted /\ ~Unposted' /\ ~Stored /\ ~Stored' /\ ~AtStore /\ AtStore'
        /\ Bit(Taken)' = Bit(Taken)
        /\ Bit(Unreturned)' = Bit(Unreturned)
        /\ Waiting' = Waiting
    BY <1>1, PushBits DEF RingInv, PushSteps
  <1>5. Holders' = Holders
    BY <1>1 DEF Holders
  <1>6. RingCounts'
    <2>1. IsFiniteSet(Waiting') /\ ReadSemaphore \in Nat /\ WriteSemaphore \in Nat /\ WriteSemaphore' \in Nat
      BY <1>2, <1>4 DEF RingInv, RingCounts, RingType
    <2>2. Bit(Unposted') = Bit(Unposted) /\ Bit(AtStore) = 0 /\ Bit(AtStore') \in {0, 1}
      BY <1>4 DEF Bit
    <2>3. Blocking = "BLOCKING" =>
             WriteSemaphore' + Bit(AtStore') + Bit(Unreturned') <= WriteSemaphore + Bit(AtStore) + Bit(Unreturned)
      BY <1>1, <1>4, <2>1, <2>2 DEF Bit
    <2>4. Cardinality(Waiting) \in Nat /\ Bit(Unposted) \in {0, 1}
      BY RingFacts
    <2>5. Cardinality(Waiting') + ReadSemaphore' + Bit(Unposted') <= Cardinality(Waiting) + ReadSemaphore + Bit(Unposted)
      BY <1>1, <1>4, <2>1, <2>2, <2>4
    <2>6. UNCHANGED <<Blocking, pushed, popped>> /\ ReadSemaphore' \in Nat
      BY <1>1, <2>1
    <2> QED BY <1>5, <2>1, <2>3, <2>5, <2>6, CountsKept
  <1>7. RingCells'
    BY <1>1, <1>4 DEF RingInv, RingCells, Bit
  <1>8. RingBuffers'
    <2>1. \A u \in Workers : at'[u] \in {"pushWait", "pushStore"} => at[u] \in {"pushWait", "pushStore"}
      BY <1>1, RingFacts DEF RingInv, RingType
    <2> QED BY <1>1, <2>1 DEF RingInv, RingBuffers, Ring!HandsDisjoint
  <1> QED BY <1>2, <1>3, <1>6, <1>7, <1>8 DEF RingInv

(* The cell that is written holds nothing that is still to be read.               *)
LEMMA RingPushStore ==
  ASSUME Assumptions, RingInv, NEW t \in Ring!Threads, Ring!PushStore(t)
  PROVE  RingInv'
  <1> DEFINE w == Len(pushed)
             r == Len(popped)
  <1>1. /\ at[t] = "pushStore" /\ at' = [at EXCEPT ![t] = "pushTest"]
        /\ cells' = [cells EXCEPT ![NextWriteCell] = hand[t]]
        /\ pushed' = Append(pushed, hand[t])
        /\ hand' = [hand EXCEPT ![t] = NoValue]
        /\ UNCHANGED <<Blocking, NextWriteCell, NextReadCell, WriteSemaphore, ReadSemaphore,
                       AccessSemaphore, pushLock, popped>>
    BY DEF Ring!PushStore, Ring!Step, Ring!semVars
  <1>2. hand[t] \in RingValues
    BY DEF RingInv, RingType
  <1>3. /\ pushed' \in Seq(RingValues) /\ Len(pushed') = w + 1 /\ pushed'[w + 1] = hand[t]
        /\ \A i \in 1 .. w : pushed'[i] = pushed[i]
    BY <1>1, <1>2, AppendIs DEF RingInv, RingType
  <1>4. /\ ~Unposted /\ Unposted' /\ ~Stored /\ Stored' /\ AtStore /\ ~AtStore'
        /\ Bit(Taken)' = Bit(Taken)
        /\ Bit(Unreturned)' = Bit(Unreturned)
        /\ Waiting' = Waiting
    BY <1>1, PushBits DEF RingInv, PushSteps
  <1>5. w \in Nat /\ r \in Nat /\ r <= w /\ RingSize \in Nat \ {0} /\ Workers \subseteq Ring!Threads
    BY RingFacts DEF RingInv, RingCounts
  <1>6. NextWriteCell = w % RingSize /\ NextWriteCell \in 0 .. RingSize - 1
    <2>1. NextWriteCell = (w - 0) % RingSize
      BY <1>4 DEF RingInv, RingCells, Bit
    <2>2. w - 0 = w
      BY <1>5
    <2> QED BY <1>5, <2>1, <2>2, Euclid
  <1>7. Holders' = Holders \ {t}
    BY <1>1, <1>5 DEF Holders, RingInv, RingType
  <1>8. Blocking # "BLOCKING" => t \in Holders
    BY <1>1, RingFacts DEF RingInv, RingLocks, RingBuffers, PushSteps, Holders
  <1>9. /\ IsFiniteSet(Holders') /\ Cardinality(Holders') \in Nat
        /\ Blocking # "BLOCKING" => Cardinality(Holders') = Cardinality(Holders) - 1
    BY <1>7, <1>8, FS_RemoveElement, FS_CardinalityType DEF RingInv, RingCounts
  <1>10. w - r < RingSize
    BY <1>4, <1>9, RingFacts DEF RingInv, RingCounts, RingType, Bit
  <1>11. RingType'
    <2>1. cells' \in [0 .. RingSize - 1 -> RingValues]
      BY <1>1, <1>2, <1>6 DEF RingInv, RingType
    <2>2. hand' \in [Ring!Threads -> RingValues]
      BY <1>1 DEF RingInv, RingType, RingValues
    <2> QED BY <1>1, <1>3, <2>1, <2>2 DEF RingInv, RingType, RingSteps
  <1>12. RingLocks'
    BY <1>1, LocksKept DEF RingInv, RingSteps, PushSteps, PopSteps
  <1>13. RingCounts'
    <2>1. IsFiniteSet(Waiting)' /\ Len(popped') <= Len(pushed')
      BY <1>1, <1>3, <1>4, <1>5 DEF RingInv, RingCounts
    <2>2. (Cardinality(Waiting) + ReadSemaphore + Bit(Unposted) <= Len(pushed) - Len(popped))'
      BY <1>1, <1>3, <1>4, <1>5, RingFacts DEF RingInv, RingCounts, RingType, Bit
    <2>3. (IF Blocking = "BLOCKING"
           THEN WriteSemaphore + Bit(AtStore) + Bit(Unreturned) + Len(pushed) - Len(popped) <= RingSize
           ELSE Cardinality(Holders) + Len(pushed) - Len(popped) <= RingSize)'
      <3>1. PICK n, h, a, x, z \in Nat :
               /\ n = RingSize /\ h = Cardinality(Holders') /\ a = WriteSemaphore
               /\ x = Bit(Unreturned) /\ z = Cardinality(Holders)
        BY <1>5, <1>9, RingFacts DEF RingInv, RingType
      <3>2. CASE Blocking = "BLOCKING"
        <4>1. a + 1 + x + w - r <= n
          BY <1>4, <3>1, <3>2 DEF RingInv, RingCounts, Bit
        <4>2. a + 0 + x + (w + 1) - r <= n
          BY <1>5, <4>1
        <4>3. Bit(AtStore') = 0
          BY <1>4 DEF Bit
        <4> QED BY <1>1, <1>3, <1>4, <3>1, <3>2, <4>2, <4>3
      <3>3. CASE Blocking # "BLOCKING"
        <4>1. z + w - r <= n
          BY <3>1, <3>3 DEF RingInv, RingCounts
        <4>2. h = z - 1
          BY <1>9, <3>1, <3>3
        <4>3. h + (w + 1) - r <= n
          BY <1>5, <4>1, <4>2
        <4> QED BY <1>1, <1>3, <3>1, <3>3, <4>3
      <3> QED BY <3>2, <3>3
    <2> QED BY <1>9, <2>1, <2>2, <2>3 DEF RingCounts
  <1>14. RingCells'
    <2>1. NextWriteCell' = (Len(pushed') - Bit(Stored')) % RingSize /\ Bit(Stored') <= Len(pushed')
      <3>1. w + 1 - 1 = w
        BY <1>5
      <3> QED BY <1>1, <1>3, <1>4, <1>5, <1>6, <3>1 DEF Bit
    <2>2. NextReadCell' = (Len(popped') - Bit(Taken')) % RingSize /\ Bit(Taken') <= Len(popped')
      BY <1>1, <1>4 DEF RingInv, RingCells
    <2>3. \A i \in 1 .. Len(popped') : popped'[i] = pushed'[i]
      BY <1>1, <1>3, <1>5 DEF RingInv, RingCells
    <2>4. ASSUME NEW i \in Len(popped') + 1 .. Len(pushed')
          PROVE  cells'[(i - 1) % RingSize] = pushed'[i]
      <3>0. i \in r + 1 .. w + 1
        BY <1>1, <1>3
      <3>1. i - 1 \in Nat /\ (i - 1) % RingSize \in 0 .. RingSize - 1
        <4>1. i - 1 \in Nat
          BY <1>5, <3>0
        <4> QED BY <1>5, <4>1, Euclid
      <3>2. CASE i = w + 1
        <4>1. i - 1 = w
          BY <1>5, <3>2
        <4> QED BY <1>1, <1>3, <1>6, <3>2, <4>1 DEF RingInv, RingType
      <3>3. CASE i \in r + 1 .. w
        <4>1. cells[(i - 1) % RingSize] = pushed[i]
          BY <3>3 DEF RingInv, RingCells
        <4>2. i - 1 < w /\ w - (i - 1) < RingSize
          BY <1>5, <1>10, <3>3
        <4>3. (i - 1) % RingSize # w % RingSize
          BY <1>5, <3>1, <4>2, ModDiffers
        <4>4. i \in 1 .. w
          BY <1>5, <3>3
        <4> QED BY <1>1, <1>3, <1>6, <3>1, <4>1, <4>3, <4>4 DEF RingInv, RingType
      <3> QED BY <1>1, <1>3, <1>5, <3>2, <3>3
    <2> QED BY <2>1, <2>2, <2>3, <2>4 DEF RingCells
  <1>15. RingBuffers'
    <2>1. \A u \in Workers : hand'[u] = IF u = t THEN NoValue ELSE hand[u]
      BY <1>1, <1>5 DEF RingInv, RingType
    <2>2. CASE Blocking = "BLOCKING"
      BY <1>1, <2>1, <2>2 DEF RingInv, RingBuffers
    <2>3. CASE Blocking # "BLOCKING"
      <3>1. \A u \in Workers : at'[u] \in {"pushWait", "pushStore"} => u # t /\ at[u] \in {"pushWait", "pushStore"}
        BY <1>1, <1>5 DEF RingInv, RingType
      <3>2. t \in Workers /\ hand[t] # NoValue
        BY <1>8, <2>3 DEF Holders
      <3>3. Ring!HandsDisjoint'
        BY <2>1, <2>3 DEF RingInv, RingBuffers, Ring!HandsDisjoint
      <3>4. \A u \in Workers : at'[u] \in {"pushWait", "pushStore"} => hand'[u] # NoValue
        BY <2>1, <2>3, <3>1 DEF RingInv, RingBuffers
      <3>5. ASSUME NEW i \in r + 1 .. w + 1
            PROVE  pushed'[i] # NoValue /\ \A u \in Workers : hand'[u] # pushed'[i]
        <4>1. CASE i = w + 1
          BY <1>3, <2>1, <2>3, <3>2, <4>1 DEF RingInv, RingBuffers, Ring!HandsDisjoint
        <4>2. CASE i \in r + 1 .. w
          <5>1. pushed[i] # NoValue /\ \A u \in Workers : hand[u] # pushed[i]
            BY <2>3, <4>2 DEF RingInv, RingBuffers
          <5>2. pushed'[i] = pushed[i]
            BY <1>3, <1>5, <4>2
          <5> QED BY <2>1, <5>1, <5>2
        <4> QED BY <1>5, <4>1, <4>2
      <3>6. ASSUME NEW i \in r + 1 .. w + 1, NEW k \in r + 1 .. w + 1, i # k
            PROVE  pushed'[i] # pushed'[k]
        <4>1. \A j \in r + 1 .. w : pushed'[j] = pushed[j] /\ hand[t] # pushed[j]
          BY <1>3, <1>5, <2>3, <3>2 DEF RingInv, RingBuffers
        <4>2. \A j, l \in r + 1 .. w : j # l => pushed[j] # pushed[l]
          BY <2>3 DEF RingInv, RingBuffers
        <4>3. i \in r + 1 .. w \/ i = w + 1
          BY <1>5
        <4>4. k \in r + 1 .. w \/ k = w + 1
          BY <1>5
        <4> HIDE DEF w, r
        <4> QED BY <1>3, <3>6, <4>1, <4>2, <4>3, <4>4
      <3> QED BY <1>1, <1>3, <2>3, <3>3, <3>4, <3>5, <3>6 DEF RingBuffers
    <2> QED BY <2>2, <2>3
  <1> QED BY <1>11, <1>12, <1>13, <1>14, <1>15 DEF RingInv

LEMMA RingPushAdvance ==
  ASSUME Assumptions, RingInv, NEW t \in Ring!Threads, Ring!PushAdvance(t)
  PROVE  RingInv'
  <1>1. /\ at[t] = "pushAdvance" /\ at' = [at EXCEPT ![t] = "idle"]
        /\ NextWriteCell' = (NextWriteCell + 1) % RingSize /\ pushLock' = 1
        /\ UNCHANGED <<Blocking, cells, NextReadCell, WriteSemaphore, ReadSemaphore,
                       AccessSemaphore, hand, pushed, popped>>
    BY DEF Ring!PushAdvance, Ring!Step, Ring!NextCell, Ring!history
  <1>2. RingType'
    BY <1>1 DEF RingInv, RingType, RingSteps
  <1>3. RingLocks'
    BY <1>1, LocksKept DEF RingInv, RingSteps, PushSteps, PopSteps
  <1>4. /\ ~Unposted /\ ~Unposted' /\ Stored /\ ~Stored' /\ ~AtStore /\ ~AtStore'
        /\ Bit(Taken)' = Bit(Taken)
        /\ Bit(Unreturned)' = Bit(Unreturned)
        /\ Waiting' = Waiting
    <2>1. at[t] \in PushSteps /\ RingType /\ RingLocks
      BY <1>1 DEF RingInv, PushSteps
    <2>2. "idle" \in PushSteps \cup {"idle"}
      OBVIOUS
    <2> QED BY <1>1, <2>1, <2>2, PushBits
  <1>5. Holders' = Holders
    BY <1>1 DEF Holders
  <1>6. RingCounts'
    <2>1. IsFiniteSet(Waiting') /\ ReadSemaphore \in Nat /\ WriteSemaphore \in Nat /\ WriteSemaphore' \in Nat
      BY <1>2, <1>4 DEF RingInv, RingCounts, RingType
    <2>2. Bit(Unposted') = Bit(Unposted) /\ Bit(AtStore) = 0 /\ Bit(AtStore') \in {0, 1}
      BY <1>4 DEF Bit
    <2>3. Blocking = "BLOCKING" =>
             WriteSemaphore' + Bit(AtStore') + Bit(Unreturned') <= WriteSemaphore + Bit(AtStore) + Bit(Unreturned)
      BY <1>1, <1>4, <2>1, <2>2 DEF Bit
    <2>4. Cardinality(Waiting) \in Nat /\ Bit(Unposted) \in {0, 1}
      BY RingFacts
    <2>5. Cardinality(Waiting') + ReadSemaphore' + Bit(Unposted') <= Cardinality(Waiting) + ReadSemaphore + Bit(Unposted)
      BY <1>1, <1>4, <2>1, <2>2, <2>4
    <2>6. UNCHANGED <<Blocking, pushed, popped>> /\ ReadSemaphore' \in Nat
      BY <1>1, <2>1
    <2> QED BY <1>5, <2>1, <2>3, <2>5, <2>6, CountsKept
  <1>7. RingCells'
    <2>1. Len(pushed) - 1 \in Nat /\ NextWriteCell = (Len(pushed) - 1) % RingSize
      BY <1>4, RingFacts DEF RingInv, RingCells, Bit
    <2>2. NextWriteCell' = (Len(pushed) - 1 + 1) % RingSize
      BY <1>1, <2>1, RingFacts, ModNext
    <2>3. Len(pushed) - 1 + 1 = Len(pushed) - 0
      BY RingFacts
    <2> QED BY <1>1, <1>4, <2>2, <2>3, RingFacts DEF RingInv, RingCells, Bit
  <1>8. RingBuffers'
    <2>1. \A u \in Workers : at'[u] \in {"pushWait", "pushStore"} => at[u] \in {"pushWait", "pushStore"}
      BY <1>1, RingFacts DEF RingInv, RingType
    <2> QED BY <1>1, <2>1 DEF RingInv, RingBuffers, Ring!HandsDisjoint
  <1> QED BY <1>2, <1>3, <1>6, <1>7, <1>8 DEF RingInv

(* A pop that has passed the read semaphore is counted in its place.              *)
LEMMA RingPopWait ==
  ASSUME Assumptions, RingInv, NEW t \in Ring!Threads, Ring!PopWait(t)
  PROVE  RingInv'
  <1>1. /\ at[t] = "idle" /\ at' = [at EXCEPT ![t] = "popEnter"]
        /\ ReadSemaphore > 0 /\ ReadSemaphore' = ReadSemaphore - 1
        /\ IF Blocking = "EXCEPTION" THEN t \in Workers ELSE t \in Consumers
        /\ UNCHANGED <<Blocking, cells, NextWriteCell, NextReadCell, WriteSemaphore,
                       AccessSemaphore, pushLock, hand, pushed, popped>>
    BY DEF Ring!PopWait, Ring!Step, Ring!queueVars, Ring!history, Ring!IsFreeList
  <1>2. \A u \in Ring!Threads : at'[u] = IF u = t THEN "popEnter" ELSE at[u]
    BY <1>1 DEF RingInv, RingType
  <1>3. RingType'
    BY <1>1 DEF RingInv, RingType, RingSteps
  <1>4. RingLocks'
    BY <1>1, <1>2 DEF RingInv, RingType, RingLocks, PushSteps, PopSteps
  <1>5. /\ Bit(Stored)' = Bit(Stored)
        /\ Bit(AtStore)' = Bit(AtStore)
        /\ Bit(Unposted)' = Bit(Unposted)
        /\ Bit(Taken)' = Bit(Taken)
        /\ Bit(Unreturned)' = Bit(Unreturned)
    BY <1>1, BitsKept DEF RingInv
  <1>6. Waiting' = Waiting \cup {t} /\ t \notin Waiting
    BY <1>1, <1>2 DEF Waiting
  <1>7. IsFiniteSet(Waiting') /\ Cardinality(Waiting') = Cardinality(Waiting) + 1
    BY <1>6, FS_AddElement DEF RingInv, RingCounts
  <1>8. Holders' = Holders
    BY <1>1 DEF Holders
  <1>9. RingCounts'
    <2>1. ReadSemaphore \in Nat /\ WriteSemaphore \in Nat /\ ReadSemaphore' \in Nat
      BY <1>3 DEF RingInv, RingType
    <2>2. Cardinality(Waiting') + ReadSemaphore' = Cardinality(Waiting) + ReadSemaphore
      BY <1>1, <1>7, <2>1, RingFacts
    <2> QED BY <1>1, <1>5, <1>7, <1>8, <2>1, <2>2, RingFacts, CountsKept
  <1>10. RingCells'
    BY <1>1, <1>5 DEF RingInv, RingCells, Bit
  <1>11. RingBuffers'
    <2>1. \A u \in Workers : at'[u] \in {"pushWait", "pushStore"} => at[u] \in {"pushWait", "pushStore"}
      BY <1>1, RingFacts DEF RingInv, RingType
    <2> QED BY <1>1, <2>1 DEF RingInv, RingBuffers, Ring!HandsDisjoint
  <1> QED BY <1>3, <1>4, <1>9, <1>10, <1>11 DEF RingInv

LEMMA RingPopEnter ==
  ASSUME Assumptions, RingInv, NEW t \in Ring!Threads, Ring!PopEnter(t)
  PROVE  RingInv'
  <1>1. /\ at[t] = "popEnter" /\ at' = [at EXCEPT ![t] = "popRead"]
        /\ AccessSemaphore > 0 /\ AccessSemaphore' = AccessSemaphore - 1
        /\ UNCHANGED <<Blocking, cells, NextWriteCell, NextReadCell, WriteSemaphore, ReadSemaphore,
                       pushLock, hand, pushed, popped>>
    BY DEF Ring!PopEnter, Ring!Step, Ring!queueVars, Ring!history
  <1>2. \A u \in Ring!Threads : at'[u] = IF u = t THEN "popRead" ELSE at[u]
    BY <1>1 DEF RingInv, RingType
  <1>3. RingType'
    BY <1>1 DEF RingInv, RingType, RingSteps
  <1>4. \A u \in Ring!Threads : at[u] \notin PopSteps
    BY <1>1 DEF RingInv, RingLocks
  <1>5. RingLocks'
    BY <1>1, <1>2, <1>4 DEF RingInv, RingType, RingLocks, PushSteps, PopSteps
  <1>6. /\ Bit(Stored)' = Bit(Stored)
        /\ Bit(AtStore)' = Bit(AtStore)
        /\ Bit(Unposted)' = Bit(Unposted)
        /\ Bit(Taken)' = Bit(Taken)
        /\ Bit(Unreturned)' = Bit(Unreturned)
    BY <1>1, BitsKept DEF RingInv
  <1>7. Waiting' = Waiting /\ Holders' = Holders
    BY <1>1, <1>2 DEF Waiting, Holders
  <1>8. RingCounts'
    BY <1>1, <1>6, <1>7, RingFacts DEF RingInv, RingType, RingCounts, Bit
  <1>9. RingCells'
    BY <1>1, <1>6 DEF RingInv, RingCells, Bit
  <1>10. RingBuffers'
    <2>1. \A u \in Workers : at'[u] \in {"pushWait", "pushStore"} => at[u] \in {"pushWait", "pushStore"}
      BY <1>1, RingFacts DEF RingInv, RingType
    <2> QED BY <1>1, <2>1 DEF RingInv, RingBuffers, Ring!HandsDisjoint
  <1> QED BY <1>3, <1>5, <1>8, <1>9, <1>10 DEF RingInv

(* The cell that is read holds the oldest value that has not been read.           *)
LEMMA RingPopRead ==
  ASSUME Assumptions, RingInv, NEW t \in Ring!Threads, Ring!PopRead(t)
  PROVE  RingInv'
  <1> DEFINE w == Len(pushed)
             r == Len(popped)
  <1>1. /\ at[t] = "popRead" /\ at' = [at EXCEPT ![t] = "popTest"]
        /\ hand' = [hand EXCEPT ![t] = cells[NextReadCell]]
        /\ popped' = Append(popped, cells[NextReadCell])
        /\ UNCHANGED <<Blocking, cells, NextWriteCell, NextReadCell, WriteSemaphore, ReadSemaphore,
                       AccessSemaphore, pushLock, pushed>>
    BY DEF Ring!PopRead, Ring!Step, Ring!queueVars, Ring!semVars
  <1>2. /\ ~Unreturned /\ Unreturned' /\ ~Taken /\ Taken'
        /\ Bit(Stored)' = Bit(Stored)
        /\ Bit(AtStore)' = Bit(AtStore)
        /\ Bit(Unposted)' = Bit(Unposted)
        /\ Waiting' = Waiting \ {t}
    BY <1>1, PopBits DEF RingInv, PopSteps
  <1>3. w \in Nat /\ r \in Nat /\ r <= w /\ RingSize \in Nat \ {0} /\ Workers \subseteq Ring!Threads
    BY RingFacts DEF RingInv, RingCounts
  <1>4. IsFiniteSet(Waiting') /\ Cardinality(Waiting') = Cardinality(Waiting) - 1 /\ Cardinality(Waiting') \in Nat
    <2>1. t \in Waiting
      BY <1>1 DEF Waiting
    <2> QED BY <1>2, <2>1, FS_RemoveElement, FS_CardinalityType DEF RingInv, RingCounts
  <1>5. r < w
    BY <1>3, <1>4, RingFacts DEF RingInv, RingCounts, RingType, Bit
  <1>6. NextReadCell = r % RingSize /\ NextReadCell \in 0 .. RingSize - 1
    <2>1. NextReadCell = (r - 0) % RingSize
      BY <1>2 DEF RingInv, RingCells, Bit
    <2>2. r - 0 = r
      BY <1>3
    <2> QED BY <1>3, <2>1, <2>2, Euclid
  <1>7. cells[NextReadCell] = pushed[r + 1] /\ cells[NextReadCell] \in RingValues
    <2>1. r + 1 \in r + 1 .. w /\ r + 1 - 1 = r
      BY <1>3, <1>5
    <2> QED BY <1>6, <2>1 DEF RingInv, RingCells, RingType
  <1>8. /\ popped' \in Seq(RingValues) /\ Len(popped') = r + 1 /\ popped'[r + 1] = pushed[r + 1]
        /\ \A i \in 1 .. r : popped'[i] = popped[i]
    BY <1>1, <1>7, AppendIs DEF RingInv, RingType
  <1>9. RingType'
    <2>1. hand' \in [Ring!Threads -> RingValues]
      BY <1>1, <1>7 DEF RingInv, RingType
    <2> QED BY <1>1, <1>8, <2>1 DEF RingInv, RingType, RingSteps
  <1>10. RingLocks'
    BY <1>1, LocksKept DEF RingInv, RingSteps, PushSteps, PopSteps
  <1>11. \A u \in Workers : hand'[u] = IF u = t THEN pushed[r + 1] ELSE hand[u]
    BY <1>1, <1>3, <1>7 DEF RingInv, RingType
  <1>12. Blocking = "BLOCKING" => t \notin Workers
    BY <1>1, RingFacts DEF RingInv, RingLocks, PopSteps
  <1>13. Blocking # "BLOCKING" => t \in Workers /\ pushed[r + 1] # NoValue
    <2>1. r + 1 \in r + 1 .. w
      BY <1>3, <1>5
    <2> QED BY <1>1, <2>1 DEF RingInv, RingLocks, RingBuffers, PopSteps
  <1>14. Holders' = IF Blocking = "BLOCKING" THEN Holders ELSE Holders \cup {t}
    BY <1>11, <1>12, <1>13 DEF Holders
  <1>15. /\ IsFiniteSet(Holders') /\ Cardinality(Holders') \in Nat
         /\ Blocking # "BLOCKING" => Cardinality(Holders') <= Cardinality(Holders) + 1
    <2>1. IsFiniteSet(Holders) /\ Cardinality(Holders) \in Nat
      BY RingFacts DEF RingInv, RingCounts
    <2>2. /\ IsFiniteSet(Holders \cup {t})
          /\ Cardinality(Holders \cup {t}) \in {Cardinality(Holders), Cardinality(Holders) + 1}
      BY <2>1, FS_AddElement
    <2> QED BY <1>14, <2>1, <2>2
  <1>16. RingCounts'
    <2>1. Len(popped') <= Len(pushed')
      BY <1>1, <1>3, <1>5, <1>8
    <2>2. (Cardinality(Waiting) + ReadSemaphore + Bit(Unposted) <= Len(pushed) - Len(popped))'
      <3>1. PICK c, s, b \in Nat : c = Cardinality(Waiting') /\ s = ReadSemaphore /\ b = Bit(Unposted)
        BY <1>4, RingFacts DEF RingInv, RingType
      <3>2. Cardinality(Waiting) = c + 1
        BY <1>4, <3>1, RingFacts
      <3>3. c + 1 + s + b <= w - r
        BY <3>1, <3>2 DEF RingInv, RingCounts
      <3>4. c + s + b <= w - (r + 1)
        BY <1>3, <3>3
      <3> QED BY <1>1, <1>2, <1>8, <3>1, <3>4
    <2>3. (IF Blocking = "BLOCKING"
           THEN WriteSemaphore + Bit(AtStore) + Bit(Unreturned) + Len(pushed) - Len(popped) <= RingSize
           ELSE Cardinality(Holders) + Len(pushed) - Len(popped) <= RingSize)'
      <3>1. PICK n, h, a, x, z \in Nat :
               /\ n = RingSize /\ h = Cardinality(Holders') /\ a = WriteSemaphore
               /\ x = Bit(AtStore) /\ z = Cardinality(Holders)
        BY <1>3, <1>15, RingFacts DEF RingInv, RingType
      <3>2. CASE Blocking = "BLOCKING"
        <4>1. a + x + 0 + w - r <= n
          BY <1>2, <3>1, <3>2 DEF RingInv, RingCounts, Bit
        <4>2. a + x + 1 + w - (r + 1) <= n
          BY <1>3, <4>1
        <4>3. Bit(Unreturned') = 1
          BY <1>2 DEF Bit
        <4> QED BY <1>1, <1>2, <1>8, <3>1, <3>2, <4>2, <4>3
      <3>3. CASE Blocking # "BLOCKING"
        <4>1. z + w - r <= n
          BY <3>1, <3>3 DEF RingInv, RingCounts
        <4>2. h <= z + 1
          BY <1>15, <3>1, <3>3
        <4>3. h + w - (r + 1) <= n
          BY <1>3, <4>1, <4>2
        <4> QED BY <1>1, <1>8, <3>1, <3>3, <4>3
      <3> QED BY <3>2, <3>3
    <2> QED BY <1>4, <1>15, <2>1, <2>2, <2>3 DEF RingCounts
  <1>17. RingCells'
    <2>1. NextReadCell' = (Len(popped') - Bit(Taken')) % RingSize /\ Bit(Taken') <= Len(popped')
      <3>1. r + 1 - 1 = r
        BY <1>3
      <3> QED BY <1>1, <1>2, <1>3, <1>6, <1>8, <3>1 DEF Bit
    <2>2. NextWriteCell' = (Len(pushed') - Bit(Stored')) % RingSize /\ Bit(Stored') <= Len(pushed')
      BY <1>1, <1>2 DEF RingInv, RingCells
    <2>3. ASSUME NEW i \in 1 .. Len(popped') PROVE popped'[i] = pushed'[i]
      <3>1. i \in 1 .. r \/ i = r + 1
        BY <1>3, <1>8
      <3> QED BY <1>1, <1>8, <3>1 DEF RingInv, RingCells
    <2>4. \A i \in Len(popped') + 1 .. Len(pushed') : cells'[(i - 1) % RingSize] = pushed'[i]
      <3>1. \A i \in Len(popped') + 1 .. Len(pushed') : i \in r + 1 .. w
        BY <1>1, <1>3, <1>8
      <3> QED BY <1>1, <3>1 DEF RingInv, RingCells
    <2> QED BY <2>1, <2>2, <2>3, <2>4 DEF RingCells
  <1>18. RingBuffers'
    <2>1. CASE Blocking = "BLOCKING"
      BY <1>1, <1>11, <1>12, <2>1 DEF RingInv, RingBuffers
    <2>2. CASE Blocking # "BLOCKING"
      <3>1. \A u \in Workers : at'[u] \in {"pushWait", "pushStore"} => u # t /\ at[u] \in {"pushWait", "pushStore"}
        BY <1>1, <1>3 DEF RingInv, RingType
      <3>2. \A u \in Workers : at'[u] \in {"pushWait", "pushStore"} => hand'[u] # NoValue
        BY <1>11, <2>2, <3>1 DEF RingInv, RingBuffers
      <3>3. r + 1 \in r + 1 .. w /\ \A i \in r + 2 .. w : i \in r + 1 .. w /\ i # r + 1
        BY <1>3, <1>5
      <3>4. \A i \in r + 1 .. w :
               /\ pushed[i] # NoValue
               /\ \A u \in Workers : hand[u] # pushed[i]
               /\ \A k \in r + 1 .. w : i # k => pushed[i] # pushed[k]
        BY <2>2 DEF RingInv, RingBuffers
      <3>5. Ring!HandsDisjoint'
        BY <1>11, <2>2, <3>3, <3>4 DEF RingInv, RingBuffers, Ring!HandsDisjoint
      <3>6. \A i \in r + 2 .. w :
               /\ pushed[i] # NoValue
               /\ \A u \in Workers : hand'[u] # pushed[i]
               /\ \A k \in r + 2 .. w : i # k => pushed[i] # pushed[k]
        <4> HIDE DEF r, w
        <4> QED BY <1>11, <3>3, <3>4
      <3>7. Len(popped') + 1 = r + 2 /\ Len(pushed') = w
        BY <1>1, <1>3, <1>8
      <3> QED BY <1>1, <2>2, <3>2, <3>5, <3>6, <3>7 DEF RingBuffers
    <2> QED BY <2>1, <2>2
  <1> QED BY <1>9, <1>10, <1>16, <1>17, <1>18 DEF RingInv

LEMMA RingPopAdvance ==
  ASSUME Assumptions, RingInv, NEW t \in Ring!Threads, Ring!PopAdvance(t)
  PROVE  RingInv'
  <1>1. /\ at[t] = "popAdvance" /\ at' = [at EXCEPT ![t] = "idle"]
        /\ NextReadCell' = (NextReadCell + 1) % RingSize /\ AccessSemaphore' = AccessSemaphore + 1
        /\ hand' = [hand EXCEPT ![t] = IF t \in Consumers THEN NoValue ELSE hand[t]]
        /\ UNCHANGED <<Blocking, cells, NextWriteCell, WriteSemaphore, ReadSemaphore,
                       pushLock, pushed, popped>>
    BY DEF Ring!PopAdvance, Ring!Step, Ring!NextCell, Ring!history
  <1>2. RingType'
    <2>1. hand' \in [Ring!Threads -> RingValues]
      BY <1>1 DEF RingInv, RingType, RingValues
    <2> QED BY <1>1, <2>1 DEF RingInv, RingType, RingSteps
  <1>3. RingLocks'
    <2>1. AccessSemaphore = 0 /\ AccessSemaphore' = 1
      BY <1>1 DEF RingInv, RingLocks, PopSteps
    <2>2. at[t] \in PopSteps /\ at[t] \notin PushSteps /\ RingType /\ RingLocks
      BY <1>1 DEF RingInv, PushSteps, PopSteps
    <2>3. "idle" \in RingSteps /\ "idle" \notin PushSteps /\ "idle" \notin PopSteps /\ "idle" # "popEnter"
      BY DEF RingSteps, PushSteps, PopSteps
    <2> QED BY <1>1, <2>1, <2>2, <2>3, LocksKept
  <1>4. /\ ~Unreturned /\ ~Unreturned' /\ Taken /\ ~Taken'
        /\ Bit(Stored)' = Bit(Stored)
        /\ Bit(AtStore)' = Bit(AtStore)
        /\ Bit(Unposted)' = Bit(Unposted)
        /\ Waiting' = Waiting
    <2>1. at[t] \in PopSteps /\ RingType /\ RingLocks /\ t \notin Waiting
      BY <1>1 DEF RingInv, PopSteps, Waiting
    <2>2. "idle" \in (PopSteps \ {"popRead"}) \cup {"idle"}
      OBVIOUS
    <2>3. at' = [at EXCEPT ![t] = "idle"] /\ at[t] = "popAdvance"
      BY <1>1
    <2>4. Waiting \ {t} = Waiting
      BY <2>1
    <2>5. /\ Unreturned <=> at[t] \in {"popTest", "popLoad", "popCount", "popPost"}
          /\ Unreturned' <=> "idle" \in {"popTest", "popLoad", "popCount", "popPost"}
          /\ Taken <=> at[t] \in {"popTest", "popLoad", "popCount", "popPost", "popAdvance"}
          /\ Taken' <=> "idle" \in {"popTest", "popLoad", "popCount", "popPost", "popAdvance"}
          /\ Bit(AtStore)' = Bit(AtStore)
          /\ Bit(Unposted)' = Bit(Unposted)
          /\ Bit(Stored)' = Bit(Stored)
          /\ Waiting' = Waiting \ {t}
      BY <2>1, <2>2, <2>3, PopBits
    <2> QED BY <2>3, <2>4, <2>5
  <1>5. \A u \in Workers : hand'[u] = hand[u]
    BY <1>1, RingFacts DEF RingInv, RingType
  <1>6. Holders' = Holders
    BY <1>5 DEF Holders
  <1>7. RingCounts'
    <2>1. IsFiniteSet(Waiting') /\ ReadSemaphore \in Nat /\ WriteSemaphore \in Nat
      BY <1>4 DEF RingInv, RingCounts, RingType
    <2>2. Bit(Unreturned') = Bit(Unreturned)
      BY <1>4 DEF Bit
    <2> QED BY <1>1, <1>4, <1>6, <2>1, <2>2, RingFacts, CountsKept
  <1>8. RingCells'
    <2>1. Len(popped) - 1 \in Nat /\ NextReadCell = (Len(popped) - 1) % RingSize
      BY <1>4, RingFacts DEF RingInv, RingCells, Bit
    <2>2. NextReadCell' = (Len(popped) - 1 + 1) % RingSize
      BY <1>1, <2>1, RingFacts, ModNext
    <2>3. Len(popped) - 1 + 1 = Len(popped) - 0
      BY RingFacts
    <2> QED BY <1>1, <1>4, <2>2, <2>3, RingFacts DEF RingInv, RingCells, Bit
  <1>9. RingBuffers'
    <2>1. \A u \in Workers : at'[u] \in {"pushWait", "pushStore"} => at[u] \in {"pushWait", "pushStore"}
      BY <1>1, RingFacts DEF RingInv, RingType
    <2> QED BY <1>1, <1>5, <2>1 DEF RingInv, RingBuffers, Ring!HandsDisjoint
  <1> QED BY <1>2, <1>3, <1>7, <1>8, <1>9 DEF RingInv

LEMMA RingStep ==
  ASSUME Assumptions, RingInv, Ring!Next \/ UNCHANGED ringVars
  PROVE  RingInv'
  <1>1. CASE UNCHANGED ringVars
    BY <1>1 DEF ringVars, RingInv, RingType, RingLocks, RingCounts, RingCells, RingBuffers, Ring!HandsDisjoint,
           Waiting, Holders, Bit, AtStore, Unposted, Stored, Taken, Unreturned, Some
  <1>2. CASE Ring!Next
    <2>1. PICK t \in Ring!Threads : Ring!push(t) \/ Ring!pop(t)
      BY <1>2 DEF Ring!Next
    <2>2. CASE Ring!PushTest(t) \/ Ring!PushLoad(t) \/ Ring!PushCount(t) \/ Ring!PushPost(t)
      <3>1. /\ at[t] \in {"pushTest", "pushLoad", "pushCount", "pushPost"}
            /\ \E b \in {"pushLoad", "pushCount", "pushPost", "pushAdvance"} :
                  /\ at' = [at EXCEPT ![t] = b]
                  /\ ReadSemaphore' = ReadSemaphore \/ (ReadSemaphore' = ReadSemaphore + 1 /\ b = "pushAdvance")
            /\ UNCHANGED <<Blocking, cells, NextWriteCell, NextReadCell, WriteSemaphore, AccessSemaphore, pushLock,
                           hand, pushed, popped>>
        BY <2>2 DEF Ring!PushTest, Ring!PushLoad, Ring!PushCount, Ring!PushPost, Ring!Step,
                    Ring!queueVars, Ring!semVars, Ring!history
      <3> QED BY <3>1, RingPushMoves
    <2>3. CASE Ring!PopTest(t) \/ Ring!PopLoad(t) \/ Ring!PopCount(t) \/ Ring!PopPost(t)
      <3>1. /\ at[t] \in {"popTest", "popLoad", "popCount", "popPost"}
            /\ \E b \in {"popLoad", "popCount", "popPost", "popAdvance"} :
                  /\ at' = [at EXCEPT ![t] = b]
                  /\ WriteSemaphore' = WriteSemaphore \/ (WriteSemaphore' = WriteSemaphore + 1 /\ b = "popAdvance")
            /\ UNCHANGED <<Blocking, cells, NextWriteCell, NextReadCell, ReadSemaphore, AccessSemaphore, pushLock,
                           hand, pushed, popped>>
        BY <2>3 DEF Ring!PopTest, Ring!PopLoad, Ring!PopCount, Ring!PopPost, Ring!Step,
                    Ring!queueVars, Ring!semVars, Ring!history
      <3> QED BY <3>1, RingPopMoves
    <2> QED BY <2>1, <2>2, <2>3, RingPushCall, RingPushWait, RingPushStore, RingPushAdvance,
                RingPopWait, RingPopEnter, RingPopRead, RingPopAdvance DEF Ring!push, Ring!pop
  <1> QED BY <1>1, <1>2

(* Although the counter Free is updated in a race, every pop returns the values   *)
(* in the order they were pushed, whole and once, and no buffer of the free list  *)
(* is in two hands (SharedCyclicQueue::push and pop).                             *)
THEOREM RingStaysSafe == Spec => []RingIsSafe
  <1>1. Init => RingInv
    BY RingInit, Assumptions DEF Init
  <1>2. RingInv /\ [Next]_vars => RingInv'
    <2>1. [Next]_vars => Ring!Next \/ UNCHANGED ringVars
      BY DEF Next, vars
    <2> QED BY <2>1, RingStep, Assumptions
  <1>3. RingInv => RingIsSafe
    BY RingFacts, Assumptions
       DEF RingInv, RingCounts, RingCells, RingBuffers, RingIsSafe, Ring!ReadsFollowWrites, Ring!HandsDisjoint
  <1> QED BY <1>1, <1>2, <1>3, PTL DEF Spec

--------------------------------------------------------------------------------
(* SharedMemoryObjects: the counter of a segment counts the objects mapped to it. *)
(*                                                                                *)
(* A segment is known under one name only, so that a process maps it at most      *)
(* once, and whatever is mapped belongs to the session: the first allocation of a *)
(* session, which starts the count, meets a segment nobody maps.                  *)
MappingsOf(o, s) == {m \in Processes \X Names : o[m[1]][m[2]] = s}
Used(n) == {file[n]} \cup {handle[p][n] : p \in Processes}

ObjectsType ==
    /\ created \in 0 .. MaxSegments /\ sessionId \in Nat \ {0}
    /\ file \in [Names -> 0 .. created]
    /\ handle \in [Processes -> [Names -> 0 .. created]]
    /\ object \in [Processes -> [Names -> 0 .. created]]
    /\ process \in [Processes -> {"none", "alive", "init"}]
    /\ header \in [Objects!Segments -> [magic : BOOLEAN, counter : Nat, session : 0 .. sessionId]]

OneName == \A n, m \in Names : n # m => Used(n) \cap Used(m) \subseteq {0}

ObjectsHeld ==
    \A p \in Processes, n \in Names : object[p][n] # 0 =>
        /\ process[p] # "none"
        /\ handle[p][n] = object[p][n]
        /\ header[object[p][n]].session = sessionId

ObjectsCounted ==
    \A s \in Objects!Segments :
        /\ IsFiniteSet(MappingsOf(object, s))
        /\ header[s].session = sessionId => header[s].counter = Cardinality(MappingsOf(object, s))

ObjectsInv == ObjectsType /\ OneName /\ ObjectsHeld /\ ObjectsCounted

LEMMA ObjectsFacts ==
  ASSUME Assumptions, ObjectsInv
  PROVE  /\ MaxSegments \in Nat \ {0} /\ created \in Nat /\ sessionId \in Nat \ {0}
         /\ \A p \in Processes, n \in Names : object[p][n] # 0 => object[p][n] \in Objects!Segments
         /\ \A p \in Processes, n \in Names : handle[p][n] # 0 => handle[p][n] \in Objects!Segments
         /\ \A n \in Names : file[n] # 0 => file[n] \in Objects!Segments
         /\ \A p \in Processes, n, m \in Names : object[p][n] # 0 /\ object[p][n] = object[p][m] => n = m
  <1>1. MaxSegments \in Nat \ {0} /\ created \in Nat /\ sessionId \in Nat \ {0}
    BY DEF Assumptions, Objects!SharedMemoryAssumption, ObjectsInv, ObjectsType
  <1>2. \A x \in 0 .. created : x # 0 => x \in Objects!Segments
    BY <1>1 DEF Objects!Segments, ObjectsInv, ObjectsType
  <1>3. /\ \A p \in Processes, n \in Names : object[p][n] # 0 => object[p][n] \in Objects!Segments
        /\ \A p \in Processes, n \in Names : handle[p][n] # 0 => handle[p][n] \in Objects!Segments
        /\ \A n \in Names : file[n] # 0 => file[n] \in Objects!Segments
    BY <1>2 DEF ObjectsInv, ObjectsType
  <1>4. ASSUME NEW p \in Processes, NEW n \in Names, NEW m \in Names,
               object[p][n] # 0, object[p][n] = object[p][m]
        PROVE  n = m
    <2>1. handle[p][n] = object[p][n] /\ handle[p][m] = object[p][m]
      BY <1>4 DEF ObjectsInv, ObjectsHeld
    <2>2. object[p][n] \in Used(n) /\ object[p][n] \in Used(m)
      BY <1>4, <2>1 DEF Used
    <2> QED BY <1>4, <2>2 DEF ObjectsInv, OneName
  <1> QED BY <1>1, <1>3, <1>4

(* Names that take no segment of another one keep theirs apart.                   *)
LEMMA NamesKept ==
  ASSUME OneName, NEW f, \A n \in Names : Used(n)' \subseteq Used(n) \cup {0, f},
         \A n, m \in Names : f # 0 /\ f \in Used(n)' /\ f \in Used(m)' => n = m
  PROVE  OneName'
  <1>1. ASSUME NEW n \in Names, NEW m \in Names, n # m, NEW x \in Used(n)', x \in Used(m)'
        PROVE  x = 0
    <2>1. CASE x = f
      BY <1>1, <2>1
    <2>2. CASE x # f
      BY <1>1, <2>2 DEF OneName
    <2> QED BY <2>1, <2>2
  <1> QED BY <1>1 DEF OneName

(* All objects of a process at once: one per segment it maps.                     *)
LEMMA MappingsCopied ==
  ASSUME Assumptions, ObjectsInv, NEW p \in Processes, NEW c \in Processes, \A n \in Names : object[c][n] = 0,
         object' = [object EXCEPT ![c] = object[p]], NEW x \in Objects!Segments
  PROVE  /\ x \in Objects!On(p) => \E n \in Names : /\ MappingsOf(object', x) = MappingsOf(object, x) \cup {<<c, n>>}
                                                    /\ <<c, n>> \notin MappingsOf(object, x)
         /\ x \notin Objects!On(p) => MappingsOf(object', x) = MappingsOf(object, x)
  <1>1. \A q \in Processes, m \in Names : object'[q][m] = IF q = c THEN object[p][m] ELSE object[q][m]
    BY DEF ObjectsInv, ObjectsType
  <1>2. x # 0
    BY DEF Objects!Segments
  <1>3. ASSUME NEW n \in Names, object[p][n] = x
        PROVE  MappingsOf(object', x) = MappingsOf(object, x) \cup {<<c, n>>} /\ <<c, n>> \notin MappingsOf(object, x)
    <2>1. \A m \in Names : object[p][m] = x <=> m = n
      BY <1>2, <1>3, ObjectsFacts
    <2> QED BY <1>1, <1>2, <2>1 DEF MappingsOf
  <1>4. ASSUME x \notin Objects!On(p) PROVE MappingsOf(object', x) = MappingsOf(object, x)
    <2>1. \A m \in Names : object[p][m] # x
      BY <1>2, <1>4 DEF Objects!On
    <2> QED BY <1>1, <1>2, <2>1 DEF MappingsOf
  <1> QED BY <1>3, <1>4 DEF Objects!On

LEMMA MappingsLost ==
  ASSUME Assumptions, ObjectsInv, NEW p \in Processes, object' = [object EXCEPT ![p] = [n \in Names |-> 0]],
         NEW x \in Objects!Segments
  PROVE  /\ x \in Objects!On(p) => \E n \in Names : /\ MappingsOf(object', x) = MappingsOf(object, x) \ {<<p, n>>}
                                                    /\ <<p, n>> \in MappingsOf(object, x)
         /\ x \notin Objects!On(p) => MappingsOf(object', x) = MappingsOf(object, x)
  <1>1. \A q \in Processes, m \in Names : object'[q][m] = IF q = p THEN 0 ELSE object[q][m]
    BY DEF ObjectsInv, ObjectsType
  <1>2. x # 0
    BY DEF Objects!Segments
  <1>3. ASSUME NEW n \in Names, object[p][n] = x
        PROVE  MappingsOf(object', x) = MappingsOf(object, x) \ {<<p, n>>} /\ <<p, n>> \in MappingsOf(object, x)
    <2>1. \A m \in Names : object[p][m] = x <=> m = n
      BY <1>2, <1>3, ObjectsFacts
    <2> QED BY <1>1, <1>2, <2>1 DEF MappingsOf
  <1>4. ASSUME x \notin Objects!On(p) PROVE MappingsOf(object', x) = MappingsOf(object, x)
    <2>1. \A m \in Names : object[p][m] # x
      BY <1>2, <1>4 DEF Objects!On
    <2> QED BY <1>1, <1>2, <2>1 DEF MappingsOf
  <1> QED BY <1>3, <1>4 DEF Objects!On

LEMMA ObjectsInit == Assumptions /\ Objects!Init => ObjectsInv
  <1> SUFFICES ASSUME Assumptions, Objects!Init PROVE ObjectsInv
    OBVIOUS
  <1>1. MaxSegments \in Nat \ {0}
    BY DEF Assumptions, Objects!SharedMemoryAssumption
  <1>2. ObjectsType
    <2>1. created \in 0 .. MaxSegments /\ sessionId \in Nat \ {0} /\ 0 \in 0 .. created
      BY <1>1 DEF Objects!Init
    <2>2. /\ file \in [Names -> 0 .. created]
          /\ handle \in [Processes -> [Names -> 0 .. created]]
          /\ object \in [Processes -> [Names -> 0 .. created]]
      BY <2>1 DEF Objects!Init
    <2>3. process \in [Processes -> {"none", "alive", "init"}]
      BY DEF Objects!Init
    <2>4. header \in [Objects!Segments -> [magic : BOOLEAN, counter : Nat, session : 0 .. sessionId]]
      <3>1. Objects!Fresh \in [magic : BOOLEAN, counter : Nat, session : 0 .. sessionId]
        BY <2>1 DEF Objects!Fresh
      <3> QED BY <3>1 DEF Objects!Init
    <2> QED BY <2>1, <2>2, <2>3, <2>4 DEF ObjectsType
  <1>3. OneName
    BY DEF Objects!Init, OneName, Used
  <1>4. ObjectsHeld
    BY DEF Objects!Init, ObjectsHeld
  <1>5. ASSUME NEW s \in Objects!Segments
        PROVE  IsFiniteSet(MappingsOf(object, s)) /\ header[s].session # sessionId
    <2>1. s # 0
      BY DEF Objects!Segments
    <2>2. MappingsOf(object, s) = {}
      BY <2>1 DEF MappingsOf, Objects!Init
    <2>3. header[s].session # sessionId
      BY DEF Objects!Init, Objects!Fresh
    <2> QED BY <2>2, <2>3, FS_EmptySet
  <1> QED BY <1>2, <1>3, <1>4, <1>5 DEF ObjectsInv, ObjectsCounted

(* An object is attached: the name leads to a segment that is its own.            *)
LEMMA ObjectsAttach ==
  ASSUME Assumptions, ObjectsInv, NEW p \in Processes, NEW n \in Names, process[p] # "none", object[p][n] = 0,
         NEW s \in Objects!Segments, NEW h \in [magic : BOOLEAN, counter : Nat, session : 0 .. sessionId],
         s = IF handle[p][n] # 0 THEN handle[p][n] ELSE file'[n],
         \/ created' = created /\ file' = file
         \/ file[n] = 0 /\ created' = created + 1 /\ created' \in 0 .. MaxSegments
            /\ file' = [file EXCEPT ![n] = created + 1],
         handle' = [handle EXCEPT ![p][n] = s], object' = [object EXCEPT ![p][n] = s],
         header' = [header EXCEPT ![s] = h], UNCHANGED <<process, sessionId>>,
         h.session = sessionId,
         h.counter = IF header[s].session # sessionId THEN 1 ELSE header[s].counter + 1
  PROVE  ObjectsInv'
  <1>1. s # 0 /\ s \in Nat /\ created \in Nat /\ s \in 0 .. created' /\ 0 .. created \subseteq 0 .. created'
    <2>1. created \in Nat /\ s \in 1 .. MaxSegments
      BY ObjectsFacts DEF Objects!Segments
    <2>2. s \in 0 .. created'
      BY <2>1 DEF ObjectsInv, ObjectsType
    <2> QED BY <2>1, <2>2
  <1>2. /\ \A q \in Processes, m \in Names : handle'[q][m] = IF q = p /\ m = n THEN s ELSE handle[q][m]
        /\ \A q \in Processes, m \in Names : object'[q][m] = IF q = p /\ m = n THEN s ELSE object[q][m]
        /\ \A m \in Names : m # n => file'[m] = file[m]
        /\ \A x \in Objects!Segments : header'[x] = IF x = s THEN h ELSE header[x]
    BY DEF ObjectsInv, ObjectsType
  <1>3. ObjectsType'
    <2>1. created' \in 0 .. MaxSegments /\ sessionId' \in Nat \ {0}
      BY DEF ObjectsInv, ObjectsType
    <2>2. file' \in [Names -> 0 .. created']
      BY <1>1 DEF ObjectsInv, ObjectsType
    <2>3. handle' \in [Processes -> [Names -> 0 .. created']]
      BY <1>1 DEF ObjectsInv, ObjectsType
    <2>4. object' \in [Processes -> [Names -> 0 .. created']]
      BY <1>1 DEF ObjectsInv, ObjectsType
    <2>5. header' \in [Objects!Segments -> [magic : BOOLEAN, counter : Nat, session : 0 .. sessionId]]
      BY DEF ObjectsInv, ObjectsType
    <2> QED BY <2>1, <2>2, <2>3, <2>4, <2>5 DEF ObjectsInv, ObjectsType
  <1>4. /\ Used(n)' \subseteq Used(n) \cup {0, file'[n]}
        /\ \A m \in Names : m # n => Used(m)' = Used(m) /\ (file'[n] # 0 => file'[n] \notin Used(m))
    <2>1. Used(n)' \subseteq Used(n) \cup {0, file'[n]}
      BY <1>2 DEF Used
    <2>2. \A m \in Names : m # n => Used(m)' = Used(m)
      BY <1>2 DEF Used
    <2>3. \A m \in Names : Used(m) \subseteq 0 .. created
      BY DEF Used, ObjectsInv, ObjectsType
    <2>4. file'[n] \in Used(n) \/ file'[n] = created + 1
      BY DEF Used, ObjectsInv, ObjectsType
    <2>5. created + 1 \notin 0 .. created
      BY <1>1
    <2>6. \A m \in Names : m # n /\ file'[n] # 0 => file'[n] \notin Used(m)
      BY <1>1, <2>3, <2>4, <2>5 DEF ObjectsInv, OneName
    <2> QED BY <2>1, <2>2, <2>6
  <1>5. OneName'
    <2>1. PICK f : f = file'[n]
      OBVIOUS
    <2>2. \A m \in Names : Used(m)' \subseteq Used(m) \cup {0, f}
      BY <1>4, <2>1
    <2>3. \A m, k \in Names : f # 0 /\ f \in Used(m)' /\ f \in Used(k)' => m = k
      BY <1>4, <2>1
    <2> QED BY <2>2, <2>3, NamesKept DEF ObjectsInv
  <1>6. ObjectsHeld'
    BY <1>2, ObjectsFacts DEF ObjectsInv, ObjectsHeld
  <1>7. /\ MappingsOf(object', s) = MappingsOf(object, s) \cup {<<p, n>>} /\ <<p, n>> \notin MappingsOf(object, s)
        /\ \A x : x # 0 /\ x # s => MappingsOf(object', x) = MappingsOf(object, x)
    <2>1. MappingsOf(object', s) = MappingsOf(object, s) \cup {<<p, n>>}
      BY <1>1, <1>2 DEF MappingsOf
    <2>2. <<p, n>> \notin MappingsOf(object, s)
      BY <1>1 DEF MappingsOf
    <2>3. \A x : x # 0 /\ x # s => MappingsOf(object', x) = MappingsOf(object, x)
      BY <1>2 DEF MappingsOf
    <2> QED BY <2>1, <2>2, <2>3
  <1>8. IsFiniteSet(MappingsOf(object', s)) /\ Cardinality(MappingsOf(object', s)) = Cardinality(MappingsOf(object, s)) + 1
    <2>1. IsFiniteSet(MappingsOf(object, s))
      BY DEF ObjectsInv, ObjectsCounted
    <2>2. /\ IsFiniteSet(MappingsOf(object, s) \cup {<<p, n>>})
          /\ Cardinality(MappingsOf(object, s) \cup {<<p, n>>}) = Cardinality(MappingsOf(object, s)) + 1
      BY <1>7, <2>1, FS_AddElement
    <2> QED BY <1>7, <2>2
  <1>9. h.counter = Cardinality(MappingsOf(object', s))
    <2>1. CASE header[s].session = sessionId
      <3>1. header[s].counter = Cardinality(MappingsOf(object, s))
        BY <2>1 DEF ObjectsInv, ObjectsCounted
      <3> QED BY <1>8, <2>1, <3>1
    <2>2. CASE header[s].session # sessionId
      <3>1. \A q \in Processes, m \in Names : object[q][m] # s
        BY <1>1, <2>2 DEF ObjectsInv, ObjectsHeld
      <3>2. MappingsOf(object, s) = {}
        BY <3>1 DEF MappingsOf
      <3>3. Cardinality(MappingsOf(object, s)) = 0
        BY <3>2, FS_EmptySet
      <3>4. Cardinality(MappingsOf(object', s)) = 1 /\ h.counter = 1
        BY <1>8, <2>2, <3>3
      <3> QED BY <3>4
    <2> QED BY <2>1, <2>2
  <1>10. ASSUME NEW x \in Objects!Segments
         PROVE  /\ IsFiniteSet(MappingsOf(object', x))
                /\ header'[x].session = sessionId' => header'[x].counter = Cardinality(MappingsOf(object', x))
    <2>1. CASE x = s
      BY <1>2, <1>8, <1>9, <2>1
    <2>2. CASE x # s
      <3>1. x # 0
        BY DEF Objects!Segments
      <3>2. MappingsOf(object', x) = MappingsOf(object, x) /\ header'[x] = header[x]
        BY <1>2, <1>7, <2>2, <3>1
      <3> QED BY <3>2 DEF ObjectsInv, ObjectsCounted
    <2> QED BY <2>1, <2>2
  <1>11. ObjectsCounted'
    BY <1>10 DEF ObjectsCounted
  <1> QED BY <1>3, <1>5, <1>6, <1>11 DEF ObjectsInv

LEMMA ObjectsMaster ==
  ASSUME Assumptions, ObjectsInv, NEW p \in Processes, NEW n \in Names, Objects!InitializeMaster(p, n)
  PROVE  ObjectsInv'
  <1> DEFINE s == IF handle[p][n] # 0 THEN handle[p][n] ELSE file'[n]
             h == [magic |-> TRUE, session |-> sessionId,
                   counter |-> IF header[s].session # sessionId THEN 1 ELSE header[s].counter + 1]
  <1>1. /\ process[p] # "none" /\ object[p][n] = 0
        /\ handle' = [handle EXCEPT ![p][n] = s] /\ object' = [object EXCEPT ![p][n] = s]
        /\ UNCHANGED <<process, sessionId>>
    BY DEF Objects!InitializeMaster, Objects!Alive, Objects!openSharedMemory, Objects!Attach, Objects!Opened
  <1>2. header' = [header EXCEPT ![s] = h]
    BY DEF Objects!InitializeMaster, Objects!Opened, Objects!Master
  <1>3. \/ created' = created /\ file' = file /\ file[n] # 0
        \/ file[n] = 0 /\ created < MaxSegments /\ created' = created + 1 /\ file' = [file EXCEPT ![n] = created + 1]
    BY DEF Objects!InitializeMaster, Objects!createSharedMemory
  <1>4. s \in Objects!Segments /\ (created' = created + 1 => created' \in 0 .. MaxSegments)
    <2>1. created + 1 \in Objects!Segments \/ ~(created < MaxSegments)
      BY ObjectsFacts DEF Objects!Segments
    <2>2. file'[n] \in Objects!Segments
      BY <1>3, <2>1, ObjectsFacts DEF ObjectsInv, ObjectsType
    <2>3. created < MaxSegments => created + 1 \in 0 .. MaxSegments
      BY ObjectsFacts
    <2>4. created # created + 1
      BY ObjectsFacts
    <2> QED BY <1>3, <2>2, <2>3, <2>4, ObjectsFacts
  <1>5. h \in [magic : BOOLEAN, counter : Nat, session : 0 .. sessionId]
    <2>1. sessionId \in 0 .. sessionId
      BY ObjectsFacts
    <2>2. header[s].counter \in Nat
      BY <1>4 DEF ObjectsInv, ObjectsType
    <2> HIDE DEF s
    <2> QED BY <2>1, <2>2
  <1>6. h.session = sessionId /\ h.counter = IF header[s].session # sessionId THEN 1 ELSE header[s].counter + 1
    OBVIOUS
  <1>7. s = IF handle[p][n] # 0 THEN handle[p][n] ELSE file'[n]
    OBVIOUS
  <1> HIDE DEF s, h
  <1> QED BY <1>1, <1>2, <1>3, <1>4, <1>5, <1>6, <1>7, ObjectsAttach

(* A slave that is refused keeps the handle.                                      *)
LEMMA ObjectsSlave ==
  ASSUME Assumptions, ObjectsInv, NEW p \in Processes, NEW n \in Names, Objects!InitializeSlave(p, n)
  PROVE  ObjectsInv'
  <1> DEFINE s == IF handle[p][n] # 0 THEN handle[p][n] ELSE file'[n]
  <1>1. /\ process[p] # "none" /\ object[p][n] = 0 /\ s # 0
        /\ handle' = [handle EXCEPT ![p][n] = s]
        /\ UNCHANGED <<created, file, process, sessionId>>
        /\ IF header[s].magic /\ header[s].session = sessionId
           THEN object' = [object EXCEPT ![p][n] = s] /\ header' = [header EXCEPT ![s].counter = header[s].counter + 1]
           ELSE UNCHANGED <<object, header>>
    BY DEF Objects!InitializeSlave, Objects!Alive, Objects!openSharedMemory, Objects!Attach, Objects!Opened
  <1>2. s \in Objects!Segments /\ s \in 0 .. created
    BY <1>1, ObjectsFacts DEF ObjectsInv, ObjectsType
  <1>3. s = IF handle[p][n] # 0 THEN handle[p][n] ELSE file'[n]
    OBVIOUS
  <1> HIDE DEF s
  <1>4. CASE header[s].magic /\ header[s].session = sessionId
    <2> DEFINE h == [header[s] EXCEPT !.counter = header[s].counter + 1]
    <2>1. header[s] \in [magic : BOOLEAN, counter : Nat, session : 0 .. sessionId]
      BY <1>2 DEF ObjectsInv, ObjectsType
    <2>2. /\ h \in [magic : BOOLEAN, counter : Nat, session : 0 .. sessionId]
          /\ h.session = sessionId /\ h.counter = header[s].counter + 1
      <3>1. header[s].counter + 1 \in Nat
        BY <2>1
      <3> QED BY <1>4, <2>1, <3>1
    <2>3. header' = [header EXCEPT ![s] = h] /\ object' = [object EXCEPT ![p][n] = s]
      BY <1>1, <1>2, <1>4 DEF ObjectsInv, ObjectsType
    <2>4. h.counter = IF header[s].session # sessionId THEN 1 ELSE header[s].counter + 1
      BY <1>4, <2>2
    <2>5. created' = created /\ file' = file
      BY <1>1
    <2> HIDE DEF h
    <2> QED BY <1>1, <1>2, <1>3, <2>2, <2>3, <2>4, <2>5, ObjectsAttach
  <1>5. CASE ~(header[s].magic /\ header[s].session = sessionId)
    <2>1. UNCHANGED <<created, file, process, sessionId, object, header>>
      BY <1>1, <1>5
    <2>2. \A q \in Processes, m \in Names : handle'[q][m] = IF q = p /\ m = n THEN s ELSE handle[q][m]
      BY <1>1 DEF ObjectsInv, ObjectsType
    <2>3. ObjectsType'
      <3>1. handle' \in [Processes -> [Names -> 0 .. created]]
        BY <1>1, <1>2 DEF ObjectsInv, ObjectsType
      <3> QED BY <2>1, <3>1 DEF ObjectsInv, ObjectsType
    <2>4. /\ s \in Used(n) /\ Used(n)' \subseteq Used(n) \cup {0, s}
          /\ \A m \in Names : m # n => Used(m)' = Used(m) /\ s \notin Used(m)
      <3>1. s \in Used(n)
        BY <1>3, <2>1 DEF Used
      <3>2. Used(n)' \subseteq Used(n) \cup {0, s} /\ \A m \in Names : m # n => Used(m)' = Used(m)
        BY <2>1, <2>2 DEF Used
      <3> QED BY <1>1, <3>1, <3>2 DEF ObjectsInv, OneName
    <2>5. OneName'
      BY <2>4, NamesKept DEF ObjectsInv
    <2>6. ObjectsHeld'
      BY <1>1, <2>1, <2>2 DEF ObjectsInv, ObjectsHeld
    <2>7. ObjectsCounted'
      BY <2>1 DEF ObjectsInv, ObjectsCounted, MappingsOf
    <2> QED BY <2>3, <2>5, <2>6, <2>7 DEF ObjectsInv
  <1> QED BY <1>4, <1>5

(* Steps in which files and handles only go, and process p has no object new.     *)
LEMMA ObjectsDeinitialize ==
  ASSUME Assumptions, ObjectsInv, NEW p \in Processes, NEW n \in Names, Objects!Deinitialize(p, n)
  PROVE  ObjectsInv'
  <1>0. PICK s \in Objects!Segments : s = object[p][n]
    BY ObjectsFacts DEF Objects!Deinitialize
  <1>1. s # 0 /\ object[p][n] = s /\ header[s].session = sessionId /\ process[p] # "none"
    BY <1>0 DEF Objects!Deinitialize, Objects!Alive, ObjectsInv, ObjectsHeld
  <1>2. object' = [object EXCEPT ![p][n] = 0]
    BY DEF Objects!Deinitialize
  <1>3. /\ MappingsOf(object', s) = MappingsOf(object, s) \ {<<p, n>>} /\ <<p, n>> \in MappingsOf(object, s)
        /\ \A x : x # 0 /\ x # s => MappingsOf(object', x) = MappingsOf(object, x)
    <2>0. \A q \in Processes, m \in Names : object'[q][m] = IF q = p /\ m = n THEN 0 ELSE object[q][m]
      BY <1>2 DEF ObjectsInv, ObjectsType
    <2>1. MappingsOf(object', s) = MappingsOf(object, s) \ {<<p, n>>}
      BY <1>1, <2>0 DEF MappingsOf
    <2>2. <<p, n>> \in MappingsOf(object, s)
      BY <1>1 DEF MappingsOf
    <2>3. \A x : x # 0 /\ x # s => MappingsOf(object', x) = MappingsOf(object, x)
      BY <1>1, <2>0 DEF MappingsOf
    <2> QED BY <2>1, <2>2, <2>3
  <1>4. header[s].counter = Cardinality(MappingsOf(object, s)) /\ IsFiniteSet(MappingsOf(object, s))
    BY <1>1 DEF ObjectsInv, ObjectsCounted
  <1>5. /\ IsFiniteSet(MappingsOf(object', s)) /\ Cardinality(MappingsOf(object', s)) = header[s].counter - 1
        /\ Cardinality(MappingsOf(object', s)) \in Nat /\ header[s].counter \in Nat
    <2>1. IsFiniteSet(MappingsOf(object', s)) /\ Cardinality(MappingsOf(object', s)) = header[s].counter - 1
      BY <1>3, <1>4, FS_RemoveElement
    <2> QED BY <1>4, <2>1, FS_CardinalityType
  <1>6. /\ header' = [header EXCEPT ![s].counter = header[s].counter - 1]
        /\ \/ file' = [file EXCEPT ![n] = 0] /\ handle' = handle
           \/ file' = file /\ (handle' = handle \/ handle' = [handle EXCEPT ![p][n] = 0])
        /\ UNCHANGED <<created, process, sessionId>>
    <2>1. header[s].counter # 0
      BY <1>5
    <2> QED BY <1>1, <2>1 DEF Objects!Deinitialize, Objects!deleteSharedMemory, Objects!closeFile
  <1>7. /\ \A x \in Objects!Segments : x # s => header'[x] = header[x]
        /\ header'[s].session = sessionId /\ header'[s].counter = header[s].counter - 1
        /\ header' \in [Objects!Segments -> [magic : BOOLEAN, counter : Nat, session : 0 .. sessionId]]
    <2>1. header[s] \in [magic : BOOLEAN, counter : Nat, session : 0 .. sessionId] /\ header[s].counter - 1 \in Nat
      BY <1>1, <1>5 DEF ObjectsInv, ObjectsType
    <2>2. header'[s] = [header[s] EXCEPT !.counter = header[s].counter - 1]
      BY <1>1, <1>6 DEF ObjectsInv, ObjectsType
    <2>3. header' = [header EXCEPT ![s] = header'[s]] /\ DOMAIN header = Objects!Segments
      BY <1>1, <1>6 DEF ObjectsInv, ObjectsType
    <2>4. header'[s] \in [magic : BOOLEAN, counter : Nat, session : 0 .. sessionId]
      BY <2>1, <2>2
    <2>5. \A x \in Objects!Segments : x # s => header'[x] = header[x]
      BY <1>6 DEF ObjectsInv, ObjectsType
    <2>6. header' \in [Objects!Segments -> [magic : BOOLEAN, counter : Nat, session : 0 .. sessionId]]
      BY <2>3, <2>4, <2>5 DEF ObjectsInv, ObjectsType
    <2> QED BY <1>1, <2>1, <2>2, <2>5, <2>6
  <1>8. /\ \A q \in Processes, m \in Names : object'[q][m] = IF q = p /\ m = n THEN 0 ELSE object[q][m]
        /\ \A q \in Processes, m \in Names : q # p \/ m # n => handle'[q][m] = handle[q][m]
    BY <1>2, <1>6 DEF ObjectsInv, ObjectsType
  <1>9. ObjectsType'
    <2>1. created \in Nat /\ 0 \in 0 .. created
      BY ObjectsFacts
    <2>2. file' \in [Names -> 0 .. created]
      BY <1>6, <2>1 DEF ObjectsInv, ObjectsType
    <2>3. handle' \in [Processes -> [Names -> 0 .. created]]
      <3>1. handle \in [Processes -> [Names -> 0 .. created]]
        BY DEF ObjectsInv, ObjectsType
      <3>2. [handle EXCEPT ![p][n] = 0] \in [Processes -> [Names -> 0 .. created]]
        BY <2>1, <3>1
      <3> QED BY <1>6, <3>1, <3>2
    <2>4. object' \in [Processes -> [Names -> 0 .. created]]
      BY <1>2, <2>1 DEF ObjectsInv, ObjectsType
    <2> QED BY <1>6, <1>7, <2>2, <2>3, <2>4 DEF ObjectsInv, ObjectsType
  <1>10. \A m \in Names : Used(m)' \subseteq Used(m) \cup {0}
    <2>1. \A m \in Names : file'[m] \in {file[m], 0}
      BY <1>6 DEF ObjectsInv, ObjectsType
    <2>2. ASSUME NEW q \in Processes, NEW m \in Names PROVE handle'[q][m] \in {handle[q][m], 0}
      <3>1. handle \in [Processes -> [Names -> Nat]]
        BY ObjectsFacts DEF ObjectsInv, ObjectsType
      <3>2. [handle EXCEPT ![p][n] = 0][q][m] = IF q = p /\ m = n THEN 0 ELSE handle[q][m]
        BY <3>1
      <3> QED BY <1>6, <3>2
    <2> QED BY <2>1, <2>2 DEF Used
  <1>11. OneName'
    BY <1>10 DEF ObjectsInv, OneName
  <1>12. ObjectsHeld'
    <2>1. ASSUME NEW q \in Processes, NEW m \in Names, object'[q][m] # 0
          PROVE  process[q] # "none" /\ handle'[q][m] = object'[q][m] /\ header'[object'[q][m]].session = sessionId
      <3>1. object'[q][m] = object[q][m] /\ handle'[q][m] = handle[q][m] /\ object[q][m] \in Objects!Segments
        BY <1>8, <2>1, ObjectsFacts
      <3> QED BY <1>1, <1>7, <2>1, <3>1 DEF ObjectsInv, ObjectsHeld
    <2> QED BY <1>6, <2>1 DEF ObjectsHeld
  <1>13. ASSUME NEW x \in Objects!Segments
         PROVE  /\ IsFiniteSet(MappingsOf(object', x))
                /\ header'[x].session = sessionId => header'[x].counter = Cardinality(MappingsOf(object', x))
    <2>1. CASE x = s
      BY <1>5, <1>7, <2>1
    <2>2. CASE x # s
      <3>1. x # 0
        BY DEF Objects!Segments
      <3>2. MappingsOf(object', x) = MappingsOf(object, x) /\ header'[x] = header[x]
        BY <1>3, <1>7, <2>2, <3>1
      <3> QED BY <3>2 DEF ObjectsInv, ObjectsCounted
    <2> QED BY <2>1, <2>2
  <1>14. ObjectsCounted'
    BY <1>6, <1>13 DEF ObjectsCounted
  <1> QED BY <1>9, <1>11, <1>12, <1>14 DEF ObjectsInv

(* A forked process counts itself once with every segment it maps.                *)
LEMMA ObjectsFork ==
  ASSUME Assumptions, ObjectsInv, NEW p \in Processes, NEW c \in Processes, Objects!reallocateAllObjects(p, c)
  PROVE  ObjectsInv'
  <1>1. /\ process[p] = "alive" /\ process[c] = "none" /\ p # c
        /\ process' = [process EXCEPT ![c] = "init"]
        /\ object' = [object EXCEPT ![c] = object[p]]
        /\ handle' = [handle EXCEPT ![c] = handle[p]]
        /\ UNCHANGED <<created, file, sessionId>>
    BY DEF Objects!reallocateAllObjects
  <1>2. \A n \in Names : object[c][n] = 0
    BY <1>1 DEF ObjectsInv, ObjectsHeld
  <1>3. /\ \A q \in Processes, m \in Names : object'[q][m] = IF q = c THEN object[p][m] ELSE object[q][m]
        /\ \A q \in Processes, m \in Names : handle'[q][m] = IF q = c THEN handle[p][m] ELSE handle[q][m]
        /\ \A q \in Processes : process'[q] = IF q = c THEN "init" ELSE process[q]
    BY <1>1 DEF ObjectsInv, ObjectsType
  <1>4. \A s \in Objects!Segments : s \in Objects!On(p) => header[s].session = sessionId
    BY DEF Objects!On, ObjectsInv, ObjectsHeld
  <1>5. \A s \in Objects!Segments :
           header'[s] = IF s \in Objects!On(p) THEN [header[s] EXCEPT !.counter = header[s].counter + 1] ELSE header[s]
    BY <1>4 DEF Objects!reallocateAllObjects
  <1>6. DOMAIN header' = Objects!Segments /\ header' = [s \in Objects!Segments |-> header'[s]]
    BY DEF Objects!reallocateAllObjects
  <1>7. ASSUME NEW s \in Objects!Segments
        PROVE  /\ header'[s] \in [magic : BOOLEAN, counter : Nat, session : 0 .. sessionId]
               /\ header'[s].session = header[s].session
               /\ header'[s].counter = IF s \in Objects!On(p) THEN header[s].counter + 1 ELSE header[s].counter
    <2>1. header[s] \in [magic : BOOLEAN, counter : Nat, session : 0 .. sessionId]
      BY DEF ObjectsInv, ObjectsType
    <2>2. CASE s \in Objects!On(p)
      <3>1. header'[s] = [header[s] EXCEPT !.counter = header[s].counter + 1] /\ header[s].counter + 1 \in Nat
        BY <1>5, <2>1, <2>2
      <3> QED BY <2>1, <2>2, <3>1
    <2>3. CASE s \notin Objects!On(p)
      BY <1>5, <2>1, <2>3
    <2> QED BY <2>2, <2>3
  <1>8. ObjectsType'
    <2>1. header' \in [Objects!Segments -> [magic : BOOLEAN, counter : Nat, session : 0 .. sessionId]]
      BY <1>6, <1>7
    <2>2. /\ handle' \in [Processes -> [Names -> 0 .. created]]
          /\ object' \in [Processes -> [Names -> 0 .. created]]
          /\ process' \in [Processes -> {"none", "alive", "init"}]
      BY <1>1 DEF ObjectsInv, ObjectsType
    <2> QED BY <1>1, <2>1, <2>2 DEF ObjectsInv, ObjectsType
  <1>9. OneName'
    <2>1. \A m \in Names : Used(m)' \subseteq Used(m)
      BY <1>1, <1>3 DEF Used
    <2> QED BY <2>1 DEF ObjectsInv, OneName
  <1>10. ObjectsHeld'
    <2>1. ASSUME NEW q \in Processes, NEW m \in Names, object'[q][m] # 0
          PROVE  process'[q] # "none" /\ handle'[q][m] = object'[q][m] /\ header'[object'[q][m]].session = sessionId
      <3>1. CASE q = c
        BY <1>1, <1>3, <1>7, <2>1, <3>1, ObjectsFacts DEF ObjectsInv, ObjectsHeld
      <3>2. CASE q # c
        BY <1>1, <1>3, <1>7, <2>1, <3>2, ObjectsFacts DEF ObjectsInv, ObjectsHeld
      <3> QED BY <3>1, <3>2
    <2> QED BY <1>1, <2>1 DEF ObjectsHeld
  <1>11. ASSUME NEW x \in Objects!Segments
         PROVE  /\ IsFiniteSet(MappingsOf(object', x))
                /\ header'[x].session = sessionId => header'[x].counter = Cardinality(MappingsOf(object', x))
    <2>1. IsFiniteSet(MappingsOf(object, x)) /\ (header[x].session = sessionId => header[x].counter = Cardinality(MappingsOf(object, x)))
      BY DEF ObjectsInv, ObjectsCounted
    <2>2. CASE x \in Objects!On(p)
      <3>1. PICK n \in Names : /\ MappingsOf(object', x) = MappingsOf(object, x) \cup {<<c, n>>}
                               /\ <<c, n>> \notin MappingsOf(object, x)
        BY <1>1, <1>2, <2>2, MappingsCopied
      <3>2. /\ IsFiniteSet(MappingsOf(object, x) \cup {<<c, n>>})
            /\ Cardinality(MappingsOf(object, x) \cup {<<c, n>>}) = Cardinality(MappingsOf(object, x)) + 1
        BY <2>1, <3>1, FS_AddElement
      <3> QED BY <1>7, <2>1, <2>2, <3>1, <3>2
    <2>3. CASE x \notin Objects!On(p)
      <3>1. MappingsOf(object', x) = MappingsOf(object, x)
        BY <1>1, <1>2, <2>3, MappingsCopied
      <3> QED BY <1>7, <2>1, <2>3, <3>1
    <2> QED BY <2>2, <2>3
  <1>12. ObjectsCounted'
    BY <1>1, <1>11 DEF ObjectsCounted
  <1> QED BY <1>8, <1>9, <1>10, <1>12 DEF ObjectsInv

(* A process counts itself out of every segment before it loses its memory.       *)
LEMMA ObjectsLost ==
  ASSUME Assumptions, ObjectsInv, NEW p \in Processes, Objects!Lost(p),
         process' \in [Processes -> {"none", "alive", "init"}], \A q \in Processes : q # p => process'[q] = process[q],
         handle' = handle \/ handle' = [handle EXCEPT ![p] = [n \in Names |-> 0]],
         UNCHANGED <<created, file, sessionId>>
  PROVE  ObjectsInv'
  <1>1. object' = [object EXCEPT ![p] = [n \in Names |-> 0]]
    BY DEF Objects!Lost
  <1>2. \A s \in Objects!Segments :
           header'[s] = IF s \in Objects!On(p) THEN [header[s] EXCEPT !.counter = header[s].counter - 1] ELSE header[s]
    BY DEF Objects!Lost
  <1>3. DOMAIN header' = Objects!Segments /\ header' = [s \in Objects!Segments |-> header'[s]]
    BY DEF Objects!Lost
  <1>4. /\ \A q \in Processes, m \in Names : object'[q][m] = IF q = p THEN 0 ELSE object[q][m]
        /\ \A q \in Processes, m \in Names : q # p => handle'[q][m] = handle[q][m]
        /\ \A q \in Processes, m \in Names : handle'[q][m] \in {handle[q][m], 0}
    <2>1. \A q \in Processes, m \in Names : object'[q][m] = IF q = p THEN 0 ELSE object[q][m]
      BY <1>1 DEF ObjectsInv, ObjectsType
    <2>2. CASE handle' = handle
      BY <2>1, <2>2
    <2>3. CASE handle' = [handle EXCEPT ![p] = [n \in Names |-> 0]]
      BY <2>1, <2>3 DEF ObjectsInv, ObjectsType
    <2> QED BY <2>2, <2>3
  <1>5. ASSUME NEW x \in Objects!Segments
        PROVE  /\ IsFiniteSet(MappingsOf(object', x))
               /\ header'[x] \in [magic : BOOLEAN, counter : Nat, session : 0 .. sessionId]
               /\ header'[x].session = header[x].session
               /\ header'[x].session = sessionId => header'[x].counter = Cardinality(MappingsOf(object', x))
    <2>1. /\ IsFiniteSet(MappingsOf(object, x))
          /\ header[x].session = sessionId => header[x].counter = Cardinality(MappingsOf(object, x))
          /\ header[x] \in [magic : BOOLEAN, counter : Nat, session : 0 .. sessionId]
      BY DEF ObjectsInv, ObjectsCounted, ObjectsType
    <2>2. CASE x \in Objects!On(p)
      <3>1. PICK n \in Names : /\ MappingsOf(object', x) = MappingsOf(object, x) \ {<<p, n>>}
                               /\ <<p, n>> \in MappingsOf(object, x)
        BY <1>1, <2>2, MappingsLost
      <3>2. /\ IsFiniteSet(MappingsOf(object, x) \ {<<p, n>>})
            /\ Cardinality(MappingsOf(object, x) \ {<<p, n>>}) = Cardinality(MappingsOf(object, x)) - 1
        BY <2>1, <3>1, FS_RemoveElement
      <3>3. Cardinality(MappingsOf(object', x)) \in Nat
        BY <3>1, <3>2, FS_CardinalityType
      <3>4. header[x].session = sessionId
        BY <2>2 DEF Objects!On, ObjectsInv, ObjectsHeld
      <3>5. header'[x] = [header[x] EXCEPT !.counter = header[x].counter - 1] /\ header[x].counter - 1 \in Nat
        BY <1>2, <2>1, <2>2, <3>1, <3>2, <3>3, <3>4
      <3> QED BY <2>1, <3>1, <3>2, <3>4, <3>5
    <2>3. CASE x \notin Objects!On(p)
      <3>1. MappingsOf(object', x) = MappingsOf(object, x)
        BY <1>1, <2>3, MappingsLost
      <3> QED BY <1>2, <2>1, <2>3, <3>1
    <2> QED BY <2>2, <2>3
  <1>6. ObjectsType'
    <2>0. 0 \in 0 .. created
      BY ObjectsFacts
    <2>1. header' \in [Objects!Segments -> [magic : BOOLEAN, counter : Nat, session : 0 .. sessionId]]
      BY <1>3, <1>5
    <2>2. handle' \in [Processes -> [Names -> 0 .. created]]
      <3>1. handle \in [Processes -> [Names -> 0 .. created]] /\ [n \in Names |-> 0] \in [Names -> 0 .. created]
        BY <2>0 DEF ObjectsInv, ObjectsType
      <3>2. [handle EXCEPT ![p] = [n \in Names |-> 0]] \in [Processes -> [Names -> 0 .. created]]
        BY <3>1
      <3> QED BY <3>1, <3>2
    <2>3. object' \in [Processes -> [Names -> 0 .. created]]
      BY <1>1, <2>0 DEF ObjectsInv, ObjectsType
    <2> QED BY <2>1, <2>2, <2>3 DEF ObjectsInv, ObjectsType
  <1>7. OneName'
    <2>1. \A m \in Names : Used(m)' \subseteq Used(m) \cup {0}
      BY <1>4 DEF Used
    <2> QED BY <2>1 DEF ObjectsInv, OneName
  <1>8. ObjectsHeld'
    <2>1. ASSUME NEW q \in Processes, NEW m \in Names, object'[q][m] # 0
          PROVE  process'[q] # "none" /\ handle'[q][m] = object'[q][m] /\ header'[object'[q][m]].session = sessionId
      BY <1>4, <1>5, <2>1, ObjectsFacts DEF ObjectsInv, ObjectsHeld
    <2> QED BY <2>1 DEF ObjectsHeld
  <1>9. ObjectsCounted'
    BY <1>5 DEF ObjectsCounted
  <1> QED BY <1>6, <1>7, <1>8, <1>9 DEF ObjectsInv

(* The one process that is left moves what it maps to the new session.            *)
LEMMA ObjectsFlush ==
  ASSUME Assumptions, ObjectsInv, NEW p \in Processes, Objects!flushSession(p)
  PROVE  ObjectsInv'
  <1>1. /\ \A q \in Processes \ {p} : process[q] = "none"
        /\ sessionId' = sessionId + 1 /\ UNCHANGED <<created, file, handle, object, process>>
    BY DEF Objects!flushSession
  <1>2. \A s \in Objects!Segments :
           header'[s] = IF s \in Objects!On(p)
                        THEN [header[s] EXCEPT !.counter = 1, !.session = sessionId + 1] ELSE header[s]
    BY DEF Objects!flushSession
  <1>3. DOMAIN header' = Objects!Segments /\ header' = [s \in Objects!Segments |-> header'[s]]
    BY DEF Objects!flushSession
  <1>4. \A q \in Processes, m \in Names : object[q][m] # 0 => q = p
    BY <1>1 DEF ObjectsInv, ObjectsHeld
  <1>5. sessionId \in Nat \ {0} /\ sessionId + 1 \in Nat \ {0} /\ 0 .. sessionId \subseteq 0 .. sessionId + 1
        /\ sessionId + 1 \notin 0 .. sessionId /\ sessionId + 1 \in 0 .. sessionId + 1
    BY ObjectsFacts
  <1>6. ASSUME NEW x \in Objects!Segments
        PROVE  /\ header'[x] \in [magic : BOOLEAN, counter : Nat, session : 0 .. sessionId + 1]
               /\ header'[x].session = sessionId + 1 => x \in Objects!On(p) /\ header'[x].counter = 1
               /\ x \in Objects!On(p) => header'[x].session = sessionId + 1
    <2>1. header[x] \in [magic : BOOLEAN, counter : Nat, session : 0 .. sessionId]
      BY DEF ObjectsInv, ObjectsType
    <2>2. CASE x \in Objects!On(p)
      <3>1. header'[x] = [header[x] EXCEPT !.counter = 1, !.session = sessionId + 1]
        BY <1>2, <2>2
      <3>2. header'[x] \in [magic : BOOLEAN, counter : Nat, session : 0 .. sessionId + 1]
        <4>1. PICK r : r = header[x] /\ r \in [magic : BOOLEAN, counter : Nat, session : 0 .. sessionId]
          BY <2>1
        <4>2. PICK k, K : k = sessionId + 1 /\ K = 0 .. sessionId + 1 /\ k \in K
          BY <1>5
        <4>3. [r EXCEPT !.counter = 1, !.session = k] \in [magic : BOOLEAN, counter : Nat, session : K]
          BY <4>1, <4>2
        <4> QED BY <3>1, <4>1, <4>2, <4>3
      <3>3. header'[x].counter = 1 /\ header'[x].session = sessionId + 1
        BY <2>1, <3>1
      <3> QED BY <2>2, <3>2, <3>3, Zenon
    <2>3. CASE x \notin Objects!On(p)
      <3>1. header'[x] = header[x]
        BY <1>2, <2>3
      <3>2. header[x].session # sessionId + 1 /\ header[x].session \in 0 .. sessionId + 1
        BY <1>5, <2>1
      <3> QED BY <2>1, <2>3, <3>1, <3>2
    <2> QED BY <2>2, <2>3
  <1>7. ObjectsType'
    <2>1. header' \in [Objects!Segments -> [magic : BOOLEAN, counter : Nat, session : 0 .. sessionId + 1]]
      BY <1>3, <1>6
    <2> QED BY <1>1, <1>5, <2>1 DEF ObjectsInv, ObjectsType
  <1>8. OneName'
    BY <1>1 DEF ObjectsInv, OneName, Used
  <1>9. ObjectsHeld'
    <2>1. ASSUME NEW q \in Processes, NEW m \in Names, object[q][m] # 0
          PROVE  header'[object[q][m]].session = sessionId + 1
      <3>1. object[q][m] \in Objects!On(p) /\ object[q][m] \in Objects!Segments
        BY <1>4, <2>1, ObjectsFacts DEF Objects!On
      <3> QED BY <1>6, <3>1
    <2> QED BY <1>1, <2>1 DEF ObjectsInv, ObjectsHeld
  <1>10. ASSUME NEW x \in Objects!Segments, header'[x].session = sessionId + 1
         PROVE  header'[x].counter = Cardinality(MappingsOf(object, x))
    <2>1. PICK n \in Names : object[p][n] = x /\ x # 0
      BY <1>6, <1>10 DEF Objects!On
    <2>2. \A m \in Names : object[p][m] = x <=> m = n
      BY <2>1, ObjectsFacts
    <2>3. MappingsOf(object, x) = {<<p, n>>}
      BY <1>4, <2>1, <2>2 DEF MappingsOf
    <2>4. Cardinality({<<p, n>>}) = 1
      BY FS_Singleton
    <2> QED BY <1>6, <1>10, <2>3, <2>4
  <1>11. ObjectsCounted'
    BY <1>1, <1>10 DEF ObjectsInv, ObjectsCounted
  <1> QED BY <1>7, <1>8, <1>9, <1>11 DEF ObjectsInv

LEMMA ObjectsStep ==
  ASSUME Assumptions, ObjectsInv, Objects!Next \/ UNCHANGED objectVars
  PROVE  ObjectsInv'
  <1>1. CASE UNCHANGED objectVars
    <2>1. UNCHANGED <<created, file, header, handle, object, process, sessionId>>
      BY <1>1 DEF objectVars
    <2>2. ObjectsType'
      BY <2>1 DEF ObjectsInv, ObjectsType
    <2>3. OneName'
      BY <2>1 DEF ObjectsInv, OneName, Used
    <2>4. ObjectsHeld'
      BY <2>1 DEF ObjectsInv, ObjectsHeld
    <2>5. ObjectsCounted'
      BY <2>1 DEF ObjectsInv, ObjectsCounted, MappingsOf
    <2> QED BY <2>2, <2>3, <2>4, <2>5 DEF ObjectsInv
  <1>2. CASE Objects!Next
    <2>1. PICK p \in Processes :
             \/ \E n \in Names : \/ Objects!InitializeMaster(p, n) \/ Objects!InitializeSlave(p, n)
                                 \/ Objects!Deinitialize(p, n)
             \/ \E c \in Processes : Objects!reallocateAllObjects(p, c)
             \/ Objects!deallocateAllObjects(p) \/ Objects!flushSession(p) \/ Objects!executeFile(p)
      BY <1>2 DEF Objects!Next
    <2>2. CASE Objects!deallocateAllObjects(p) \/ Objects!executeFile(p)
      <3>1. /\ Objects!Lost(p) /\ UNCHANGED <<created, file, sessionId>>
            /\ handle' = handle \/ handle' = [handle EXCEPT ![p] = [n \in Names |-> 0]]
            /\ process' = [process EXCEPT ![p] = "none"] \/ process' = [process EXCEPT ![p] = "alive"]
        BY <2>2 DEF Objects!deallocateAllObjects, Objects!executeFile
      <3>2. /\ process' \in [Processes -> {"none", "alive", "init"}]
            /\ \A q \in Processes : q # p => process'[q] = process[q]
        BY <3>1 DEF ObjectsInv, ObjectsType
      <3> QED BY <3>1, <3>2, ObjectsLost
    <2> QED BY <2>1, <2>2, ObjectsMaster, ObjectsSlave, ObjectsDeinitialize, ObjectsFork, ObjectsFlush
  <1> QED BY <1>1, <1>2

(* Through forks, exits, refused slaves, new sessions and names created again,    *)
(* the counter of a segment of this session is the number of objects mapped to it *)
(* (SharedMemory::initialize and deinitialize, AllocatorManager).                 *)
THEOREM CounterStaysExact == Spec => []CounterIsExact
  <1>1. Init => ObjectsInv
    BY ObjectsInit, Assumptions DEF Init
  <1>2. ObjectsInv /\ [Next]_vars => ObjectsInv'
    <2>1. [Next]_vars => Objects!Next \/ UNCHANGED objectVars
      BY DEF Next, vars
    <2> QED BY <2>1, ObjectsStep, Assumptions
  <1>3. ObjectsInv => CounterIsExact
    <2>1. \A s \in Objects!Segments : Objects!Mapped(s) = Cardinality(MappingsOf(object, s))
      BY DEF Objects!Mapped, MappingsOf, Cardinality, Objects!Cardinality
    <2> QED BY <2>1 DEF ObjectsInv, ObjectsCounted, CounterIsExact, Objects!CounterIsExact
  <1> QED BY <1>1, <1>2, <1>3, PTL DEF Spec

--------------------------------------------------------------------------------
(* VcTables: processes of one entry meet.                                         *)
(*                                                                                *)
(* As long as no id is used again there is one segment of each id, and whatever   *)
(* leads a process to a segment (its object of a slot, what it has open, what the *)
(* name denotes) leads it to the one of that id.  A session is drawn with an id,  *)
(* so that an object of the session of the entry is one of its id.                *)
Stages == [at : {"idle"}] \cup [at : {"create", "replace"}, c : Tables!Configuration]
SegmentRecord == [id : Ids, users : Int, size : Nat]

TablesType ==
    /\ sessions \in Nat
    /\ index \in [Slots -> [id : Ids, session : 1 .. sessions] \cup {Unused}]
    /\ vc \in [Users -> [Slots -> [id : Ids, session : 1 .. sessions, segment : Nat] \cup {Unused}]]
    /\ opened \in [Users -> [Ids -> Nat]] /\ named \in [Ids -> Nat]
    /\ assuring \in [Users -> Stages]
    /\ \E n \in Nat : segment \in [1 .. n -> SegmentRecord]

IsOf(g, s, i) == s \in DOMAIN g /\ g[s].id = i

SegmentsNamed ==
    /\ \A s, t \in DOMAIN segment : segment[s].id = segment[t].id => s = t
    /\ \A p \in Users, k \in Slots : vc[p][k] # Unused => IsOf(segment, vc[p][k].segment, vc[p][k].id)
    /\ \A p \in Users, i \in Ids : opened[p][i] # 0 => IsOf(segment, opened[p][i], i)
    /\ \A i \in Ids : named[i] # 0 => IsOf(segment, named[i], i)

SessionsAgree ==
    \A p \in Users, k \in Slots :
        index[k] # Unused /\ Tables!Current(p, k) => vc[p][k].id = index[k].id

TablesInv == TablesType /\ SegmentsNamed /\ SessionsAgree

LEMMA MinIs ==
  ASSUME NEW S \in SUBSET Nat, S # {}
  PROVE  Tables!Min(S) \in S
  <1>1. \E x \in S : \A y \in S : x <= y
    <2>1. IsWellFoundedOn(OpToRel(<, Nat), Nat)
      BY NatLessThanWellFounded
    <2>2. PICK x \in S : \A y \in S : ~ (<<y, x>> \in OpToRel(<, Nat))
      BY <2>1, WFMin
    <2>3. \A y \in S : ~ (y < x)
      BY <2>2 DEF OpToRel
    <2> QED BY <2>3
  <1> QED BY <1>1 DEF Tables!Min

LEMMA TablesInit == Tables!VcTablesAssumption /\ Tables!Init => TablesInv
  <1> SUFFICES ASSUME Tables!Init PROVE TablesInv
    OBVIOUS
  <1>1. segment = <<>> /\ <<>> \in [1 .. 0 -> SegmentRecord] /\ DOMAIN segment = {}
    BY DEF Tables!Init
  <1>2. TablesType
    <2>1. [at |-> "idle"] \in Stages
      BY DEF Stages
    <2> QED BY <1>1, <2>1 DEF Tables!Init, TablesType
  <1>3. SegmentsNamed
    BY <1>1 DEF Tables!Init, SegmentsNamed
  <1>4. SessionsAgree
    BY DEF Tables!Init, SessionsAgree, Tables!Current
  <1> QED BY <1>2, <1>3, <1>4 DEF TablesInv

(* A process that lets its object of a slot go changes no id of a segment and     *)
(* opens and names nothing.                                                       *)
LEMMA LeftKeeps ==
  ASSUME TablesInv, NEW p, NEW k, NEW n \in Nat, segment \in [1 .. n -> SegmentRecord]
  PROVE  /\ Tables!Left(p, k).segment \in [1 .. n -> SegmentRecord]
         /\ \A s \in 1 .. n : Tables!Left(p, k).segment[s].id = segment[s].id
         /\ Tables!Left(p, k).named \in [Ids -> Nat]
         /\ \A i \in Ids : Tables!Left(p, k).named[i] \in {named[i], 0}
         /\ Tables!Left(p, k).opened \in [Users -> [Ids -> Nat]]
         /\ \A q \in Users, i \in Ids : Tables!Left(p, k).opened[q][i] \in {opened[q][i], 0}
  <1>0. named \in [Ids -> Nat] /\ opened \in [Users -> [Ids -> Nat]]
    BY DEF TablesInv, TablesType
  <1>1. PICK o : o = vc[p][k]
    OBVIOUS
  <1>2. CASE o = Unused
    <2>1. Tables!Left(p, k) = [segment |-> segment, named |-> named, opened |-> opened]
      BY <1>1, <1>2 DEF Tables!Left
    <2> QED BY <1>0, <2>1
  <1>3. CASE o # Unused
    <2>1. /\ Tables!Left(p, k).segment = [segment EXCEPT ![o.segment].users = segment[o.segment].users - 1]
          /\ Tables!Left(p, k).named \in {named, [named EXCEPT ![o.id] = 0]}
          /\ Tables!Left(p, k).opened \in {opened, [opened EXCEPT ![p][o.id] = 0]}
      BY <1>1, <1>3 DEF Tables!Left
    <2>2. PICK G, N, O : /\ G = Tables!Left(p, k).segment /\ N = Tables!Left(p, k).named
                         /\ O = Tables!Left(p, k).opened
      OBVIOUS
    <2>3. N \in [Ids -> Nat] /\ \A i \in Ids : N[i] \in {named[i], 0}
      <3>1. /\ [named EXCEPT ![o.id] = 0] \in [Ids -> Nat]
            /\ \A i \in Ids : [named EXCEPT ![o.id] = 0][i] \in {named[i], 0}
        BY <1>0
      <3> QED BY <1>0, <2>1, <2>2, <3>1
    <2>4. O \in [Users -> [Ids -> Nat]] /\ \A q \in Users, i \in Ids : O[q][i] \in {opened[q][i], 0}
      <3>1. [opened EXCEPT ![p][o.id] = 0] \in [Users -> [Ids -> Nat]]
        BY <1>0
      <3>2. \A q \in Users, i \in Ids : [opened EXCEPT ![p][o.id] = 0][q][i] \in {opened[q][i], 0}
        BY <1>0
      <3> QED BY <1>0, <2>1, <2>2, <3>1, <3>2
    <2>5. G \in [1 .. n -> SegmentRecord] /\ \A s \in 1 .. n : G[s].id = segment[s].id
      <3>1. ASSUME NEW s \in 1 .. n PROVE G[s] \in SegmentRecord /\ G[s].id = segment[s].id
        <4>1. segment[s] \in SegmentRecord /\ segment[s].users - 1 \in Int
          BY DEF SegmentRecord
        <4>2. G[s] = segment[s] \/ G[s] = [segment[s] EXCEPT !.users = segment[s].users - 1]
          BY <2>1, <2>2
        <4> QED BY <4>1, <4>2 DEF SegmentRecord
      <3>2. DOMAIN G = 1 .. n /\ G = [s \in 1 .. n |-> G[s]]
        BY <2>1, <2>2
      <3> QED BY <3>1, <3>2
    <2> QED BY <2>2, <2>3, <2>4, <2>5
  <1> QED BY <1>2, <1>3

LEMMA TablesDeinitialize ==
  ASSUME TablesInv, NEW p \in Users, NEW k, Tables!deinitialize(p, k), sessions' = sessions,
         index' = index \/ index' = [index EXCEPT ![k] = Unused],
         assuring' \in [Users -> Stages]
  PROVE  TablesInv'
  <1>1. PICK n \in Nat : segment \in [1 .. n -> SegmentRecord]
    BY DEF TablesInv, TablesType
  <1>2. /\ segment' \in [1 .. n -> SegmentRecord]
        /\ \A s \in 1 .. n : segment'[s].id = segment[s].id
        /\ named' \in [Ids -> Nat]
        /\ \A i \in Ids : named'[i] \in {named[i], 0}
        /\ opened' \in [Users -> [Ids -> Nat]]
        /\ \A q \in Users, i \in Ids : opened'[q][i] \in {opened[q][i], 0}
    BY <1>1, LeftKeeps DEF Tables!deinitialize
  <1>3. vc' = [vc EXCEPT ![p][k] = Unused]
    BY DEF Tables!deinitialize
  <1>4. /\ \A q \in Users, j \in Slots : vc'[q][j] \in {vc[q][j], Unused}
        /\ \A j \in Slots : index'[j] \in {index[j], Unused}
    BY <1>3 DEF TablesInv, TablesType
  <1>5. TablesType'
    <2>1. /\ vc' \in [Users -> [Slots -> [id : Ids, session : 1 .. sessions, segment : Nat] \cup {Unused}]]
          /\ index' \in [Slots -> [id : Ids, session : 1 .. sessions] \cup {Unused}]
      BY <1>3 DEF TablesInv, TablesType
    <2> QED BY <1>1, <1>2, <2>1 DEF TablesInv, TablesType
  <1>6. SegmentsNamed'
    <2>1. \A s, t \in 1 .. n : segment'[s].id = segment'[t].id => s = t
      BY <1>1, <1>2 DEF TablesInv, SegmentsNamed
    <2>2. \A s, i : IsOf(segment, s, i) => IsOf(segment', s, i)
      BY <1>1, <1>2 DEF IsOf
    <2>3. \A q \in Users, j \in Slots : vc'[q][j] # Unused => IsOf(segment', vc'[q][j].segment, vc'[q][j].id)
      BY <1>4, <2>2 DEF TablesInv, SegmentsNamed
    <2>4. \A q \in Users, i \in Ids : opened'[q][i] # 0 => IsOf(segment', opened'[q][i], i)
      BY <1>2, <2>2 DEF TablesInv, SegmentsNamed
    <2>5. \A i \in Ids : named'[i] # 0 => IsOf(segment', named'[i], i)
      BY <1>2, <2>2 DEF TablesInv, SegmentsNamed
    <2>6. DOMAIN segment' = 1 .. n
      BY <1>2
    <2> QED BY <2>1, <2>3, <2>4, <2>5, <2>6 DEF SegmentsNamed
  <1>7. SessionsAgree'
    BY <1>4 DEF TablesInv, SessionsAgree, Tables!Current
  <1> QED BY <1>5, <1>6, <1>7 DEF TablesInv

LEMMA TablesSlave ==
  ASSUME TablesInv, NEW p \in Users, NEW k \in Slots, index[k] # Unused, Tables!initializeSlave(p, k),
         UNCHANGED <<index, sessions>>,
         assuring' \in [Users -> Stages]
  PROVE  TablesInv'
  <1>1. PICK n \in Nat : segment \in [1 .. n -> SegmentRecord]
    BY DEF TablesInv, TablesType
  <1>2. PICK G, N, O : /\ G = Tables!Left(p, k).segment /\ N = Tables!Left(p, k).named
                       /\ O = Tables!Left(p, k).opened
    OBVIOUS
  <1>3. /\ G \in [1 .. n -> SegmentRecord] /\ N \in [Ids -> Nat] /\ O \in [Users -> [Ids -> Nat]]
        /\ \A s \in 1 .. n : G[s].id = segment[s].id
        /\ \A i \in Ids : N[i] \in {named[i], 0}
        /\ \A q \in Users, i \in Ids : O[q][i] \in {opened[q][i], 0}
    BY <1>1, <1>2, LeftKeeps
  <1>4. PICK i \in Ids, e \in 1 .. sessions, s \in {Tables!Found(p, k, index[k].id)} :
             i = index[k].id /\ e = index[k].session /\ s = Tables!Found(p, k, i)
    BY DEF TablesInv, TablesType
  <1>5. s \in Nat /\ s \in 1 .. n /\ segment[s].id = i
    <2>1. s # 0 /\ (s = O[p][i] \/ s = N[i])
      BY <1>2, <1>4 DEF Tables!initializeSlave, Tables!Attachable, Tables!Found
    <2>2. s = opened[p][i] \/ s = named[i]
      BY <1>3, <2>1
    <2>3. IsOf(segment, s, i)
      BY <2>1, <2>2 DEF TablesInv, SegmentsNamed
    <2> QED BY <1>1, <2>3 DEF IsOf
  <1>6. /\ segment' = [G EXCEPT ![s].users = G[s].users + 1]
        /\ named' = N
        /\ opened' = [O EXCEPT ![p][i] = s]
        /\ vc' = [vc EXCEPT ![p][k] = [id |-> i, session |-> e, segment |-> s]]
    BY <1>2, <1>4 DEF Tables!initializeSlave
  <1>7. segment' \in [1 .. n -> SegmentRecord] /\ \A t \in 1 .. n : segment'[t].id = segment[t].id
    <2>1. G[s] \in SegmentRecord
      BY <1>3, <1>5
    <2>2. [G[s] EXCEPT !.users = G[s].users + 1] \in SegmentRecord /\ [G[s] EXCEPT !.users = G[s].users + 1].id = G[s].id
      BY <2>1 DEF SegmentRecord
    <2> QED BY <1>3, <1>5, <1>6, <2>2
  <1>8. \A q \in Users, j \in Ids : opened'[q][j] = IF q = p /\ j = i THEN s ELSE O[q][j]
    BY <1>3, <1>6
  <1>9. \A q \in Users, j \in Slots :
           vc'[q][j] = IF q = p /\ j = k THEN [id |-> i, session |-> e, segment |-> s] ELSE vc[q][j]
    BY <1>6 DEF TablesInv, TablesType
  <1>10. TablesType'
    <2>1. [id |-> i, session |-> e, segment |-> s] \in [id : Ids, session : 1 .. sessions, segment : Nat]
      BY <1>4, <1>5
    <2>2. vc' \in [Users -> [Slots -> [id : Ids, session : 1 .. sessions, segment : Nat] \cup {Unused}]]
      BY <1>6, <2>1 DEF TablesInv, TablesType
    <2>3. opened' \in [Users -> [Ids -> Nat]]
      BY <1>3, <1>5, <1>6
    <2> QED BY <1>1, <1>3, <1>6, <1>7, <2>2, <2>3 DEF TablesInv, TablesType
  <1>11. SegmentsNamed'
    <2>1. \A t, u \in 1 .. n : segment'[t].id = segment'[u].id => t = u
      BY <1>1, <1>7 DEF TablesInv, SegmentsNamed
    <2>2. \A t, j : IsOf(segment, t, j) => IsOf(segment', t, j)
      BY <1>1, <1>7 DEF IsOf
    <2>3. IsOf(segment', s, i)
      BY <1>5, <1>7 DEF IsOf
    <2>4. ASSUME NEW q \in Users, NEW j \in Slots, vc'[q][j] # Unused
          PROVE  IsOf(segment', vc'[q][j].segment, vc'[q][j].id)
      <3>1. CASE q = p /\ j = k
        BY <1>9, <2>3, <3>1
      <3>2. CASE ~ (q = p /\ j = k)
        BY <1>9, <2>2, <2>4, <3>2 DEF TablesInv, SegmentsNamed
      <3> QED BY <3>1, <3>2
    <2>5. ASSUME NEW q \in Users, NEW j \in Ids, opened'[q][j] # 0 PROVE IsOf(segment', opened'[q][j], j)
      <3>1. CASE q = p /\ j = i
        BY <1>8, <2>3, <3>1
      <3>2. CASE ~ (q = p /\ j = i)
        <4>1. opened'[q][j] = opened[q][j]
          BY <1>3, <1>8, <2>5, <3>2
        <4> QED BY <2>2, <2>5, <4>1 DEF TablesInv, SegmentsNamed
      <3> QED BY <3>1, <3>2
    <2>6. ASSUME NEW j \in Ids, named'[j] # 0 PROVE IsOf(segment', named'[j], j)
      BY <1>3, <1>6, <2>2, <2>6 DEF TablesInv, SegmentsNamed
    <2>7. DOMAIN segment' = 1 .. n
      BY <1>7
    <2> QED BY <2>1, <2>4, <2>5, <2>6, <2>7 DEF SegmentsNamed
  <1>12. SessionsAgree'
    <2>1. ASSUME NEW q \in Users, NEW j \in Slots, index[j] # Unused, vc'[q][j] # Unused,
                 vc'[q][j].session = index[j].session
          PROVE  vc'[q][j].id = index[j].id
      <3>1. CASE q = p /\ j = k
        BY <1>4, <1>9, <3>1
      <3>2. CASE ~ (q = p /\ j = k)
        BY <1>9, <2>1, <3>2 DEF TablesInv, SessionsAgree, Tables!Current
      <3> QED BY <3>1, <3>2
    <2> QED BY <2>1 DEF SessionsAgree, Tables!Current
  <1> QED BY <1>10, <1>11, <1>12 DEF TablesInv

(* A vc is created under an id that names no segment yet, in a segment of its own.  *)
LEMMA TablesCreate ==
  ASSUME Tables!VcTablesAssumption, TablesInv, NEW p \in Users, NEW i \in Ids, NEW size \in Sizes,
         Tables!createVirtualChannel(p, i, size),
         assuring' \in [Users -> Stages]
  PROVE  TablesInv'
  <1>1. PICK n \in Nat : segment \in [1 .. n -> SegmentRecord]
    BY DEF TablesInv, TablesType
  <1>2. PICK k \in Slots : k = Tables!Min(Tables!FreeSlots)
    <2>1. Tables!FreeSlots \subseteq Slots /\ Slots \subseteq Nat /\ Tables!FreeSlots # {}
      BY DEF Tables!VcTablesAssumption, Tables!FreeSlots, Tables!createVirtualChannel
    <2>2. Tables!Min(Tables!FreeSlots) \in Tables!FreeSlots
      BY <2>1, MinIs
    <2> QED BY <2>1, <2>2
  <1>3. PICK G, N, O : /\ G = Tables!Left(p, k).segment /\ N = Tables!Left(p, k).named
                       /\ O = Tables!Left(p, k).opened
    OBVIOUS
  <1>4. /\ G \in [1 .. n -> SegmentRecord] /\ N \in [Ids -> Nat] /\ O \in [Users -> [Ids -> Nat]]
        /\ \A s \in 1 .. n : G[s].id = segment[s].id
        /\ \A j \in Ids : N[j] \in {named[j], 0}
        /\ \A q \in Users, j \in Ids : O[q][j] \in {opened[q][j], 0}
    BY <1>1, <1>3, LeftKeeps
  <1>5. /\ \A s \in 1 .. n : segment[s].id # i
        /\ Tables!Live = 1 .. n
    BY <1>1 DEF Tables!createVirtualChannel, Tables!Live
  <1>6. N[i] = 0 /\ O[p][i] = 0
    <2>1. \A s : ~ IsOf(segment, s, i)
      BY <1>1, <1>5 DEF IsOf
    <2>2. named[i] = 0 /\ opened[p][i] = 0
      BY <2>1 DEF TablesInv, SegmentsNamed
    <2> QED BY <1>4, <2>2
  <1>7. Tables!Cardinality(Tables!Live) = n
    <2>1. Cardinality(1 .. n) = n
      BY FS_Interval
    <2> QED BY <1>5, <2>1 DEF Cardinality, Tables!Cardinality
  <1>8. PICK e, G2 : /\ e = sessions + 1
                     /\ G2 = [t \in 1 .. n \cup {n + 1} |-> IF t \in 1 .. n THEN G[t]
                                                            ELSE [id |-> i, users |-> 0, size |-> 0]]
    OBVIOUS
  <1>9. /\ segment' = [G2 EXCEPT ![n + 1] = [id |-> i, users |-> G2[n + 1].users + 1, size |-> size]]
        /\ named' = [N EXCEPT ![i] = n + 1]
        /\ opened' = [O EXCEPT ![p][i] = n + 1]
        /\ sessions' = e
        /\ index' = [index EXCEPT ![k] = [id |-> i, session |-> e]]
        /\ vc' = [vc EXCEPT ![p][k] = [id |-> i, session |-> e, segment |-> n + 1]]
    BY <1>2, <1>3, <1>5, <1>6, <1>7, <1>8
    DEF Tables!createVirtualChannel, Tables!Fresh, Tables!NewSession
  <1>10. /\ sessions \in Nat /\ e \in Nat /\ e \in 1 .. e /\ e \notin 1 .. sessions /\ 1 .. sessions \subseteq 1 .. e
         /\ size \in Nat /\ n + 1 \in Nat /\ 1 .. n \cup {n + 1} = 1 .. n + 1 /\ n + 1 \notin 1 .. n /\ n + 1 # 0
    BY <1>8 DEF TablesInv, TablesType, Tables!VcTablesAssumption
  <1>11. /\ segment' \in [1 .. n + 1 -> SegmentRecord]
         /\ \A t \in 1 .. n : t \in 1 .. n + 1 /\ segment'[t].id = segment[t].id
         /\ n + 1 \in 1 .. n + 1 /\ segment'[n + 1].id = i
    <2>1. G2[n + 1] = [id |-> i, users |-> 0, size |-> 0] /\ \A t \in 1 .. n : G2[t] = G[t]
      BY <1>8, <1>10
    <2>2. /\ DOMAIN segment' = 1 .. n + 1 /\ segment' = [t \in 1 .. n + 1 |-> segment'[t]]
          /\ segment'[n + 1] = [id |-> i, users |-> 0 + 1, size |-> size]
          /\ \A t \in 1 .. n : t \in 1 .. n + 1 /\ segment'[t] = G[t]
      BY <1>8, <1>9, <1>10, <2>1
    <2>3. segment'[n + 1] \in SegmentRecord
      BY <1>10, <2>2 DEF SegmentRecord
    <2>4. \A t \in 1 .. n + 1 : segment'[t] \in SegmentRecord
      BY <1>4, <1>10, <2>2, <2>3
    <2> QED BY <1>4, <1>10, <2>2, <2>4
  <1>12. \A q \in Users, j \in Ids : opened'[q][j] = IF q = p /\ j = i THEN n + 1 ELSE O[q][j]
    BY <1>4, <1>9
  <1>13. \A q \in Users, j \in Slots :
            vc'[q][j] = IF q = p /\ j = k THEN [id |-> i, session |-> e, segment |-> n + 1] ELSE vc[q][j]
    BY <1>9 DEF TablesInv, TablesType
  <1>14. TablesType'
    <2>1. vc' \in [Users -> [Slots -> [id : Ids, session : 1 .. e, segment : Nat] \cup {Unused}]]
      <3>1. [id : Ids, session : 1 .. sessions, segment : Nat] \subseteq [id : Ids, session : 1 .. e, segment : Nat]
        BY <1>10
      <3>2. [id |-> i, session |-> e, segment |-> n + 1] \in [id : Ids, session : 1 .. e, segment : Nat]
        BY <1>10
      <3>3. vc \in [Users -> [Slots -> [id : Ids, session : 1 .. e, segment : Nat] \cup {Unused}]]
        BY <3>1 DEF TablesInv, TablesType
      <3> QED BY <1>9, <3>2, <3>3
    <2>2. index' \in [Slots -> [id : Ids, session : 1 .. e] \cup {Unused}]
      <3>1. [id : Ids, session : 1 .. sessions] \subseteq [id : Ids, session : 1 .. e]
        BY <1>10
      <3>2. [id |-> i, session |-> e] \in [id : Ids, session : 1 .. e]
        BY <1>10
      <3> QED BY <1>9, <3>1, <3>2 DEF TablesInv, TablesType
    <2>3. opened' \in [Users -> [Ids -> Nat]] /\ named' \in [Ids -> Nat]
      BY <1>4, <1>9, <1>10
    <2> QED BY <1>9, <1>10, <1>11, <2>1, <2>2, <2>3 DEF TablesType
  <1>15. SegmentsNamed'
    <2>1. \A t, u \in 1 .. n + 1 : segment'[t].id = segment'[u].id => t = u
      BY <1>1, <1>5, <1>10, <1>11 DEF TablesInv, SegmentsNamed
    <2>2. \A t, j : IsOf(segment, t, j) => IsOf(segment', t, j)
      BY <1>1, <1>11 DEF IsOf
    <2>3. IsOf(segment', n + 1, i)
      BY <1>11 DEF IsOf
    <2>4. ASSUME NEW q \in Users, NEW j \in Slots, vc'[q][j] # Unused
          PROVE  IsOf(segment', vc'[q][j].segment, vc'[q][j].id)
      <3>1. CASE q = p /\ j = k
        BY <1>13, <2>3, <3>1
      <3>2. CASE ~ (q = p /\ j = k)
        BY <1>13, <2>2, <2>4, <3>2 DEF TablesInv, SegmentsNamed
      <3> QED BY <3>1, <3>2
    <2>5. ASSUME NEW q \in Users, NEW j \in Ids, opened'[q][j] # 0 PROVE IsOf(segment', opened'[q][j], j)
      <3>1. CASE q = p /\ j = i
        BY <1>12, <2>3, <3>1
      <3>2. CASE ~ (q = p /\ j = i)
        <4>1. opened'[q][j] = opened[q][j]
          BY <1>4, <1>12, <2>5, <3>2
        <4> QED BY <2>2, <2>5, <4>1 DEF TablesInv, SegmentsNamed
      <3> QED BY <3>1, <3>2
    <2>6. ASSUME NEW j \in Ids, named'[j] # 0 PROVE IsOf(segment', named'[j], j)
      <3>1. named'[j] = IF j = i THEN n + 1 ELSE N[j]
        BY <1>4, <1>9
      <3> QED BY <1>4, <2>2, <2>3, <2>6, <3>1 DEF TablesInv, SegmentsNamed
    <2>7. DOMAIN segment' = 1 .. n + 1
      BY <1>11
    <2> QED BY <2>1, <2>4, <2>5, <2>6, <2>7 DEF SegmentsNamed
  <1>16. SessionsAgree'
    <2>1. \A j \in Slots : index'[j] = IF j = k THEN [id |-> i, session |-> e] ELSE index[j]
      BY <1>9 DEF TablesInv, TablesType
    <2>2. ASSUME NEW q \in Users, NEW j \in Slots, index'[j] # Unused, vc'[q][j] # Unused,
                 vc'[q][j].session = index'[j].session
          PROVE  vc'[q][j].id = index'[j].id
      <3>1. CASE q = p /\ j = k
        BY <1>13, <2>1, <3>1
      <3>2. CASE q # p /\ j = k
        <4>1. vc'[q][j] = vc[q][j] /\ index'[j].session = e
          BY <1>13, <2>1, <3>2
        <4>2. vc[q][j].session \in 1 .. sessions
          BY <2>2, <4>1 DEF TablesInv, TablesType
        <4> QED BY <1>10, <2>2, <4>1, <4>2
      <3>3. CASE j # k
        BY <1>13, <2>1, <2>2, <3>3 DEF TablesInv, SessionsAgree, Tables!Current
      <3> QED BY <3>1, <3>2, <3>3
    <2> QED BY <2>2 DEF SessionsAgree, Tables!Current
  <1> QED BY <1>14, <1>15, <1>16 DEF TablesInv

LEMMA TablesUnchanged ==
  ASSUME TablesInv, UNCHANGED <<index, vc, opened, named, segment, sessions>>,
         assuring' \in [Users -> Stages]
  PROVE  TablesInv'
  <1>1. TablesType'
    BY DEF TablesInv, TablesType
  <1>2. SegmentsNamed'
    BY DEF TablesInv, SegmentsNamed
  <1>3. SessionsAgree'
    BY DEF TablesInv, SessionsAgree, Tables!Current
  <1> QED BY <1>1, <1>2, <1>3 DEF TablesInv

(* Whoever looks an entry up keeps, renews or gives up his object of it.          *)
LEMMA TablesLookup ==
  ASSUME TablesInv, NEW p \in Users, NEW k \in Slots, index[k] # Unused,
         Tables!getVirtualChannel(p, k), sessions' = sessions,
         assuring' \in [Users -> Stages]
  PROVE  TablesInv'
  <1>1. CASE Tables!Current(p, k)
    BY <1>1, TablesUnchanged DEF Tables!getVirtualChannel
  <1>2. CASE ~ Tables!Current(p, k) /\ Tables!Attachable(p, k, index[k].id)
    BY <1>2, TablesSlave DEF Tables!getVirtualChannel
  <1>3. CASE ~ Tables!Current(p, k) /\ ~ Tables!Attachable(p, k, index[k].id)
    BY <1>3, TablesDeinitialize DEF Tables!getVirtualChannel
  <1> QED BY <1>1, <1>2, <1>3

LEMMA StageTyped ==
  ASSUME TablesInv, NEW p \in Users, NEW r \in Stages, Tables!Goes(p, r)
  PROVE  assuring' \in [Users -> Stages]
  BY DEF Tables!Goes, TablesInv, TablesType

LEMMA StagesAre ==
  ASSUME NEW c \in Tables!Configuration
  PROVE  /\ [at |-> "idle"] \in Stages
         /\ [at |-> "create", c |-> c] \in Stages /\ [at |-> "replace", c |-> c] \in Stages
         /\ [[at |-> "replace", c |-> c] EXCEPT !.at = "create"] \in Stages
         /\ c.id \in Ids /\ c.size \in Sizes
  BY DEF Stages, Tables!Configuration

(* assureGlobalVc(): each of its calls is one of the service calls.               *)
LEMMA TablesAssure ==
  ASSUME Tables!VcTablesAssumption, TablesInv, NEW p \in Users,
         Tables!Assure(p) \/ Tables!Replace(p) \/ Tables!AssureCreates(p)
  PROVE  TablesInv'
  <1>1. CASE Tables!Assure(p)
    <2>1. PICK c \in Tables!Configuration :
             IF Tables!getVirtualChannelIndex(c.id) = {}
             THEN Tables!Goes(p, [at |-> "create", c |-> c]) /\ Tables!TableUnchanged
             ELSE LET k == Tables!Min(Tables!getVirtualChannelIndex(c.id)) IN
                  /\ Tables!getVirtualChannel(p, k)
                  /\ UNCHANGED sessions
                  /\ Tables!Goes(p, IF index'[k] # Unused
                                       /\ Tables!isGlobalVcAdequate(segment'[vc'[p][k].segment].size, c.size)
                                    THEN [at |-> "idle"] ELSE [at |-> "replace", c |-> c])
      BY <1>1 DEF Tables!Assure
    <2>2. CASE Tables!getVirtualChannelIndex(c.id) = {}
      <3>1. Tables!Goes(p, [at |-> "create", c |-> c]) /\ Tables!TableUnchanged
        BY <2>1, <2>2
      <3> QED BY <3>1, StagesAre, StageTyped, TablesUnchanged DEF Tables!TableUnchanged
    <2>3. CASE Tables!getVirtualChannelIndex(c.id) # {}
      <3>1. PICK k \in Slots : k = Tables!Min(Tables!getVirtualChannelIndex(c.id)) /\ index[k] # Unused
        <4>1. /\ Tables!getVirtualChannelIndex(c.id) \subseteq Nat
              /\ \A k \in Tables!getVirtualChannelIndex(c.id) : k \in Slots /\ index[k] # Unused
          BY DEF Tables!VcTablesAssumption, Tables!getVirtualChannelIndex
        <4>2. Tables!Min(Tables!getVirtualChannelIndex(c.id)) \in Tables!getVirtualChannelIndex(c.id)
          BY <2>3, <4>1, MinIs
        <4> QED BY <4>1, <4>2
      <3>2. /\ Tables!getVirtualChannel(p, k) /\ sessions' = sessions
            /\ Tables!Goes(p, [at |-> "idle"]) \/ Tables!Goes(p, [at |-> "replace", c |-> c])
        BY <2>1, <2>3, <3>1
      <3>3. assuring' \in [Users -> Stages]
        BY <3>2, StagesAre, StageTyped
      <3> QED BY <3>1, <3>2, <3>3, TablesLookup
    <2> QED BY <2>2, <2>3
  <1>2. CASE Tables!Replace(p)
    <2>1. PICK c \in Tables!Configuration : assuring[p] = [at |-> "replace", c |-> c]
      BY <1>2 DEF Tables!Replace, TablesInv, TablesType, Stages
    <2>2. CASE Tables!getVirtualChannelIndex(c.id) = {}
      <3>1. Tables!Goes(p, [at |-> "idle"]) /\ Tables!TableUnchanged
        BY <1>2, <2>1, <2>2 DEF Tables!Replace
      <3> QED BY <3>1, StagesAre, StageTyped, TablesUnchanged DEF Tables!TableUnchanged
    <2>3. CASE Tables!getVirtualChannelIndex(c.id) # {}
      <3>1. /\ Tables!destroyVirtualChannel(p, c.id)
            /\ Tables!Goes(p, [[at |-> "replace", c |-> c] EXCEPT !.at = "create"])
        BY <1>2, <2>1, <2>3 DEF Tables!Replace
      <3>2. assuring' \in [Users -> Stages]
        BY <3>1, StagesAre, StageTyped
      <3> QED BY <3>1, <3>2, TablesDeinitialize DEF Tables!destroyVirtualChannel
    <2> QED BY <2>2, <2>3
  <1>3. CASE Tables!AssureCreates(p)
    <2>1. PICK c \in Tables!Configuration : assuring[p] = [at |-> "create", c |-> c]
      BY <1>3 DEF Tables!AssureCreates, TablesInv, TablesType, Stages
    <2>2. assuring' \in [Users -> Stages]
      BY <1>3, <2>1, StagesAre, StageTyped DEF Tables!AssureCreates
    <2>3. CASE Tables!createVirtualChannel(p, c.id, c.size)
      BY <2>2, <2>3, StagesAre, TablesCreate
    <2>4. CASE Tables!TableUnchanged
      BY <2>2, <2>4, TablesUnchanged DEF Tables!TableUnchanged
    <2> QED BY <1>3, <2>1, <2>3, <2>4 DEF Tables!AssureCreates
  <1> QED BY <1>1, <1>2, <1>3

LEMMA TablesStep ==
  ASSUME Tables!VcTablesAssumption, TablesInv, Tables!Next \/ UNCHANGED tableVars
  PROVE  TablesInv'
  <1>0. assuring \in [Users -> Stages]
    BY DEF TablesInv, TablesType
  <1>1. CASE UNCHANGED tableVars
    BY <1>0, <1>1, TablesUnchanged DEF tableVars
  <1>2. CASE Tables!Next
    <2>1. PICK p \in Users : \/ Tables!Create(p) \/ Tables!Destroy(p) \/ Tables!Release(p) \/ Tables!MessageCall(p)
                             \/ Tables!Assure(p) \/ Tables!Replace(p) \/ Tables!AssureCreates(p)
      BY <1>2 DEF Tables!Next
    <2>2. CASE Tables!Create(p)
      BY <1>0, <2>2, TablesCreate DEF Tables!Create
    <2>3. CASE Tables!Destroy(p)
      BY <1>0, <2>3, TablesDeinitialize DEF Tables!Destroy, Tables!destroyVirtualChannel
    <2>4. CASE Tables!Release(p)
      BY <1>0, <2>4, TablesDeinitialize DEF Tables!Release
    <2>5. CASE Tables!MessageCall(p)
      BY <1>0, <2>5, TablesLookup DEF Tables!MessageCall, Tables!Lookup
    <2> QED BY <2>1, <2>2, <2>3, <2>4, <2>5, TablesAssure
  <1> QED BY <1>1, <1>2

(* As long as no id of a global vc is used again, processes that have taken their *)
(* objects of an entry for current are mapped to one shared memory, the one of    *)
(* the entry's id (getVirtualChannel, createVirtualChannel, GlobalVc::initialize).*)
THEOREM ProcessesAlwaysMeet == Spec => []ProcessesMeet
  <1>1. Init => TablesInv
    BY TablesInit, Assumptions DEF Init
  <1>2. TablesInv /\ [Next]_vars => TablesInv'
    <2>1. [Next]_vars => Tables!Next \/ UNCHANGED tableVars
      BY DEF Next, vars
    <2> QED BY <2>1, TablesStep, Assumptions
  <1>3. TablesInv => ProcessesMeet
    <2> SUFFICES ASSUME TablesInv, NEW k \in Slots, index[k] # Unused, NEW p \in Users, NEW q \in Users,
                        Tables!Current(p, k), Tables!Current(q, k)
                 PROVE  vc[p][k].segment = vc[q][k].segment /\ vc[p][k].id = index[k].id
      BY DEF ProcessesMeet, Tables!ProcessesMeet
    <2>1. vc[p][k].id = index[k].id /\ vc[q][k].id = index[k].id
      BY DEF TablesInv, SessionsAgree
    <2>2. IsOf(segment, vc[p][k].segment, index[k].id) /\ IsOf(segment, vc[q][k].segment, index[k].id)
      BY <2>1 DEF TablesInv, SegmentsNamed, Tables!Current
    <2> QED BY <2>1, <2>2 DEF TablesInv, SegmentsNamed, IsOf
  <1> QED BY <1>1, <1>2, <1>3, PTL DEF Spec

--------------------------------------------------------------------------------
(* GlobalVc: what is proved there for every configuration (OverwritingStaysSafe)  *)
(* holds of this one, whose queue of vc 0 overwrites.                             *)
ChannelProofs == INSTANCE GlobalVc_proofs WITH
    NumberOfBuffers <- 2, NumberOfVcs <- 2, QueueSize <- (0 :> 1) @@ (1 :> 2), Refusing <- {1}, Lifo <- {0},
    Senders <- {s1, s2}, Receivers <- {r1, r2, r3}, VcOf <- (r1 :> 0) @@ (r2 :> 1) @@ (r3 :> 0),
    Copying <- {s1}, Impatient <- {s1}, ReadSemaphore <- Messages

LEMMA ChannelStarts == Channel!Init => ChannelProofs!Init
  BY DEF Channel!Buffer, ChannelProofs!Buffer, Channel!Vc, ChannelProofs!Vc, Channel!Thread,
         ChannelProofs!Thread, Channel!Init, ChannelProofs!Init

LEMMA ChannelMoves == Channel!Next => ChannelProofs!Next
  BY DEF Channel!Buffer, ChannelProofs!Buffer, Channel!Vc, ChannelProofs!Vc, Channel!Thread,
         ChannelProofs!Thread, Channel!poolVars, ChannelProofs!poolVars, Channel!queueVars,
         ChannelProofs!queueVars, Channel!msgVars, ChannelProofs!msgVars, Channel!Goto, ChannelProofs!Goto,
         Channel!Elements, ChannelProofs!Elements, Channel!IsFull, ChannelProofs!IsFull,
         Channel!releaseBuffer, ChannelProofs!releaseBuffer, Channel!ClaimTest, ChannelProofs!ClaimTest,
         Channel!ClaimPop, ChannelProofs!ClaimPop, Channel!ClaimSet, ChannelProofs!ClaimSet, Channel!Refused,
         ChannelProofs!Refused, Channel!Fill, ChannelProofs!Fill, Channel!GiveUp, ChannelProofs!GiveUp,
         Channel!AfterFailure, ChannelProofs!AfterFailure, Channel!SendEnter, ChannelProofs!SendEnter,
         Channel!SendNotLocked, ChannelProofs!SendNotLocked, Channel!EnterTimeout, ChannelProofs!EnterTimeout,
         Channel!WaitForFreeCells, ChannelProofs!WaitForFreeCells, Channel!CellTimeout,
         ChannelProofs!CellTimeout, Channel!StartPushing, ChannelProofs!StartPushing, Channel!PushClaim,
         ChannelProofs!PushClaim, Channel!PushFails, ChannelProofs!PushFails, Channel!PushUndo,
         ChannelProofs!PushUndo, Channel!PushOverwrite, ChannelProofs!PushOverwrite, Channel!PushStore,
         ChannelProofs!PushStore, Channel!SendRelease, ChannelProofs!SendRelease, Channel!SendLeave,
         ChannelProofs!SendLeave, Channel!ReceiveWait, ChannelProofs!ReceiveWait, Channel!Taken,
         ChannelProofs!Taken, Channel!Left, ChannelProofs!Left, Channel!ReceivePop, ChannelProofs!ReceivePop,
         Channel!ReceiveUnlock, ChannelProofs!ReceiveUnlock, Channel!claimFreeBuffer,
         ChannelProofs!claimFreeBuffer, Channel!obtainAction, ChannelProofs!obtainAction, Channel!pushBuffer,
         ChannelProofs!pushBuffer, Channel!sendBuffer, ChannelProofs!sendBuffer, Channel!receive,
         ChannelProofs!receive, Channel!Next, ChannelProofs!Next

LEMMA ChannelBehaves == Spec => ChannelProofs!Spec
  <1>1. Init => ChannelProofs!Init
    BY ChannelStarts DEF Init
  <1>2. [Next]_vars => [ChannelProofs!Next]_(ChannelProofs!vars)
    <2>1. [Next]_vars => Channel!Next \/ UNCHANGED channelVars
      BY DEF Next, vars
    <2>2. UNCHANGED channelVars => UNCHANGED ChannelProofs!vars
      BY DEF channelVars, ChannelProofs!vars, ChannelProofs!poolVars, ChannelProofs!queueVars, ChannelProofs!msgVars
    <2> QED BY <2>1, <2>2, ChannelMoves
  <1> QED BY <1>1, <1>2, PTL DEF Spec, ChannelProofs!Spec

(* Where queues overwrite and readers race with the overwrite, the semaphores     *)
(* still count messages and a claimed buffer is still unused (popBuffer,          *)
(* claimFreeBuffer).                                                              *)
THEOREM OverwritingStaysSafe == Spec => []OverwritingIsSafe
  <1>1. ChannelProofs!SizesAssumption /\ ChannelProofs!ThreadsAssumption
    BY ChannelAssumption
    DEF Channel!SizesAssumption, ChannelProofs!SizesAssumption, Channel!ThreadsAssumption,
        ChannelProofs!ThreadsAssumption, Channel!Vc, ChannelProofs!Vc, Channel!IsFiniteSet, ChannelProofs!IsFiniteSet
  <1>2. ChannelProofs!Spec => [](ChannelProofs!SemaphoreCountsMessages /\ ChannelProofs!ClaimedBufferUnused)
    BY <1>1, ChannelProofs!OverwritingStaysSafe DEF ChannelProofs!SizesAssumption, ChannelProofs!ThreadsAssumption
  <1>3. ChannelProofs!SemaphoreCountsMessages /\ ChannelProofs!ClaimedBufferUnused => OverwritingIsSafe
    BY DEF OverwritingIsSafe, Channel!SemaphoreCountsMessages, ChannelProofs!SemaphoreCountsMessages,
           Channel!ClaimedBufferUnused, ChannelProofs!ClaimedBufferUnused, Channel!Waiting, ChannelProofs!Waiting,
           Channel!Vc, ChannelProofs!Vc, Channel!Cardinality, ChannelProofs!Cardinality
  <1> QED BY <1>2, <1>3, ChannelBehaves, PTL

================================================================================
