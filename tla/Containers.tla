------------------------------- MODULE Containers -------------------------------
(* SharedMap over SharedList (Common/Templates): a sorted table in an allocated *)
(* area, used by several threads or processes.                                  *)
(*                                                                              *)
(* The map and the list have a semaphore each.  add() searches and inserts      *)
(* under the semaphore of the map; remove() gives that semaphore back after its *)
(* search and removes by the index it found, under the semaphore of the list.   *)
EXTENDS Integers, FiniteSets

CONSTANTS
    Users,    \* threads that use the map
    Ids,      \* the ids they add and remove, integers
    Size      \* capacity of the list

ContainersAssumption == Ids \subseteq Nat \ {0} /\ Size \in Nat \ {0} /\ 0 \notin Users

VARIABLES
    cells,      \* m_Buffer, with what removed elements leave behind
    count,      \* m_GlobalData->Count
    owner,      \* who holds the semaphore of the map, 0 when nobody does
    op,         \* what a user does: [kind, id, l, u], the bounds of its search
    overtaken   \* the list changed between the search and the end of some remove()

mapVars == <<cells, count, owner, op, overtaken>>

Idle == [kind |-> "none", id |-> 0, l |-> 0, u |-> 0]

Init ==
    /\ cells = [i \in 0 .. Size - 1 |-> 0]
    /\ count = 0
    /\ owner = 0
    /\ op = [t \in Users |-> Idle]
    /\ overtaken = FALSE

(* add() and remove() with its indexOf(): both begin with the semaphore.        *)
Begin(t, kind, id) ==
    /\ op[t] = Idle /\ owner = 0
    /\ owner' = t
    /\ op' = [op EXCEPT ![t] = [kind |-> kind, id |-> id, l |-> 0, u |-> count]]
    /\ UNCHANGED <<cells, count, overtaken>>

Middle(t) == op[t].l + (op[t].u - op[t].l) \div 2
Searching(t) == op[t].kind \in {"add", "indexOf"} /\ op[t].l # op[t].u

(* An upper bound that is one too low (not in the code; see                     *)
(* SortedUnlessOvertaken).                                                      *)
Bug_Narrowed(t) ==
    IF cells[Middle(t)] < op[t].id THEN [op[t] EXCEPT !.l = Middle(t) + 1]
    ELSE [op[t] EXCEPT !.u = IF Middle(t) > op[t].l THEN Middle(t) - 1 ELSE Middle(t)]

(* A probe of the search reads a cell without the semaphore of the list.        *)
Narrowed(t) ==
    IF cells[Middle(t)] < op[t].id THEN [op[t] EXCEPT !.l = Middle(t) + 1]
    ELSE [op[t] EXCEPT !.u = Middle(t)]

Narrow(t) ==
    /\ Searching(t) /\ cells[Middle(t)] # op[t].id
    /\ op' = [op EXCEPT ![t] = Narrowed(t)]
    /\ UNCHANGED <<cells, count, owner, overtaken>>

(* The id is there: add() refuses it, indexOf() returns its place to remove().  *)
Hit(t) ==
    /\ Searching(t) /\ cells[Middle(t)] = op[t].id
    /\ op' = [op EXCEPT ![t] = IF @.kind = "add" THEN Idle
                               ELSE [@ EXCEPT !.kind = "remove", !.l = Middle(t)]]
    /\ owner' = 0
    /\ UNCHANGED <<cells, count, overtaken>>

Removing == {t \in Users : op[t].kind = "remove"}

(* SharedList::insert() at the place the search ended at.                       *)
Inserted(c, i, id) ==
    [k \in DOMAIN c |-> IF k < i \/ k > count THEN c[k] ELSE IF k = i THEN id ELSE c[k - 1]]

insert(t) ==
    /\ op[t].kind = "add" /\ ~Searching(t)
    /\ IF count = Size \/ op[t].l > count THEN UNCHANGED <<cells, count, overtaken>>
       ELSE /\ cells' = Inserted(cells, op[t].l, op[t].id)
            /\ count' = count + 1
            /\ overtaken' = (overtaken \/ Removing # {})
    /\ op' = [op EXCEPT ![t] = Idle]
    /\ owner' = 0

NotFound(t) ==
    /\ op[t].kind = "indexOf" /\ ~Searching(t)
    /\ op' = [op EXCEPT ![t] = Idle]
    /\ owner' = 0
    /\ UNCHANGED <<cells, count, overtaken>>

(* SharedList::remove() by index: whatever element is there by now.             *)
Removed(c, i) == [k \in DOMAIN c |-> IF k >= i /\ k < count - 1 THEN c[k + 1] ELSE c[k]]

remove(t) ==
    /\ op[t].kind = "remove"
    /\ IF op[t].l >= count THEN UNCHANGED <<cells, count, overtaken>>
       ELSE /\ cells' = Removed(cells, op[t].l)
            /\ count' = count - 1
            /\ overtaken' = (overtaken \/ Removing # {t} \/ owner # 0)
    /\ op' = [op EXCEPT ![t] = Idle]
    /\ UNCHANGED owner

Next ==
    \E t \in Users :
        \/ \E id \in Ids : Begin(t, "add", id) \/ Begin(t, "indexOf", id)
        \/ Narrow(t) \/ Hit(t) \/ insert(t) \/ NotFound(t) \/ remove(t)

Spec == Init /\ [][Next]_mapVars

--------------------------------------------------------------------------------
(* The table stays sorted without duplicates, so that the next binary search    *)
(* finds what is there, as long as no removal by index met a list that another  *)
(* user had changed or was searching.                                           *)
Sorted == \A i, j \in 0 .. count - 1 : i < j => cells[i] < cells[j]

SortedUnlessOvertaken == overtaken \/ Sorted

(* A SharedList stores its elements in a thread-safe way: remove() takes away   *)
(* the element it was called for.  The code does not keep this: the index is of *)
(* no use when another user has changed the list since.                         *)
RemovesItsOwn ==
    [][\A t \in Users : remove(t) /\ count' < count => cells[op[t].l] = op[t].id]_mapVars

================================================================================
