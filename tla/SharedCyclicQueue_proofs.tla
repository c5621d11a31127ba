----------------------- MODULE SharedCyclicQueue_proofs -----------------------
(***************************************************************************)
(* Proofs about SharedCyclicQueue.tla, for every number of cells and every *)
(* set of values: the counters in every set of modes, the refinement of    *)
(* BoundedQueue.tla in the modes that handle a full queue as documented.   *)
(***************************************************************************)
EXTENDS SharedCyclicQueue, SequenceTheorems, TLAPS

(* The ring is closed: the neighbours of a cell are cells. *)
LEMMA NeighboursAreCells ==
  ASSUME NEW c \in Cell
  PROVE  NextCell(c) \in Cell /\ PreviousCell(c) \in Cell
  BY SizeAssumption DEF Cell, NextCell, PreviousCell

\* The counters support one another: a pop finds Free < Size because the read
\* semaphore admitted it, and a post never exceeds Size because Free did not.
IInv == TypeOK /\ SemaphoresCountCells

\* initialize() leaves all cells free and says so in every counter.
LEMMA InitEstablishesIInv == Init => IInv
<1> SUFFICES ASSUME Init PROVE IInv
  OBVIOUS
<1>1. 0 \in Cell
  BY SizeAssumption DEF Cell
<1>2. <<Direction, Blocking>> \in Modes
  BY ModesAssumption DEF Init
<1>3. TypeOK
  BY <1>1, <1>2, SizeAssumption DEF Init, TypeOK
<1>4. SemaphoresCountCells
  BY SizeAssumption DEF Init, SemaphoresCountCells
<1> QED
  BY <1>3, <1>4 DEF IInv

\* A push moves Free and the semaphores together, or none of them.
LEMMA PushPreservesIInv ==
  ASSUME IInv, NEW v \in Value, push(v)
  PROVE  IInv'
<1> USE SizeAssumption DEF IInv
<1>1. Free' \in 0 .. Size /\ ReadSemaphore' \in 0 .. Size /\ ReadSemaphore' = Size - Free'
  BY DEF push, CountWrittenCell, TypeOK, SemaphoresCountCells
<1>2. WriteSemaphore' \in 0 .. Size /\ (Blocking' = "BLOCKING" => WriteSemaphore' = Free')
  BY DEF push, CountWrittenCell, TypeOK, SemaphoresCountCells, mode
<1>3. NextWriteCell' \in Cell /\ NextReadCell' \in Cell
  <2>1. NextCell(NextWriteCell) \in Cell
    BY NeighboursAreCells DEF TypeOK
  <2> QED
    BY <2>1 DEF push, AdvanceAfterPush, TypeOK
<1>4. cells' \in [Cell -> Value \cup {NoValue}] /\ overwritten' \in Value \cup {NoValue}
  BY DEF push, TypeOK
<1>5. <<Direction, Blocking>>' \in Modes /\ result' \in Value \cup {NoValue}
  BY DEF push, mode, TypeOK
<1> QED
  BY <1>1, <1>2, <1>3, <1>4, <1>5 DEF TypeOK, SemaphoresCountCells

\* A pop admitted by the read semaphore finds Free < Size and gives a cell back.
LEMMA PopPreservesIInv ==
  ASSUME IInv, pop
  PROVE  IInv'
<1> USE SizeAssumption DEF IInv
<1>1. Free < Size
  BY DEF pop, TypeOK, SemaphoresCountCells
<1>2. Free' \in 0 .. Size /\ ReadSemaphore' \in 0 .. Size /\ ReadSemaphore' = Size - Free'
  BY <1>1 DEF pop, TypeOK, SemaphoresCountCells
<1>3. WriteSemaphore' \in 0 .. Size /\ (Blocking' = "BLOCKING" => WriteSemaphore' = Free')
  BY <1>1 DEF pop, mode, TypeOK, SemaphoresCountCells
<1>4. NextWriteCell' \in Cell /\ NextReadCell' \in Cell
  <2>1. NextCell(NextReadCell) \in Cell /\ PreviousCell(NextReadCell) \in Cell
    BY NeighboursAreCells DEF TypeOK
  <2>2. NextCell(PreviousCell(NextReadCell)) \in Cell
    BY <2>1, NeighboursAreCells
  <2> QED
    BY <2>1, <2>2 DEF pop, TypeOK
<1>5. result' \in Value \cup {NoValue}
  BY DEF pop, TypeOK
<1>6. /\ cells' \in [Cell -> Value \cup {NoValue}]
      /\ overwritten' \in Value \cup {NoValue}
      /\ <<Direction, Blocking>>' \in Modes
  BY DEF pop, mode, TypeOK
<1> QED
  BY <1>2, <1>3, <1>4, <1>5, <1>6 DEF TypeOK, SemaphoresCountCells

\* Steps of other components leave the queue as it is.
LEMMA StutteringPreservesIInv ==
  ASSUME IInv, UNCHANGED vars
  PROVE  IInv'
  BY DEF IInv, TypeOK, SemaphoresCountCells, vars, pointers, mode

\* The strengthened invariant holds in every reachable state.
THEOREM IInvIsInvariant == Spec => []IInv
<1>1. IInv /\ [Next]_vars => IInv'
  BY PushPreservesIInv, PopPreservesIInv, StutteringPreservesIInv DEF Next
<1> QED
  BY <1>1, InitEstablishesIInv, PTL DEF Spec

\* Type correctness: the counters stay within the ring and the pointers on cells.
THEOREM TypeCorrect == Spec => []TypeOK
<1>1. IInv => TypeOK
  BY DEF IInv
<1> QED
  BY <1>1, IInvIsInvariant, PTL

\* "using semaphores as counters for free and occupied cells" holds in every
\* mode of the queue as long as its calls do not overlap.
THEOREM SemaphoresAreExact == Spec => []SemaphoresCountCells
<1>1. IInv => SemaphoresCountCells
  BY DEF IInv
<1> QED
  BY <1>1, IInvIsInvariant, PTL

-------------------------------------------------------------------------------
(* The ring as a sequence.                                                       *)

\* Modulo Size, for the sums and differences of two cells.
Wrap(x) == IF x < Size THEN x ELSE x - Size

LEMMA RingIndex ==
  ASSUME NEW x \in 0 .. 2 * Size - 1
  PROVE  x % Size = Wrap(x)
<1>1. CASE x < Size
  BY <1>1, SizeAssumption DEF Wrap
<1>2. CASE x >= Size
  <2>1. x \div Size = 1
    BY <1>2, SizeAssumption
  <2> QED
    BY <1>2, <2>1, SizeAssumption DEF Wrap
<1> QED
  BY <1>1, <1>2, SizeAssumption

\* The cell of the i-th oldest of n elements, when r is the cell to read next.
Place(d, r, n, i) == IF d = "FIFO" THEN (r + i - 1) % Size ELSE (r + Size + i - n) % Size

ContentsOf(c, d, r, n) == [i \in 1 .. n |-> c[Place(d, r, n, i)]]

Element == Value \cup {NoValue}

\* Where that is.
LEMMA PlaceIs ==
  ASSUME NEW r \in Cell, NEW n \in 0 .. Size, NEW i \in 1 .. n
  PROVE  /\ Place("FIFO", r, n, i) = IF r + i - 1 < Size THEN r + i - 1 ELSE r + i - 1 - Size
         /\ Place("LIFO", r, n, i) = IF r + i - n < 0 THEN r + i - n + Size ELSE r + i - n
         /\ Place("FIFO", r, n, i) \in Cell /\ Place("LIFO", r, n, i) \in Cell
<1>1. /\ r \in Int /\ 0 <= r /\ r < Size /\ n \in Int /\ n <= Size /\ i \in Int /\ 1 <= i /\ i <= n /\ Size \in Nat
  BY SizeAssumption DEF Cell
<1>2. Place("FIFO", r, n, i) = IF r + i - 1 < Size THEN r + i - 1 ELSE r + i - 1 - Size
  <2>1. r + i - 1 \in 0 .. 2 * Size - 1
    BY <1>1
  <2>2. (r + i - 1) % Size = Wrap(r + i - 1)
    BY <2>1, RingIndex, Zenon
  <2>3. Place("FIFO", r, n, i) = Wrap(r + i - 1)
    BY <2>2 DEF Place
  <2> QED
    BY <1>1, <2>3 DEF Wrap
<1>3. Place("LIFO", r, n, i) = IF r + i - n < 0 THEN r + i - n + Size ELSE r + i - n
  <2>1. r + Size + i - n \in 0 .. 2 * Size - 1
    BY <1>1
  <2>2. (r + Size + i - n) % Size = Wrap(r + Size + i - n)
    BY <2>1, RingIndex, Zenon
  <2>3. Place("LIFO", r, n, i) = Wrap(r + Size + i - n)
    BY <2>2 DEF Place
  <2> QED
    BY <1>1, <2>3 DEF Wrap
<1>4. Place("FIFO", r, n, i) \in Cell /\ Place("LIFO", r, n, i) \in Cell
  BY <1>1, <1>2, <1>3 DEF Cell
<1> QED
  BY <1>2, <1>3, <1>4

LEMMA NeighboursAre ==
  ASSUME NEW r \in Cell
  PROVE  /\ NextCell(r) = IF r + 1 < Size THEN r + 1 ELSE 0
         /\ PreviousCell(r) = IF r = 0 THEN Size - 1 ELSE r - 1
<1>1. r \in Int /\ 0 <= r /\ r < Size /\ Size \in Nat
  BY SizeAssumption DEF Cell
<1>2. r + 1 \in 0 .. 2 * Size - 1 /\ r + Size - 1 \in 0 .. 2 * Size - 1
  BY <1>1
<1>3. (r + 1) % Size = Wrap(r + 1) /\ (r + Size - 1) % Size = Wrap(r + Size - 1)
  BY <1>2, RingIndex, Zenon
<1>4. NextCell(r) = Wrap(r + 1)
  BY <1>3 DEF NextCell
<1>5. PreviousCell(r) = Wrap(r + Size - 1)
  BY <1>3 DEF PreviousCell
<1> QED
  BY <1>1, <1>4, <1>5 DEF Wrap

LEMMA ContentsType ==
  ASSUME NEW c \in [Cell -> Element], NEW d \in {"FIFO", "LIFO"}, NEW r \in Cell, NEW n \in 0 .. Size
  PROVE  /\ ContentsOf(c, d, r, n) \in Seq(Element) /\ Len(ContentsOf(c, d, r, n)) = n
         /\ \A i \in 1 .. n : ContentsOf(c, d, r, n)[i] = c[Place(d, r, n, i)]
<1>1. n \in Nat
  BY SizeAssumption
<1>2. \A i \in 1 .. n : Place(d, r, n, i) \in Cell
  BY PlaceIs
<1>3. ContentsOf(c, d, r, n) \in [1 .. n -> Element]
  BY <1>2 DEF ContentsOf
<1>4. ContentsOf(c, d, r, n) \in Seq(Element)
  BY <1>1, <1>3
<1>5. Len(ContentsOf(c, d, r, n)) = n
  BY <1>1, <1>3, <1>4
<1> QED
  BY <1>4, <1>5 DEF ContentsOf

\* Two sequences with the same elements, one of which has been appended to.
LEMMA AppendedIs ==
  ASSUME NEW s \in Seq(Element), NEW t \in Seq(Element), NEW e \in Element, Len(t) = Len(s) + 1,
         \A i \in 1 .. Len(s) : t[i] = s[i], t[Len(s) + 1] = e
  PROVE  t = Append(s, e)
<1>1. /\ Append(s, e) \in Seq(Element) /\ Len(Append(s, e)) = Len(t) /\ Len(s) \in Nat
      /\ Append(s, e)[Len(s) + 1] = e
      /\ \A i \in 1 .. Len(s) : Append(s, e)[i] = s[i]
  OBVIOUS
<1>2. ASSUME NEW i \in 1 .. Len(t) PROVE t[i] = Append(s, e)[i]
  <2>1. CASE i = Len(s) + 1
    BY <1>1, <2>1
  <2>2. CASE i /= Len(s) + 1
    <3>1. i \in 1 .. Len(s)
      BY <1>1, <2>2
    <3> QED
      BY <1>1, <3>1
  <2> QED
    BY <2>1, <2>2
<1> QED
  BY <1>1, <1>2, SeqEqual

\* Read from q, n + 1 elements are the n read from r and then the one in cell w.
OneMore(d, q, w, r, n) ==
  /\ Place(d, q, n + 1, n + 1) = w
  /\ \A i \in 1 .. n : Place(d, q, n + 1, i) = Place(d, r, n, i) /\ Place(d, r, n, i) /= w

\* Afterwards the cells are e.
Written(c, w, v, e) == e \in [Cell -> Element] /\ e = [c EXCEPT ![w] = v]

\* Writing the cell of one more element appends that element.
LEMMA WriteAppends ==
  ASSUME NEW c \in [Cell -> Element], NEW d \in {"FIFO", "LIFO"}, NEW v \in Element,
         NEW r \in Cell, NEW q \in Cell, NEW w \in Cell, NEW n \in Nat, n < Size,
         NEW e, Written(c, w, v, e), OneMore(d, q, w, r, n)
  PROVE  ContentsOf(e, d, q, n + 1) = Append(ContentsOf(c, d, r, n), v)
<1> DEFINE s == ContentsOf(c, d, r, n)
           t == ContentsOf(e, d, q, n + 1)
<1>1. e \in [Cell -> Element] /\ n \in 0 .. Size /\ n + 1 \in 0 .. Size
  BY SizeAssumption DEF Written
<1>2. s \in Seq(Element) /\ Len(s) = n /\ \A i \in 1 .. n : s[i] = c[Place(d, r, n, i)]
  BY <1>1, ContentsType
<1>3. t \in Seq(Element) /\ Len(t) = n + 1 /\ \A i \in 1 .. n + 1 : t[i] = e[Place(d, q, n + 1, i)]
  BY <1>1, ContentsType
<1>4. t[n + 1] = v
  <2>1. t[n + 1] = e[Place(d, q, n + 1, n + 1)]
    <3> HIDE DEF t
    <3> QED
      BY <1>3
  <2>2. t[n + 1] = e[w]
    BY <2>1 DEF OneMore, Written
  <2> QED
    BY <2>2 DEF Written
<1>5. ASSUME NEW i \in 1 .. n PROVE t[i] = s[i]
  <2>1. i \in 1 .. n + 1
    OBVIOUS
  <2>2. t[i] = e[Place(d, r, n, i)]
    BY <1>3, <2>1 DEF OneMore, Written
  <2>3. Place(d, r, n, i) \in Cell
    BY <1>1, PlaceIs
  <2>4. e[Place(d, r, n, i)] = c[Place(d, r, n, i)]
    BY <2>3 DEF OneMore, Written
  <2> QED
    BY <1>2, <2>2, <2>4
<1> HIDE DEF s, t
<1>6. Len(t) = Len(s) + 1 /\ t[Len(s) + 1] = v /\ \A i \in 1 .. Len(s) : t[i] = s[i]
  BY <1>2, <1>3, <1>4, <1>5
<1>7. t = Append(s, v)
  BY <1>2, <1>3, <1>6, AppendedIs
<1> QED
  BY <1>7 DEF s, t

\* Reading on from the second oldest element leaves the tail.
LEMMA TailIs ==
  ASSUME NEW c \in [Cell -> Element], NEW d \in {"FIFO", "LIFO"},
         NEW r \in Cell, NEW q \in Cell, NEW n \in 1 .. Size,
         \A i \in 1 .. n - 1 : Place(d, q, n - 1, i) = Place(d, r, n, i + 1)
  PROVE  Tail(ContentsOf(c, d, r, n)) = ContentsOf(c, d, q, n - 1)
<1> DEFINE s == ContentsOf(c, d, r, n)
           t == ContentsOf(c, d, q, n - 1)
<1>1. n \in 0 .. Size /\ n - 1 \in 0 .. Size
  BY SizeAssumption
<1>2. s \in Seq(Element) /\ Len(s) = n /\ \A i \in 1 .. n : s[i] = c[Place(d, r, n, i)]
  BY <1>1, ContentsType
<1>3. t \in Seq(Element) /\ Len(t) = n - 1 /\ \A i \in 1 .. n - 1 : t[i] = c[Place(d, q, n - 1, i)]
  BY <1>1, ContentsType
<1>4. ASSUME NEW i \in 1 .. n - 1 PROVE t[i] = s[i + 1]
  <2>1. i + 1 \in 1 .. n
    BY <1>1
  <2> QED
    BY <1>2, <1>3, <2>1
<1> HIDE DEF s, t
<1>5. s /= <<>> /\ n \in Nat
  BY <1>1, <1>2
<1>6. Tail(s) \in Seq(Element) /\ Len(Tail(s)) = n - 1
  BY <1>2, <1>5
<1>7. \A i \in 1 .. n - 1 : Tail(s)[i] = s[i + 1]
  BY <1>2, <1>5
<1>8. Tail(s) = t
  BY <1>3, <1>4, <1>6, <1>7, SeqEqual
<1> QED
  BY <1>8 DEF s, t

\* Without its newest element.
LEMMA FrontIs ==
  ASSUME NEW c \in [Cell -> Element], NEW r \in Cell, NEW q \in Cell, NEW n \in 1 .. Size,
         \A i \in 1 .. n - 1 : Place("LIFO", q, n - 1, i) = Place("LIFO", r, n, i)
  PROVE  SubSeq(ContentsOf(c, "LIFO", r, n), 1, n - 1) = ContentsOf(c, "LIFO", q, n - 1)
<1> DEFINE s == ContentsOf(c, "LIFO", r, n)
           t == ContentsOf(c, "LIFO", q, n - 1)
<1>1. n \in 0 .. Size /\ n - 1 \in 0 .. Size
  BY SizeAssumption
<1>2. s \in Seq(Element) /\ Len(s) = n /\ \A i \in 1 .. n : s[i] = c[Place("LIFO", r, n, i)]
  BY <1>1, ContentsType
<1>3. t \in Seq(Element) /\ Len(t) = n - 1 /\ \A i \in 1 .. n - 1 : t[i] = c[Place("LIFO", q, n - 1, i)]
  BY <1>1, ContentsType
<1>4. ASSUME NEW i \in 1 .. n - 1 PROVE t[i] = s[i]
  <2>1. i \in 1 .. n
    BY <1>1
  <2> QED
    BY <1>2, <1>3, <2>1
<1> HIDE DEF s, t
<1>5. /\ SubSeq(s, 1, n - 1) \in Seq(Element) /\ Len(SubSeq(s, 1, n - 1)) = n - 1
      /\ \A i \in 1 .. n - 1 : SubSeq(s, 1, n - 1)[i] = s[i]
  BY <1>1, <1>2
<1>6. SubSeq(s, 1, n - 1) = t
  BY <1>3, <1>4, <1>5, SeqEqual
<1> QED
  BY <1>6 DEF s, t

\* Writing the cell of the newest of Size elements replaces that element.
LEMMA WriteReplaces ==
  ASSUME NEW c \in [Cell -> Element], NEW v \in Element, NEW r \in Cell
  PROVE  /\ ContentsOf([c EXCEPT ![r] = v], "LIFO", r, Size) = [ContentsOf(c, "LIFO", r, Size) EXCEPT ![Size] = v]
         /\ ContentsOf(c, "LIFO", r, Size)[Size] = c[r]
<1> DEFINE e == [c EXCEPT ![r] = v]
           s == ContentsOf(c, "LIFO", r, Size)
           t == ContentsOf(e, "LIFO", r, Size)
<1>1. e \in [Cell -> Element] /\ Size \in 0 .. Size /\ Size \in 1 .. Size
  BY SizeAssumption
<1>2. \A i \in 1 .. Size : Place("LIFO", r, Size, i) \in Cell /\ (Place("LIFO", r, Size, i) = r <=> i = Size)
  <2> SUFFICES ASSUME NEW i \in 1 .. Size
               PROVE  Place("LIFO", r, Size, i) \in Cell /\ (Place("LIFO", r, Size, i) = r <=> i = Size)
    OBVIOUS
  <2>1. /\ Place("LIFO", r, Size, i) = IF r + i - Size < 0 THEN r + i - Size + Size ELSE r + i - Size
        /\ Place("LIFO", r, Size, i) \in Cell
    BY <1>1, PlaceIs
  <2>2. r \in Int /\ 0 <= r /\ r < Size /\ i \in Int /\ 1 <= i /\ i <= Size /\ Size \in Nat
    BY SizeAssumption DEF Cell
  <2> QED
    BY <2>1, <2>2
<1>3. s = [i \in 1 .. Size |-> c[Place("LIFO", r, Size, i)]] /\ t = [i \in 1 .. Size |-> e[Place("LIFO", r, Size, i)]]
  BY DEF ContentsOf
<1>4. ASSUME NEW i \in 1 .. Size PROVE e[Place("LIFO", r, Size, i)] = IF i = Size THEN v ELSE c[Place("LIFO", r, Size, i)]
  BY <1>2
<1>5. t = [i \in 1 .. Size |-> IF i = Size THEN v ELSE c[Place("LIFO", r, Size, i)]]
  BY <1>3, <1>4
<1>6. s[Size] = c[r]
  BY <1>1, <1>2, <1>3
<1>7. t = [s EXCEPT ![Size] = v]
  <2> HIDE DEF s, t
  <2> QED
    BY <1>3, <1>5
<1> QED
  BY <1>6, <1>7

\* A push into a free cell of a FIFO queue.
LEMMA FifoAppend ==
  ASSUME NEW c \in [Cell -> Element], NEW v \in Element, NEW r \in Cell, NEW n \in Nat, n < Size,
         NEW w \in Cell, w = Place("FIFO", r, n + 1, n + 1)
  PROVE  ContentsOf([c EXCEPT ![w] = v], "FIFO", r, n + 1) = Append(ContentsOf(c, "FIFO", r, n), v)
<1>1. n \in 0 .. Size /\ n + 1 \in 0 .. Size /\ n + 1 \in 1 .. n + 1
  BY SizeAssumption
<1>2. w = IF r + n < Size THEN r + n ELSE r + n - Size
  <2>1. w = IF r + (n + 1) - 1 < Size THEN r + (n + 1) - 1 ELSE r + (n + 1) - 1 - Size
    BY <1>1, PlaceIs
  <2> QED
    BY <2>1, SizeAssumption DEF Cell
<1>3. ASSUME NEW i \in 1 .. n
      PROVE  Place("FIFO", r, n + 1, i) = Place("FIFO", r, n, i) /\ Place("FIFO", r, n, i) /= w
  <2>1. Place("FIFO", r, n, i) = IF r + i - 1 < Size THEN r + i - 1 ELSE r + i - 1 - Size
    BY <1>1, PlaceIs
  <2>2. Place("FIFO", r, n + 1, i) = Place("FIFO", r, n, i)
    BY DEF Place
  <2> QED
    BY <1>2, <2>1, <2>2, SizeAssumption DEF Cell
<1>4. OneMore("FIFO", r, w, r, n)
  BY <1>3 DEF OneMore
<1> DEFINE e == [c EXCEPT ![w] = v]
<1>6. Written(c, w, v, e)
  BY DEF Written
<1> HIDE DEF e
<1>7. ContentsOf(e, "FIFO", r, n + 1) = Append(ContentsOf(c, "FIFO", r, n), v)
  BY <1>4, <1>6, WriteAppends
<1> QED
  BY <1>7 DEF e

\* A push into a free cell of a LIFO queue, whose newest element is in r.
LEMMA LifoAppend ==
  ASSUME NEW c \in [Cell -> Element], NEW v \in Element, NEW r \in Cell, NEW n \in Nat, n < Size,
         NEW w \in Cell, n > 0 => w = NextCell(r)
  PROVE  ContentsOf([c EXCEPT ![w] = v], "LIFO", w, n + 1) = Append(ContentsOf(c, "LIFO", r, n), v)
<1>1. n \in 0 .. Size /\ n + 1 \in 0 .. Size /\ n + 1 \in 1 .. n + 1
  BY SizeAssumption
<1>2. w \in Int /\ 0 <= w /\ w < Size /\ r \in Int /\ 0 <= r /\ r < Size /\ Size \in Nat
  BY SizeAssumption DEF Cell
<1>3. Place("LIFO", w, n + 1, n + 1) = w
  <2>1. Place("LIFO", w, n + 1, n + 1) = IF w + (n + 1) - (n + 1) < 0 THEN w + (n + 1) - (n + 1) + Size
                                                                     ELSE w + (n + 1) - (n + 1)
    BY <1>1, PlaceIs
  <2> QED
    BY <1>2, <2>1
<1>4. ASSUME NEW i \in 1 .. n
      PROVE  Place("LIFO", w, n + 1, i) = Place("LIFO", r, n, i) /\ Place("LIFO", r, n, i) /= w
  <2>1. i \in 1 .. n + 1
    OBVIOUS
  <2>2. Place("LIFO", w, n + 1, i) = IF w + i - (n + 1) < 0 THEN w + i - (n + 1) + Size ELSE w + i - (n + 1)
    BY <1>1, <2>1, PlaceIs
  <2>3. Place("LIFO", r, n, i) = IF r + i - n < 0 THEN r + i - n + Size ELSE r + i - n
    BY <1>1, PlaceIs
  <2>4. w = IF r + 1 < Size THEN r + 1 ELSE 0
    BY NeighboursAre
  <2> QED
    BY <1>2, <2>2, <2>3, <2>4
<1>5. OneMore("LIFO", w, w, r, n)
  BY <1>3, <1>4 DEF OneMore
<1> DEFINE e == [c EXCEPT ![w] = v]
<1>6. Written(c, w, v, e)
  BY DEF Written
<1> HIDE DEF e
<1>7. ContentsOf(e, "LIFO", w, n + 1) = Append(ContentsOf(c, "LIFO", r, n), v)
  BY <1>5, <1>6, WriteAppends
<1> QED
  BY <1>7 DEF e

\* A pop: what is read, and what is left.
LEMMA FifoPop ==
  ASSUME NEW c \in [Cell -> Element], NEW r \in Cell, NEW n \in 1 .. Size
  PROVE  /\ Head(ContentsOf(c, "FIFO", r, n)) = c[r]
         /\ Tail(ContentsOf(c, "FIFO", r, n)) = ContentsOf(c, "FIFO", NextCell(r), n - 1)
<1>1. n \in 0 .. Size /\ n - 1 \in 0 .. Size /\ 1 \in 1 .. n /\ NextCell(r) \in Cell
  BY SizeAssumption, NeighboursAreCells
<1>2. r \in Int /\ 0 <= r /\ r < Size /\ Size \in Nat
  BY SizeAssumption DEF Cell
<1>3. Place("FIFO", r, n, 1) = r
  <2>1. Place("FIFO", r, n, 1) = IF r + 1 - 1 < Size THEN r + 1 - 1 ELSE r + 1 - 1 - Size
    BY <1>1, PlaceIs
  <2> QED
    BY <1>2, <2>1
<1>4. Head(ContentsOf(c, "FIFO", r, n)) = c[r]
  <2>1. ContentsOf(c, "FIFO", r, n)[1] = c[r]
    BY <1>1, <1>3 DEF ContentsOf
  <2>2. ContentsOf(c, "FIFO", r, n) \in Seq(Element) /\ Len(ContentsOf(c, "FIFO", r, n)) = n
    BY <1>1, ContentsType
  <2> QED
    BY <2>1, <2>2
<1>5. ASSUME NEW i \in 1 .. n - 1
      PROVE  Place("FIFO", NextCell(r), n - 1, i) = Place("FIFO", r, n, i + 1)
  <2>1. i + 1 \in 1 .. n
    OBVIOUS
  <2>2. Place("FIFO", r, n, i + 1) = IF r + (i + 1) - 1 < Size THEN r + (i + 1) - 1 ELSE r + (i + 1) - 1 - Size
    BY <1>1, <2>1, PlaceIs
  <2>3. Place("FIFO", NextCell(r), n - 1, i)
          = IF NextCell(r) + i - 1 < Size THEN NextCell(r) + i - 1 ELSE NextCell(r) + i - 1 - Size
    BY <1>1, PlaceIs
  <2>4. NextCell(r) = IF r + 1 < Size THEN r + 1 ELSE 0
    BY NeighboursAre
  <2> QED
    BY <1>2, <2>2, <2>3, <2>4
<1>6. Tail(ContentsOf(c, "FIFO", r, n)) = ContentsOf(c, "FIFO", NextCell(r), n - 1)
  BY <1>1, <1>5, TailIs
<1> QED
  BY <1>4, <1>6

LEMMA LifoPop ==
  ASSUME NEW c \in [Cell -> Element], NEW r \in Cell, NEW n \in 1 .. Size
  PROVE  /\ ContentsOf(c, "LIFO", r, n)[n] = c[r]
         /\ SubSeq(ContentsOf(c, "LIFO", r, n), 1, n - 1) = ContentsOf(c, "LIFO", PreviousCell(r), n - 1)
<1>1. n \in 0 .. Size /\ n - 1 \in 0 .. Size /\ n \in 1 .. n /\ PreviousCell(r) \in Cell
  BY SizeAssumption, NeighboursAreCells
<1>2. r \in Int /\ 0 <= r /\ r < Size /\ Size \in Nat
  BY SizeAssumption DEF Cell
<1>3. Place("LIFO", r, n, n) = r
  <2>1. Place("LIFO", r, n, n) = IF r + n - n < 0 THEN r + n - n + Size ELSE r + n - n
    BY <1>1, PlaceIs
  <2> QED
    BY <1>2, <2>1
<1>4. ContentsOf(c, "LIFO", r, n)[n] = c[r]
  BY <1>1, <1>3 DEF ContentsOf
<1>5. ASSUME NEW i \in 1 .. n - 1
      PROVE  Place("LIFO", PreviousCell(r), n - 1, i) = Place("LIFO", r, n, i)
  <2>1. i \in 1 .. n
    OBVIOUS
  <2>2. Place("LIFO", r, n, i) = IF r + i - n < 0 THEN r + i - n + Size ELSE r + i - n
    BY <1>1, <2>1, PlaceIs
  <2>3. Place("LIFO", PreviousCell(r), n - 1, i)
          = IF PreviousCell(r) + i - (n - 1) < 0 THEN PreviousCell(r) + i - (n - 1) + Size
                                                 ELSE PreviousCell(r) + i - (n - 1)
    BY <1>1, PlaceIs
  <2>4. PreviousCell(r) = IF r = 0 THEN Size - 1 ELSE r - 1
    BY NeighboursAre
  <2> QED
    BY <1>2, <2>2, <2>3, <2>4
<1>6. SubSeq(ContentsOf(c, "LIFO", r, n), 1, n - 1) = ContentsOf(c, "LIFO", PreviousCell(r), n - 1)
  BY <1>1, <1>5, FrontIs
<1> QED
  BY <1>4, <1>6

\* A push over the oldest element is a pop of that element and a push into its cell.
LEMMA FifoOverOldest ==
  ASSUME NEW c \in [Cell -> Element], NEW v \in Element, NEW r \in Cell
  PROVE  /\ Head(ContentsOf(c, "FIFO", r, Size)) = c[r]
         /\ ContentsOf([c EXCEPT ![r] = v], "FIFO", NextCell(r), Size)
              = Append(Tail(ContentsOf(c, "FIFO", r, Size)), v)
<1> DEFINE q == NextCell(r)
           m == Size - 1
<1>1. q \in Cell /\ m \in Nat /\ m < Size /\ m + 1 = Size /\ Size \in 1 .. Size /\ Size \in 0 .. Size
  BY SizeAssumption, NeighboursAreCells
<1>2. r = Place("FIFO", q, Size, Size)
  <2>1. Place("FIFO", q, Size, Size) = IF q + Size - 1 < Size THEN q + Size - 1 ELSE q + Size - 1 - Size
    BY <1>1, PlaceIs
  <2>2. q = IF r + 1 < Size THEN r + 1 ELSE 0
    BY NeighboursAre
  <2> QED
    BY <2>1, <2>2, SizeAssumption DEF Cell
<1>3. /\ Head(ContentsOf(c, "FIFO", r, Size)) = c[r]
      /\ Tail(ContentsOf(c, "FIFO", r, Size)) = ContentsOf(c, "FIFO", q, m)
  BY <1>1, FifoPop
<1> HIDE DEF q, m
<1>4. ContentsOf([c EXCEPT ![r] = v], "FIFO", q, m + 1) = Append(ContentsOf(c, "FIFO", q, m), v)
  BY <1>1, <1>2, FifoAppend
<1> QED
  BY <1>1, <1>3, <1>4 DEF q

LEMMA LifoOverOldest ==
  ASSUME NEW c \in [Cell -> Element], NEW v \in Element, NEW r \in Cell
  PROVE  /\ Head(ContentsOf(c, "LIFO", r, Size)) = c[NextCell(r)]
         /\ ContentsOf([c EXCEPT ![NextCell(r)] = v], "LIFO", NextCell(r), Size)
              = Append(Tail(ContentsOf(c, "LIFO", r, Size)), v)
<1> DEFINE w == NextCell(r)
           m == Size - 1
<1>1. w \in Cell /\ m \in Nat /\ m < Size /\ m + 1 = Size /\ Size \in 1 .. Size /\ Size \in 0 .. Size
      /\ 1 \in 1 .. Size /\ m \in 0 .. Size
  BY SizeAssumption, NeighboursAreCells
<1>2. r \in Int /\ 0 <= r /\ r < Size /\ Size \in Nat
  BY SizeAssumption DEF Cell
<1>3. Place("LIFO", r, Size, 1) = w
  <2>1. Place("LIFO", r, Size, 1) = IF r + 1 - Size < 0 THEN r + 1 - Size + Size ELSE r + 1 - Size
    BY <1>1, PlaceIs
  <2>2. w = IF r + 1 < Size THEN r + 1 ELSE 0
    BY NeighboursAre
  <2> QED
    BY <1>2, <2>1, <2>2
<1>4. ContentsOf(c, "LIFO", r, Size) \in Seq(Element) /\ Len(ContentsOf(c, "LIFO", r, Size)) = Size
      /\ ContentsOf(c, "LIFO", r, Size)[1] = c[w]
  <2>1. \A i \in 1 .. Size : ContentsOf(c, "LIFO", r, Size)[i] = c[Place("LIFO", r, Size, i)]
    BY <1>1, ContentsType
  <2>2. ContentsOf(c, "LIFO", r, Size)[1] = c[w]
    BY <1>1, <1>3, <2>1
  <2> QED
    BY <1>1, <2>2, ContentsType
<1>5. Head(ContentsOf(c, "LIFO", r, Size)) = c[w]
  BY <1>2, <1>4
<1>6. ASSUME NEW i \in 1 .. m
      PROVE  Place("LIFO", r, m, i) = Place("LIFO", r, Size, i + 1)
  <2>1. i + 1 \in 1 .. Size
    BY <1>1
  <2>2. Place("LIFO", r, Size, i + 1) = IF r + (i + 1) - Size < 0 THEN r + (i + 1) - Size + Size
                                                                  ELSE r + (i + 1) - Size
    BY <1>1, <2>1, PlaceIs
  <2>3. Place("LIFO", r, m, i) = IF r + i - m < 0 THEN r + i - m + Size ELSE r + i - m
    BY <1>1, PlaceIs
  <2> QED
    BY <1>2, <2>2, <2>3
<1>7. Tail(ContentsOf(c, "LIFO", r, Size)) = ContentsOf(c, "LIFO", r, m)
  BY <1>1, <1>6, TailIs
<1>8. m > 0 => w = NextCell(r)
  OBVIOUS
<1> HIDE DEF w, m
<1>9. ContentsOf([c EXCEPT ![w] = v], "LIFO", w, m + 1) = Append(ContentsOf(c, "LIFO", r, m), v)
  BY <1>1, <1>8, LifoAppend
<1> QED
  BY <1>1, <1>5, <1>7, <1>9 DEF w

-------------------------------------------------------------------------------
(* The refinement, for the modes whose full-queue behaviour the code gets right. *)

OrderedModes ==
  {"FIFO", "LIFO"} \X {"BLOCKING", "OVERWRITE_OLDEST"} \cup {<<"LIFO", "OVERWRITE_NEWEST">>}

\* Cell w is the one behind the cells occupied from r on, f being free.
IsBehind(w, r, f) == w = IF r + (Size - f) < Size THEN r + (Size - f) ELSE r + (Size - f) - Size

\* A FIFO queue writes behind its occupied cells; a LIFO queue that is not empty
\* writes behind its newest element, or over it where that is the policy.
PointersOk ==
  /\ Direction = "FIFO" => IsBehind(NextWriteCell, NextReadCell, Free)
  /\ Direction = "LIFO" /\ Free < Size =>
       NextWriteCell = IF Blocking = "OVERWRITE_NEWEST" /\ Free = 0
                       THEN NextReadCell ELSE NextCell(NextReadCell)

ModeOk ==
  \/ Direction = "FIFO" /\ Blocking \in {"BLOCKING", "OVERWRITE_OLDEST"}
  \/ Direction = "LIFO" /\ Blocking \in {"BLOCKING", "OVERWRITE_OLDEST", "OVERWRITE_NEWEST"}

RingInv == IInv /\ PointersOk /\ ModeOk

LEMMA InitEstablishesRingInv ==
  ASSUME Modes \subseteq OrderedModes, Init
  PROVE  RingInv
<1>1. IInv
  BY InitEstablishesIInv
<1>2. ModeOk
  BY DEF Init, OrderedModes, ModeOk
<1>3. PointersOk
  BY SizeAssumption DEF Init, PointersOk, IsBehind
<1> QED
  BY <1>1, <1>2, <1>3 DEF RingInv

LEMMA PushPreservesRingInv ==
  ASSUME RingInv, NEW v \in Value, push(v)
  PROVE  RingInv'
<1>1. IInv' /\ IInv
  BY PushPreservesIInv DEF RingInv
<1>2. ModeOk' /\ Direction' = Direction /\ Blocking' = Blocking
  BY DEF RingInv, ModeOk, push, mode
<1>3. Free \in 0 .. Size /\ Free' \in 0 .. Size /\ NextWriteCell \in Cell /\ NextReadCell \in Cell /\ Size \in Nat \ {0}
  BY <1>1, SizeAssumption DEF IInv, TypeOK
<1>4. Blocking = "BLOCKING" => Free > 0
  BY <1>1 DEF IInv, SemaphoresCountCells, push
<1>5. Free' = IF Free > 0 THEN Free - 1 ELSE 0
  BY <1>3 DEF push, CountWrittenCell
<1>6. CASE Direction = "LIFO"
  <2>1. NextReadCell' = NextWriteCell
    BY <1>6 DEF push, AdvanceAfterPush
  <2>2. NextWriteCell' = IF Free' = 0 /\ Blocking = "OVERWRITE_NEWEST" THEN NextWriteCell ELSE NextCell(NextWriteCell)
    BY DEF push, AdvanceAfterPush
  <2>3. NextCell(NextReadCell)' = NextCell(NextReadCell')
    BY DEF NextCell
  <2> QED
    BY <1>1, <1>2, <1>6, <2>1, <2>2, <2>3 DEF RingInv, PointersOk
<1>7. CASE Direction = "FIFO"
  <2>1. Blocking \in {"BLOCKING", "OVERWRITE_OLDEST"}
    BY <1>7 DEF RingInv, ModeOk
  <2>2. NextWriteCell' = NextCell(NextWriteCell)
    BY <2>1 DEF push, AdvanceAfterPush
  <2>3. NextReadCell' = IF Free' = 0 /\ Blocking = "OVERWRITE_OLDEST" THEN NextCell(NextWriteCell) ELSE NextReadCell
    BY <1>7 DEF push, AdvanceAfterPush
  <2>4. NextCell(NextWriteCell) = IF NextWriteCell + 1 < Size THEN NextWriteCell + 1 ELSE 0
    BY <1>3, NeighboursAre
  <2>5. NextWriteCell = IF NextReadCell + (Size - Free) < Size THEN NextReadCell + (Size - Free)
                                                              ELSE NextReadCell + (Size - Free) - Size
    BY <1>3, <1>7 DEF RingInv, PointersOk, IsBehind
  <2>6. NextWriteCell' = IF NextReadCell' + (Size - Free') < Size THEN NextReadCell' + (Size - Free')
                                                                 ELSE NextReadCell' + (Size - Free') - Size
    BY <1>3, <1>4, <1>5, <2>1, <2>2, <2>3, <2>4, <2>5 DEF Cell
  <2>7. IsBehind(NextWriteCell', NextReadCell', Free')
    BY <2>6 DEF IsBehind
  <2> QED
    BY <1>1, <1>2, <1>7, <2>7 DEF RingInv, PointersOk
<1> QED
  BY <1>6, <1>7 DEF RingInv, ModeOk

LEMMA PopPreservesRingInv ==
  ASSUME RingInv, pop
  PROVE  RingInv'
<1>1. IInv' /\ IInv
  BY PopPreservesIInv DEF RingInv
<1>2. ModeOk' /\ Direction' = Direction /\ Blocking' = Blocking
  BY DEF RingInv, ModeOk, pop, mode
<1>3. Free \in 0 .. Size /\ Free' \in 0 .. Size /\ NextWriteCell \in Cell /\ NextReadCell \in Cell /\ Size \in Nat \ {0}
  BY <1>1, SizeAssumption DEF IInv, TypeOK
<1>4. Free < Size /\ Free' = Free + 1
  BY <1>1, <1>3 DEF IInv, SemaphoresCountCells, pop, TypeOK
<1>5. CASE Direction = "LIFO"
  <2>1. NextReadCell' = PreviousCell(NextReadCell) /\ NextWriteCell' = NextCell(PreviousCell(NextReadCell))
    BY <1>5 DEF pop
  <2>2. NextWriteCell' = NextCell(NextReadCell')
    BY <2>1
  <2>3. NextCell(NextReadCell)' = NextCell(NextReadCell') /\ Free' /= 0
    BY <1>3, <1>4 DEF NextCell
  <2> QED
    BY <1>1, <1>2, <1>5, <2>2, <2>3 DEF RingInv, PointersOk
<1>6. CASE Direction = "FIFO"
  <2>1. NextReadCell' = NextCell(NextReadCell) /\ NextWriteCell' = NextWriteCell
    BY <1>6 DEF pop
  <2>2. NextCell(NextReadCell) = IF NextReadCell + 1 < Size THEN NextReadCell + 1 ELSE 0
    BY <1>3, NeighboursAre
  <2>3. NextWriteCell = IF NextReadCell + (Size - Free) < Size THEN NextReadCell + (Size - Free)
                                                              ELSE NextReadCell + (Size - Free) - Size
    BY <1>3, <1>6 DEF RingInv, PointersOk, IsBehind
  <2>4. NextWriteCell' = IF NextReadCell' + (Size - Free') < Size THEN NextReadCell' + (Size - Free')
                                                                 ELSE NextReadCell' + (Size - Free') - Size
    BY <1>3, <1>4, <2>1, <2>2, <2>3 DEF Cell
  <2>5. IsBehind(NextWriteCell', NextReadCell', Free')
    BY <2>4 DEF IsBehind
  <2> QED
    BY <1>1, <1>2, <1>6, <2>5 DEF RingInv, PointersOk
<1> QED
  BY <1>5, <1>6 DEF RingInv, ModeOk

\* The refinement mapping in terms of the cells read, before and after a step.
LEMMA ContentsAre == Contents = ContentsOf(cells, Direction, NextReadCell, Size - Free)
<1>1. Contents = [i \in 1 .. Size - Free |->
                    IF Direction = "FIFO" THEN cells[(NextReadCell + i - 1) % Size]
                                          ELSE cells[(NextReadCell + Size + i - (Size - Free)) % Size]]
  BY DEF Contents
<1>2. ASSUME NEW i \in 1 .. Size - Free
      PROVE  cells[Place(Direction, NextReadCell, Size - Free, i)]
               = IF Direction = "FIFO" THEN cells[(NextReadCell + i - 1) % Size]
                                       ELSE cells[(NextReadCell + Size + i - (Size - Free)) % Size]
  BY DEF Place
<1> QED
  BY <1>1, <1>2 DEF ContentsOf

LEMMA NextContentsAre == Contents' = ContentsOf(cells', Direction', NextReadCell', Size - Free')
<1>1. Contents' = [i \in 1 .. Size - Free' |->
                    IF Direction' = "FIFO" THEN cells'[(NextReadCell' + i - 1) % Size]
                                           ELSE cells'[(NextReadCell' + Size + i - (Size - Free')) % Size]]
  BY DEF Contents
<1>2. ASSUME NEW i \in 1 .. Size - Free'
      PROVE  cells'[Place(Direction', NextReadCell', Size - Free', i)]
               = IF Direction' = "FIFO" THEN cells'[(NextReadCell' + i - 1) % Size]
                                        ELSE cells'[(NextReadCell' + Size + i - (Size - Free')) % Size]
  BY DEF Place
<1> QED
  BY <1>1, <1>2 DEF ContentsOf

\* The invariant as the places lemmas need it.
LEMMA RingFacts ==
  ASSUME RingInv
  PROVE  /\ cells \in [Cell -> Element] /\ NextReadCell \in Cell /\ NextWriteCell \in Cell
         /\ Direction \in {"FIFO", "LIFO"} /\ Free \in 0 .. Size /\ Size \in Nat \ {0}
         /\ Contents \in Seq(Element) /\ Len(Contents) = Size - Free
<1>1. /\ cells \in [Cell -> Element] /\ NextReadCell \in Cell /\ NextWriteCell \in Cell
      /\ Direction \in {"FIFO", "LIFO"} /\ Free \in 0 .. Size /\ Size \in Nat \ {0}
  BY SizeAssumption DEF RingInv, ModeOk, IInv, TypeOK, Element
<1>2. Size - Free \in 0 .. Size
  BY <1>1
<1> QED
  BY <1>1, <1>2, ContentsAre, ContentsType

\* push() into a free cell appends.
LEMMA PushIntoFreeCellImplements ==
  ASSUME RingInv, NEW v \in Value, push(v), Free > 0
  PROVE  Contents' = Append(Contents, v)
<1> DEFINE n == Size - Free
<1>1. /\ cells \in [Cell -> Element] /\ NextReadCell \in Cell /\ NextWriteCell \in Cell
      /\ Free \in 0 .. Size /\ Size \in Nat \ {0} /\ v \in Element
  BY RingFacts DEF Element
<1>2. n \in Nat /\ n < Size /\ n \in 0 .. Size /\ n + 1 \in 0 .. Size /\ n + 1 \in 1 .. n + 1
  BY <1>1
<1>3. Free' = Free - 1 /\ Size - Free' = n + 1
  BY <1>1 DEF push, CountWrittenCell
<1>4. cells' = [cells EXCEPT ![NextWriteCell] = v] /\ Direction' = Direction
  BY DEF push, mode
<1>5. CASE Direction = "FIFO"
  <2>1. NextWriteCell = IF NextReadCell + n < Size THEN NextReadCell + n ELSE NextReadCell + n - Size
    BY <1>1, <1>5 DEF RingInv, PointersOk, IsBehind
  <2>2. Place("FIFO", NextReadCell, n + 1, n + 1)
          = IF NextReadCell + (n + 1) - 1 < Size THEN NextReadCell + (n + 1) - 1
                                                 ELSE NextReadCell + (n + 1) - 1 - Size
    <3> HIDE DEF n
    <3> QED
      BY <1>1, <1>2, PlaceIs
  <2>3. NextWriteCell = Place("FIFO", NextReadCell, n + 1, n + 1)
    <3> HIDE DEF n
    <3> QED
      BY <1>1, <1>2, <2>1, <2>2 DEF Cell
  <2>4. NextReadCell' = NextReadCell
    <3>1. NextCell(NextWriteCell) = IF NextWriteCell + 1 < Size THEN NextWriteCell + 1 ELSE 0
      BY <1>1, NeighboursAre
    <3>2. Free' = 0 => NextCell(NextWriteCell) = NextReadCell
      BY <1>1, <1>3, <2>1, <3>1 DEF Cell
    <3> QED
      BY <1>5, <3>2 DEF push, AdvanceAfterPush
  <2>5. ContentsOf([cells EXCEPT ![NextWriteCell] = v], "FIFO", NextReadCell, n + 1)
          = Append(ContentsOf(cells, "FIFO", NextReadCell, n), v)
    <3> HIDE DEF n
    <3>1. NextReadCell \in Cell /\ NextWriteCell \in Cell /\ n \in Nat /\ n < Size
      BY <1>1, <1>2
    <3> QED
      BY <1>1, <2>3, <3>1, FifoAppend, ZenonT(30)
  <2> QED
    BY <1>3, <1>4, <1>5, <2>4, <2>5, ContentsAre, NextContentsAre
<1>6. CASE Direction = "LIFO"
  <2>1. n > 0 => NextWriteCell = NextCell(NextReadCell)
    BY <1>1, <1>6 DEF RingInv, PointersOk
  <2>2. NextReadCell' = NextWriteCell
    BY <1>6 DEF push, AdvanceAfterPush
  <2>3. ContentsOf([cells EXCEPT ![NextWriteCell] = v], "LIFO", NextWriteCell, n + 1)
          = Append(ContentsOf(cells, "LIFO", NextReadCell, n), v)
    <3> HIDE DEF n
    <3> QED
      BY <1>1, <1>2, <2>1, LifoAppend
  <2> QED
    BY <1>3, <1>4, <1>6, <2>2, <2>3, ContentsAre, NextContentsAre
<1> QED
  BY <1>5, <1>6 DEF RingInv, ModeOk

\* push() into a full queue replaces the oldest or the newest element and hands
\* that one to the overwrite callback.
LEMMA PushIntoFullImplements ==
  ASSUME RingInv, NEW v \in Value, push(v), Free = 0
  PROVE  \/ /\ Blocking = "OVERWRITE_OLDEST"
            /\ Contents' = Append(Tail(Contents), v)
            /\ overwritten' = Head(Contents)
         \/ /\ Blocking = "OVERWRITE_NEWEST"
            /\ Contents' = [Contents EXCEPT ![Size] = v]
            /\ overwritten' = Contents[Size]
<1>1. /\ cells \in [Cell -> Element] /\ NextReadCell \in Cell /\ NextWriteCell \in Cell
      /\ Free < Size /\ Size \in Nat \ {0} /\ v \in Element
  BY RingFacts DEF Element
<1>2. Free' = 0 /\ Size - Free' = Size /\ Size - Free = Size
  BY <1>1 DEF push, CountWrittenCell
<1>3. cells' = [cells EXCEPT ![NextWriteCell] = v] /\ Direction' = Direction /\ overwritten' = cells[NextWriteCell]
  BY DEF push, mode
<1>4. Contents = ContentsOf(cells, Direction, NextReadCell, Size)
  BY <1>2, ContentsAre
<1>5. Contents' = ContentsOf(cells', Direction, NextReadCell', Size)
  BY <1>2, <1>3, NextContentsAre
<1>6. Blocking /= "BLOCKING"
  BY DEF RingInv, IInv, SemaphoresCountCells, push
<1>7. CASE Direction = "FIFO"
  <2>1. Blocking = "OVERWRITE_OLDEST"
    BY <1>6, <1>7 DEF RingInv, ModeOk
  <2>2. NextWriteCell = NextReadCell
    BY <1>1, <1>7 DEF RingInv, PointersOk, IsBehind, Cell
  <2>3. NextReadCell' = NextCell(NextReadCell)
    BY <1>2, <1>7, <2>1, <2>2 DEF push, AdvanceAfterPush
  <2>4. /\ Head(ContentsOf(cells, "FIFO", NextReadCell, Size)) = cells[NextReadCell]
        /\ ContentsOf([cells EXCEPT ![NextReadCell] = v], "FIFO", NextCell(NextReadCell), Size)
             = Append(Tail(ContentsOf(cells, "FIFO", NextReadCell, Size)), v)
    BY <1>1, FifoOverOldest
  <2> QED
    BY <1>3, <1>4, <1>5, <1>7, <2>1, <2>2, <2>3, <2>4
<1>8. CASE Direction = "LIFO" /\ Blocking = "OVERWRITE_OLDEST"
  <2>1. NextWriteCell = NextCell(NextReadCell) /\ NextReadCell' = NextWriteCell
    BY <1>1, <1>8 DEF RingInv, PointersOk, push, AdvanceAfterPush
  <2>2. /\ Head(ContentsOf(cells, "LIFO", NextReadCell, Size)) = cells[NextCell(NextReadCell)]
        /\ ContentsOf([cells EXCEPT ![NextCell(NextReadCell)] = v], "LIFO", NextCell(NextReadCell), Size)
             = Append(Tail(ContentsOf(cells, "LIFO", NextReadCell, Size)), v)
    BY <1>1, LifoOverOldest
  <2> QED
    BY <1>3, <1>4, <1>5, <1>8, <2>1, <2>2
<1>9. CASE Direction = "LIFO" /\ Blocking = "OVERWRITE_NEWEST"
  <2>1. NextWriteCell = NextReadCell /\ NextReadCell' = NextReadCell
    BY <1>1, <1>9 DEF RingInv, PointersOk, push, AdvanceAfterPush
  <2>2. /\ ContentsOf([cells EXCEPT ![NextReadCell] = v], "LIFO", NextReadCell, Size)
             = [ContentsOf(cells, "LIFO", NextReadCell, Size) EXCEPT ![Size] = v]
        /\ ContentsOf(cells, "LIFO", NextReadCell, Size)[Size] = cells[NextReadCell]
    BY <1>1, WriteReplaces
  <2> QED
    BY <1>3, <1>4, <1>5, <1>9, <2>1, <2>2
<1> QED
  BY <1>6, <1>7, <1>8, <1>9 DEF RingInv, ModeOk

\* pop() takes the oldest element of a FIFO queue and the newest of a LIFO queue.
LEMMA PopImplements ==
  ASSUME RingInv, pop
  PROVE  /\ Contents /= <<>>
         /\ Direction = "FIFO" => result' = Head(Contents) /\ Contents' = Tail(Contents)
         /\ Direction = "LIFO" => /\ result' = Contents[Len(Contents)]
                                  /\ Contents' = SubSeq(Contents, 1, Len(Contents) - 1)
<1> DEFINE n == Size - Free
<1>1. /\ cells \in [Cell -> Element] /\ NextReadCell \in Cell
      /\ Contents \in Seq(Element) /\ Len(Contents) = n /\ Free \in 0 .. Size /\ Size \in Nat \ {0}
  BY RingFacts
<1>2. Free < Size
  BY <1>1 DEF RingInv, IInv, SemaphoresCountCells, pop
<1>3. n \in 1 .. Size /\ Size - Free' = n - 1
  BY <1>1, <1>2 DEF pop
<1>4. cells' = cells /\ Direction' = Direction /\ result' = cells[NextReadCell]
  BY DEF pop, mode
<1>5. Contents = ContentsOf(cells, Direction, NextReadCell, n)
  BY ContentsAre
<1>6. Contents' = ContentsOf(cells, Direction, NextReadCell', n - 1)
  BY <1>3, <1>4, NextContentsAre
<1> HIDE DEF n
<1>7. Contents /= <<>>
  BY <1>1, <1>3
<1>8. ASSUME Direction = "FIFO" PROVE result' = Head(Contents) /\ Contents' = Tail(Contents)
  <2>1. NextReadCell' = NextCell(NextReadCell)
    BY <1>8 DEF pop
  <2>2. /\ Head(ContentsOf(cells, "FIFO", NextReadCell, n)) = cells[NextReadCell]
        /\ Tail(ContentsOf(cells, "FIFO", NextReadCell, n)) = ContentsOf(cells, "FIFO", NextCell(NextReadCell), n - 1)
    BY <1>1, <1>3, FifoPop
  <2> QED
    BY <1>4, <1>5, <1>6, <1>8, <2>1, <2>2
<1>9. ASSUME Direction = "LIFO"
      PROVE  result' = Contents[Len(Contents)] /\ Contents' = SubSeq(Contents, 1, Len(Contents) - 1)
  <2>1. NextReadCell' = PreviousCell(NextReadCell)
    BY <1>9 DEF pop
  <2>2. /\ ContentsOf(cells, "LIFO", NextReadCell, n)[n] = cells[NextReadCell]
        /\ SubSeq(ContentsOf(cells, "LIFO", NextReadCell, n), 1, n - 1)
             = ContentsOf(cells, "LIFO", PreviousCell(NextReadCell), n - 1)
    BY <1>1, <1>3, LifoPop
  <2> QED
    BY <1>1, <1>4, <1>5, <1>6, <1>9, <2>1, <2>2
<1> QED
  BY <1>7, <1>8, <1>9

\* Every step of the ring is a step of the bounded queue, or none.
LEMMA StepImplements ==
  ASSUME RingInv, [Next]_vars
  PROVE  RingInv' /\ [Abstract!Next]_Abstract!vars
<1>1. /\ Contents \in Seq(Element) /\ Len(Contents) = Size - Free /\ Free \in 0 .. Size
      /\ Direction \in {"FIFO", "LIFO"} /\ Size \in Nat \ {0}
  BY RingFacts
<1>2. ASSUME NEW v \in Value, push(v)
      PROVE  RingInv' /\ Abstract!Next
  <2>1. Direction' = Direction /\ Blocking' = Blocking /\ result' = result
    BY <1>2 DEF push, mode
  <2>2. CASE Free > 0
    <3>1. Contents' = Append(Contents, v)
      BY <1>2, <2>2, PushIntoFreeCellImplements
    <3>2. overwritten' = NoValue /\ Len(Contents) /= Size
      BY <1>1, <1>2, <2>2 DEF push
    <3>3. Abstract!PushIntoFreeCell(v)
      BY <2>1, <3>1, <3>2 DEF Abstract!PushIntoFreeCell, Abstract!IsFull
    <3> QED
      BY <1>2, <3>3, PushPreservesRingInv DEF Abstract!Next
  <2>3. CASE Free = 0
    <3>1. Abstract!IsFull
      BY <1>1, <2>3 DEF Abstract!IsFull
    <3>2. Abstract!PushOverOldest(v) \/ Abstract!PushOverNewest(v)
      BY <1>2, <2>1, <2>3, <3>1, PushIntoFullImplements DEF Abstract!PushOverOldest, Abstract!PushOverNewest
    <3> QED
      BY <1>2, <3>2, PushPreservesRingInv DEF Abstract!Next
  <2> QED
    BY <1>1, <2>2, <2>3
<1>3. ASSUME pop
      PROVE  RingInv' /\ Abstract!Next
  <2>1. Direction' = Direction /\ Blocking' = Blocking /\ overwritten' = overwritten
    BY <1>3 DEF pop, mode
  <2>2. Abstract!Pop
    BY <1>1, <1>3, <2>1, PopImplements DEF Abstract!Pop
  <2> QED
    BY <1>3, <2>2, PopPreservesRingInv DEF Abstract!Next
<1>4. ASSUME UNCHANGED vars
      PROVE  RingInv' /\ UNCHANGED Abstract!vars
  <2>1. /\ cells' = cells /\ Free' = Free /\ NextReadCell' = NextReadCell /\ NextWriteCell' = NextWriteCell
        /\ Direction' = Direction /\ Blocking' = Blocking /\ result' = result /\ overwritten' = overwritten
    BY <1>4 DEF vars, pointers, mode
  <2>2. Contents' = Contents
    BY <2>1, ContentsAre, NextContentsAre
  <2>3. IInv'
    BY <1>4, StutteringPreservesIInv DEF RingInv
  <2>4. PointersOk' /\ ModeOk'
    BY <2>1 DEF RingInv, PointersOk, ModeOk, NextCell
  <2> QED
    BY <2>1, <2>2, <2>3, <2>4 DEF RingInv, Abstract!vars
<1> QED
  BY <1>2, <1>3, <1>4 DEF Next

\* push() and pop() of the ring are, for one caller at a time, those of the bounded
\* queue of its mode: elements come out once each and in order, and a full queue
\* gives up exactly the element its policy names.
THEOREM RingImplementsBoundedQueue ==
  ASSUME Modes \subseteq OrderedModes
  PROVE  Spec => ImplementsBoundedQueue
<1>1. Init => RingInv /\ Abstract!Init
  <2> SUFFICES ASSUME Init PROVE RingInv /\ Abstract!Init
    OBVIOUS
  <2>1. RingInv
    BY InitEstablishesRingInv
  <2>2. Contents = <<>>
    <3>1. Contents \in Seq(Element) /\ Len(Contents) = 0
      BY <2>1, RingFacts DEF Init
    <3> QED
      BY <3>1
  <2>3. Direction \in {"FIFO", "LIFO"}
        /\ Blocking \in {"BLOCKING", "OVERWRITE_NEWEST", "OVERWRITE_OLDEST", "EXCEPTION"}
    BY <2>1 DEF RingInv, ModeOk
  <2> QED
    BY <2>1, <2>2, <2>3 DEF Init, Abstract!Init, Abstract!Directions, Abstract!Policies
<1>2. RingInv /\ [Next]_vars => RingInv' /\ [Abstract!Next]_Abstract!vars
  BY StepImplements
<1> QED
  BY <1>1, <1>2, PTL DEF Spec, ImplementsBoundedQueue, Abstract!Spec
===============================================================================
