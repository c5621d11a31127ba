------------------------------ MODULE Marshalling ------------------------------
(* Typed messages between the memory of an application and the representation   *)
(* on the network (CDR): MarshallingFilter and UnMarshallingFilter of two       *)
(* computers, with MarshallingProcessor and CDRDataBlock, which both run.       *)
(*                                                                              *)
(* A format string is the sequence of its elements [id, of]: `of' is the format *)
(* inside an "S" or a branch of a "U", and empty otherwise; a count in front of *)
(* an element stands for that many elements.  Memory and block are functions    *)
(* from offsets to cells [id, value]; the processor turns the bytes of every    *)
(* cell into network order and back, so that their order does not show.         *)
EXTENDS Naturals, FiniteSetsExt, SequencesExt

CONSTANTS Formats,              \* formats of messages
          Longs,                \* sizes of a long: 4 or 8 bytes
          Values,               \* values of enumerators
          EnumRange,            \* what two bytes hold
          Tails                 \* elements that the memory behind a format string may look like

LongsAssumption == Longs \subseteq {4, 8}

VARIABLES sender, receiver,     \* the size of a long on the two computers
          format, tail,
          enumerator,           \* the value of every enumerator of the message
          at,                   \* "sent", "marshalled", "delivered" or "failed"
          block,                \* [cells, size] of the message on the network
          delivered             \* memory given to the receiving application

vars == <<sender, receiver, format, tail, enumerator, at, block, delivered>>

NoCells == <<>>
Garbage == 0
Content(cells, offset, id) ==
    IF offset \in DOMAIN cells /\ cells[offset].id = id THEN cells[offset].value ELSE Garbage
Put(cells, offset, id, value) == (offset :> [id |-> id, value |-> value]) @@ cells

Init ==
    /\ sender \in Longs /\ receiver \in Longs /\ format \in Formats /\ tail \in Tails /\ enumerator \in Values
    /\ at = "sent" /\ block = [cells |-> NoCells, size |-> 0] /\ delivered = NoCells

--------------------------------------------------------------------------------
(* Sizes and alignments, as MarshallingProcessor computes them: no padding at   *)
(* the end of a structure.                                                      *)
alignedOffset(offset, alignment) == offset + ((alignment - (offset % alignment)) % alignment)

\* the parser reads on behind the string, and an element it does not know, as a padding byte, ends the format
findNextElements(f) ==
    LET read == f \o tail
        unknown == {i \in DOMAIN read : read[i].id = "x"}
    IN  IF unknown = {} THEN read ELSE SubSeq(read, 1, Min(unknown) - 1)

Primitive(long) == [o |-> 1, s |-> 2, l |-> long, e |-> long, L |-> 8, f |-> 4, d |-> 8, D |-> 16]

(* getUnionSize and getUnionAlign split the text of a union at every "|" and     *)
(* erase one branch after the other from it.  The last erase() is to leave      *)
(* nothing, takes one character more than there is, and throws: see Corrupts of *)
(* CharacterSequences.  So a format with a union is no format.                  *)
RECURSIVE Throws(_)
Throws(f) ==
    \E i \in DOMAIN findNextElements(f) :
        LET e == findNextElements(f)[i] IN e.id = "U" \/ (e.id = "S" /\ Throws(e.of))

RECURSIVE getStructSize(_, _), getStructAlign(_, _)

\* an implementation that takes an enumerator for as long as it is in the block
Bug_getElementSize(long, e) ==
    CASE e.id = "S" -> getStructSize(long, e.of)
      [] e.id = "e" -> 2
      [] OTHER -> Primitive(long)[e.id]

getElementSize(long, e) ==
    CASE e.id = "S" -> getStructSize(long, e.of)
      [] OTHER -> Primitive(long)[e.id]

getElementAlign(long, e) ==
    CASE e.id = "S" -> getStructAlign(long, e.of)
      [] OTHER -> Primitive(long)[e.id]

Place(long, next, e) == alignedOffset(next, getElementAlign(long, e))

getStructSize(long, f) ==
    FoldLeft(LAMBDA next, e : Place(long, next, e) + getElementSize(long, e), 0, findNextElements(f))

getStructAlign(long, f) ==
    Max({1} \union {getElementAlign(long, findNextElements(f)[i]) : i \in DOMAIN findNextElements(f)})

--------------------------------------------------------------------------------
(* The block: every element is aligned to its own size there.                   *)
Width == [o |-> 1, s |-> 2, l |-> 4, L |-> 8, e |-> 2]
Unsupported == {"f", "d", "D"}

\* an implementation that pads an aligned element too
Bug_jumpToAlign(index, width) == index + (width - (index % width))

jumpToAlign(index, width) == index + ((width - (index % width)) % width)

\* a position in a block of a size: ok falls when the end is passed
Advance(cursor, id) ==
    LET index == jumpToAlign(cursor.index, Width[id]) + Width[id]
    IN  [cursor EXCEPT !.index = index, !.ok = @ /\ index <= cursor.size]

setNext(w, id, value) ==
    LET next == Advance(w, id)
    IN  IF ~next.ok THEN next
        ELSE [next EXCEPT !.cells = Put(w.cells, next.index - Width[id], id,
                                        IF id = "e" THEN value % EnumRange ELSE value)]

getNext(r, id) == Content(r.cells, Advance(r, id).index - Width[id], id)

RECURSIVE writeStruct(_, _, _, _, _), readStruct(_, _, _, _)

writeElement(long, e, memory, start, w) ==
    CASE ~w.ok -> w
      [] w.ok /\ e.id = "S" -> writeStruct(long, e.of, memory, start, w)
      [] w.ok /\ e.id \in Unsupported -> [w EXCEPT !.ok = FALSE]
      [] OTHER -> setNext(w, e.id, Content(memory, start, e.id))

writeStruct(long, f, memory, start, w) ==
    FoldLeft(LAMBDA so, e :
                LET here == Place(long, so.next, e)
                IN  [next |-> here + getElementSize(long, e), w |-> writeElement(long, e, memory, here, so.w)],
             [next |-> start, w |-> w], findNextElements(f)).w

readElement(long, e, start, r) ==
    CASE ~r.ok -> r
      [] r.ok /\ e.id = "S" -> readStruct(long, e.of, start, r)
      \* two bytes are read for a floating-point number, which no sender writes
      [] r.ok /\ e.id \in Unsupported -> Advance(r, "s")
      [] OTHER -> [Advance(r, e.id) EXCEPT !.memory = Put(r.memory, start, e.id, getNext(r, e.id))]

readStruct(long, f, start, r) ==
    FoldLeft(LAMBDA so, e :
                LET here == Place(long, so.next, e)
                IN  [next |-> here + getElementSize(long, e), r |-> readElement(long, e, here, so.r)],
             [next |-> start, r |-> r], findNextElements(f)).r

--------------------------------------------------------------------------------
(* What the applications mean: the layout of a C compiler, in which a structure *)
(* is padded to its alignment and all branches of a union start at one offset.  *)
(* The n-th element of a message has the value n, its enumerators `enumerator'. *)
RECURSIVE Alignment(_, _), Extent(_, _), Store(_, _, _, _)

OfElement(long, e) ==
    IF e.id = "S" THEN [size |-> Extent(long, e.of), align |-> Alignment(long, e.of)]
    ELSE [size |-> Primitive(long)[e.id], align |-> Primitive(long)[e.id]]

Offset(long, next, e) == alignedOffset(next, OfElement(long, e).align)
Alignment(long, f) == Max({1} \union {OfElement(long, f[i]).align : i \in DOMAIN f})
Extent(long, f) ==
    alignedOffset(FoldLeft(LAMBDA next, e : Offset(long, next, e) + OfElement(long, e).size, 0, f),
                  Alignment(long, f))

StoreElement(long, e, here, memory) ==
    CASE e.id = "S" -> Store(long, e.of, here, memory)
      [] e.id = "e" -> Put(memory, here, "e", enumerator)
      [] OTHER -> Put(memory, here, e.id, Cardinality(DOMAIN memory) + 1)

Store(long, f, start, memory) ==
    FoldLeft(LAMBDA so, e :
                LET here == Offset(long, so.next, e)
                IN  [next |-> here + OfElement(long, e).size, memory |-> StoreElement(long, e, here, so.memory)],
             [next |-> start, memory |-> memory], f).memory

Message(long) == Store(long, format, 0, NoCells)

--------------------------------------------------------------------------------
\* the buffer of the filter holds 4/3 of the message; the stages before the end of it take no time
writeToCDR(length) ==
    LET empty == [cells |-> NoCells, index |-> 0, ok |-> getStructSize(sender, format) <= length,
                  size |-> (4 * length) \div 3 + 1]
    IN  writeStruct(sender, format, Message(sender), 0, empty)

MarshallingFilter ==
    /\ at = "sent"
    /\ IF Throws(format)
       THEN at' = "failed" /\ UNCHANGED block
       ELSE LET w == writeToCDR(Extent(sender, format))
            IN  /\ at' = IF w.ok THEN "marshalled" ELSE "failed"
                /\ block' = [cells |-> w.cells, size |-> w.index]
    /\ UNCHANGED <<sender, receiver, format, tail, enumerator, delivered>>

readFromCDR ==
    readStruct(receiver, format, 0,
               [cells |-> block.cells, index |-> 0, ok |-> TRUE, size |-> block.size, memory |-> NoCells])

UnMarshallingFilter ==
    /\ at = "marshalled"
    /\ at' = IF readFromCDR.ok THEN "delivered" ELSE "failed"
    /\ delivered' = readFromCDR.memory
    /\ UNCHANGED <<sender, receiver, format, tail, enumerator, block>>

Next == MarshallingFilter \/ UnMarshallingFilter

Spec == Init /\ [][Next]_vars

--------------------------------------------------------------------------------
(* The receiving application finds the message the sender meant, in the layout  *)
(* of its own compiler, and the buffer of the filter is large enough: only a    *)
(* floating-point element or a union makes a message fail (MarshallingFilter    *)
(* and UnMarshallingFilter::processVcMessage).                                  *)
Fails(f) == \E i \in DOMAIN f : f[i].id \in Unsupported \cup {"U"}

MessagesArrive ==
    /\ at = "failed" => Fails(format)
    /\ at = "delivered" => delivered = Message(receiver)

================================================================================
