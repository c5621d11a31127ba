--------------------------- MODULE CharacterSequences ---------------------------
(* Texts of a bounded length (CharacterSequence): cells, a size and a zero      *)
(* behind the last character.  Operations leave old characters behind the zero, *)
(* and copy a number of cells, not a number of characters.  Modelled are the    *)
(* operations that the rest of the code builds upon; insert() and contains()    *)
(* are called by nothing.                                                       *)
EXTENDS Naturals, Sequences

CONSTANTS Capacity,             \* ASAAC_OS_MAX_STRING_SIZE
          Chars, Nul,
          Unlimited             \* a length beyond every text

TextsAssumption == Capacity \in Nat /\ Nul \notin Chars /\ Unlimited > 2 * Capacity

VARIABLES text,                 \* [data, size] of the object
          failed                \* an exception has left the object corrupted

textVars == <<text, failed>>

Cells == 0 .. Capacity
Arguments == UNION {[1 .. n -> Chars] : n \in 0 .. Capacity}
Least(a, b) == IF a < b THEN a ELSE b

\* the memory of a new text holds whatever was there
Init ==
    /\ failed = FALSE
    /\ \E data \in [Cells -> Chars \cup {Nul}] : data[0] = Nul /\ text = [data |-> data, size |-> 0]

\* the first cells copied from a function on 1 .. n to a place in the text
Copied(data, place, n, from) ==
    [i \in Cells |-> IF i >= place /\ i < place + n THEN from[i - place + 1] ELSE data[i]]
\* an implementation that leaves the zero to the source of the copy
Bug_Terminated(data, size) == [data |-> data, size |-> size]

Terminated(data, size) == [data |-> [data EXCEPT ![size] = Nul], size |-> size]

--------------------------------------------------------------------------------
append(t, s) ==
    LET max_size == Least(Len(s), Capacity - t.size)
    IN  Terminated(Copied(t.data, t.size, max_size, s), t.size + max_size)

\* what is left of an argument from a position on, for a length
Length(s, begin_pos, len) ==
    IF len > Unlimited - begin_pos \/ len + begin_pos > Len(s) THEN Len(s) - begin_pos ELSE len

assign(t, s, begin_pos, len) ==
    IF begin_pos >= Len(s) THEN Terminated(t.data, 0)
    ELSE LET n == Length(s, begin_pos, len)
         IN  Terminated(Copied(t.data, 0, n, [i \in 1 .. n |-> s[begin_pos + i]]), n)

\* min( End, m_Size ) + 1 adds only to the second alternative
End(t, end) == IF end < t.size THEN end ELSE t.size + 1

\* the cells behind the text belong to the size, and stay behind the zero
Behind(t, i) == IF i \in Cells THEN t.data[i] ELSE Nul
Corrupts(t, start, end) == start < t.size /\ end >= start /\ End(t, end) - start > t.size
erase(t, start, end) ==
    IF start >= t.size \/ end < start THEN t
    ELSE LET move_size == End(t, end) - start
         IN  Terminated(Copied(t.data, start, move_size, [i \in 1 .. move_size |-> Behind(t, End(t, end) + i - 1)]),
                        t.size - move_size)

\* one pass over the text: a mismatch starts the pattern anew with the next character
Position(t, s, begin_pos) ==
    LET matched[i \in Nat] ==       \* characters of the pattern that end in front of position i
            IF i <= begin_pos THEN 0
            ELSE IF matched[i - 1] < Len(s) /\ t.data[i - 1] = s[matched[i - 1] + 1] THEN matched[i - 1] + 1 ELSE 0
        whole == {i \in begin_pos + 1 .. t.size :
                    matched[i] = Len(s) /\ \A j \in begin_pos + 1 .. i - 1 : matched[j] # Len(s)}
    IN  {i - Len(s) : i \in whole}
find(t, s, begin_pos) == IF Len(s) = 0 THEN {} ELSE Position(t, s, begin_pos)

convertTo(t, begin_pos, len) ==
    [i \in 1 .. Least(t.size, len) |-> Behind(t, begin_pos + i - 1)]

--------------------------------------------------------------------------------
(* The characters up to the zero, as strcmp() and the output of a text see it.  *)
Text(t) == [i \in 1 .. t.size |-> t.data[i - 1]]

Extend == \E s \in Arguments : text' = append(text, s)
Assign == \E s \in Arguments, b \in Cells, n \in Cells \cup {Unlimited} : text' = assign(text, s, b, n)
Erase ==
    \E start, end \in Cells :
        /\ ~Corrupts(text, start, end)
        /\ text' = erase(text, start, end)

Edit == ~failed /\ UNCHANGED failed /\ (Extend \/ Assign \/ Erase)

(* m_Size wraps around, and checkIntegrity() throws.                            *)
Corrupt ==
    /\ ~failed /\ (\E start, end \in Cells : Corrupts(text, start, end))
    /\ failed' = TRUE
    /\ UNCHANGED text

Next == Edit \/ Corrupt

Spec == Init /\ [][Next]_textVars

--------------------------------------------------------------------------------
(* What the callers rely on.  A text holds what was assigned and appended, cut  *)
(* at the capacity, whatever it held before; the front of a text up to its      *)
(* middle can be erased, as far as the end it cannot; a single character is     *)
(* found at its first position, and where a longer pattern is found it is; and  *)
(* a part of a text is what was asked for.                                      *)
Cut(s) == SubSeq(s, 1, Least(Len(s), Capacity))

EditsAreExact ==
    /\ text.data[text.size] = Nul
    /\ \A s \in Arguments :
        /\ Text(append(text, s)) = Cut(Text(text) \o s)
        /\ \A b \in Cells, n \in Cells \cup {Unlimited} :
              Text(assign(text, s, b, n)) = SubSeq(s, b + 1, Least(b + n, Len(s)))
    /\ \A k \in Cells : k < text.size /\ text.size <= 2 * k =>
        Text(erase(text, 0, k)) = SubSeq(Text(text), k + 1, text.size)
    /\ \A c \in Chars, b \in Cells :
        LET all == {i \in b .. text.size - 1 : text.data[i] = c}
        IN  find(text, <<c>>, b) = {i \in all : \A j \in all : i <= j}
    /\ \A s \in Arguments, b \in Cells :
        \A i \in find(text, s, b) : SubSeq(Text(text), i + 1, i + Len(s)) = s
    /\ \A b, n \in Cells :
        (b = 0 \/ b + n <= text.size) => convertTo(text, b, n) = SubSeq(Text(text), b + 1, Least(b + n, text.size))

=================================================================================
