----------------------------- MODULE MCMarshalling -----------------------------
(* Instances of Marshalling for TLC: two elements in a structure, and one         *)
(* behind it.                                                                     *)
EXTENDS Marshalling

Element(id) == [id |-> id, of |-> <<>>]
InStructure ==
    {<<[id |-> "S", of |-> <<Element(a), Element(b)>>], Element(c)>> : a, b, c \in {"o", "s", "l"}}

\* the memory behind a format string ends it at once
NoTail == {<<>>}
================================================================================
