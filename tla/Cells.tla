-------------------------------- MODULE Cells --------------------------------
(***************************************************************************)
(* The bytes of an artefact, one cell for each field, and one for each       *)
(* character of text.  Offsets and sizes count cells, from zero, as the code *)
(* counts bytes; a character is its code point.  What is left out: the width *)
(* of a field and a field cut in its middle, which the code refuses with the *)
(* same tests that refuse one that is not there.                             *)
(***************************************************************************)
EXTENDS Integers, Sequences, FiniteSets

At(data, offset) == data[offset + 1]
Slice(data, from, to) == SubSeq(data, from + 1, to)
Bit(flags, bit) == (flags \div bit) % 2 = 1

\* Where the text at an offset ends: its zero, or the end of the data.
TextEnd(data, offset) ==
  LET zeros == {i \in offset .. Len(data) - 1 : At(data, i) = 0}
  IN  IF zeros = {} THEN Len(data) ELSE CHOOSE i \in zeros : \A j \in zeros : i <= j

Text(data, offset) == Slice(data, offset, TextEnd(data, offset))

\* Text at an offset that was read, not reached: nothing, where it is outside.
TextAt(data, offset) ==
  IF offset <= 0 \/ offset >= Len(data) THEN <<>> ELSE Text(data, offset)

Space == 32
Colon == 58
Backslash == 92
Upper(letter) == IF letter \in 97 .. 122 THEN letter - 32 ELSE letter
IsLetter(c) == Upper(c) \in 65 .. 90
WithoutSlash(name) ==
  IF name # <<>> /\ name[Len(name)] = Backslash THEN SubSeq(name, 1, Len(name) - 1) ELSE name
=============================================================================
