----------------------------- MODULE DiskLayout -----------------------------
(***************************************************************************)
(* internal/partition: the drive layout and the boot record an event         *)
(* carries.  A partition entry is seven cells: style, offset, length,        *)
(* number, type, identifier, name.                                           *)
(***************************************************************************)
EXTENDS Cells

LayoutHeader == 3   \* style, count, identity of the disk
EntrySize == 7
Styles == <<"mbr", "gpt", "raw">>

\* decodeEntry: no partition, where the style is none there is.
Undecoded == [is |-> "undecoded"]
DecodeEntry(raw) ==
  LET gpt == At(raw, 0) = 1 IN
  IF At(raw, 0) > 2 THEN Undecoded
  ELSE [is |-> "partition", offset |-> At(raw, 1), length |-> At(raw, 2), number |-> At(raw, 3),
        mbrType |-> IF At(raw, 0) = 0 THEN At(raw, 4) ELSE 0,
        guid |-> IF gpt THEN At(raw, 5) ELSE 0, name |-> IF gpt THEN At(raw, 6) ELSE 0]

\* Mutant: a count is cut to what the bytes hold without a word.
ClampCount(declared, available) == [count |-> IF declared > available THEN available ELSE declared,
                                    warned |-> {}]

\* The entries that are read of those that are declared.
Believed(declared, available) ==
  IF declared > available
  THEN [count |-> available, warned |-> {"declares more partitions than it holds"}]
  ELSE [count |-> declared, warned |-> {}]

\* DecodeLayout.
DecodeLayout(raw) ==
  LET style == Styles[At(raw, 0) + 1]
      believed == Believed(At(raw, 1), (Len(raw) - LayoutHeader) \div EntrySize)
      entry(i) == LET start == LayoutHeader + (i - 1) * EntrySize
                  IN  DecodeEntry(Slice(raw, start, start + EntrySize))
      decoded == {i \in 1 .. believed.count : entry(i) # Undecoded}
      empty == {i \in decoded : entry(i).length = 0 /\ entry(i).guid = 0}
  IN  IF Len(raw) < LayoutHeader \/ At(raw, 0) > 2 THEN [is |-> "error"]
      ELSE [is |-> "layout", style |-> style, declared |-> At(raw, 1),
            identity |-> IF style = "raw" THEN 0 ELSE At(raw, 2),
            partitions |-> [i \in decoded \ empty |-> entry(i)], emptySlots |-> Cardinality(empty),
            warnings |-> believed.warned
              \cup (IF decoded # 1 .. believed.count THEN {"an entry does not decode"} ELSE {})]

\* MBRSignature, of a sector: whether it is a whole one, its two last bytes, the
\* signature.  A sector that is shorter is not held to the last bytes it lacks.
MBRSignature(sector) ==
  IF sector.length < 2 \/ (sector.length >= 3 /\ ~sector.marked) THEN 0 ELSE sector.signature

\* DisksFromEvents, of one record: a disk, where the record carries either form.
DiskOf(layout, sector) ==
  LET decoded == DecodeLayout(layout) IN
  [signature |-> MBRSignature(sector),
   layout |-> IF layout = <<>> THEN [is |-> "none"] ELSE decoded,
   warnings |-> IF layout = <<>> THEN {}
                ELSE IF decoded.is = "error" THEN {"drive layout did not decode"} ELSE decoded.warnings]
=============================================================================
