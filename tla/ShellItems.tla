------------------------------ MODULE ShellItems ------------------------------
(***************************************************************************)
(* internal/shellitem: the shell items that name a place, in a list or one   *)
(* at a time.  Of the well-known folders one is enough; sizes, attributes    *)
(* and the short name are left out.                                          *)
(***************************************************************************)
EXTENDS Cells, WinTime

extensionSignature == 4004
knownFolders == [g \in {901} |-> <<84, 80>>]   \* This PC
NameFor(guid) == IF guid \in DOMAIN knownFolders THEN knownFolders[guid] ELSE <<guid>>

Item(kind, name) ==
  [kind |-> kind, name |-> name, letter |-> 0, modified |-> NoClock, created |-> NoClock,
   accessed |-> NoClock, reference |-> 0, warnings |-> {}]
Warned(item, what) == [item EXCEPT !.warnings = @ \cup {what}]

Class(type, mask, value) == (type \div 16) % mask = value

-----------------------------------------------------------------------------
(* One kind of item each.  The body starts with the type.                   *)

RootFolder(body) ==
  IF Len(body) < 2 THEN Warned(Item("root_folder", <<>>), "root folder item is too short")
  ELSE Item("root_folder", NameFor(At(body, 1)))

\* 0x2F holds the mount point as text; any other volume a class identifier.
Volume(body) ==
  LET name == Text(body, 1) IN
  IF At(body, 0) = 47
  THEN [Item("volume", name) EXCEPT !.letter =
          IF Len(name) >= 2 /\ name[2] = Colon THEN Upper(name[1]) ELSE 0]
  ELSE IF Len(body) >= 2 THEN Item("volume", NameFor(At(body, 1))) ELSE Item("volume", <<>>)

Network(body) ==
  IF Len(body) < 3 THEN Warned(Item("network", <<>>), "network item is too short")
  ELSE Item("network", Text(body, 2))

\* locateExtension: where the item says, or after its name, or nowhere.
HasSignature(body, offset) ==
  offset >= 0 /\ offset + 3 <= Len(body) /\ At(body, offset + 2) = extensionSignature
LocateExtension(body, nameEnd) ==
  LET stored == At(body, Len(body) - 1) - 1 IN
  IF HasSignature(body, stored) THEN stored
  ELSE IF HasSignature(body, nameEnd) THEN nameEnd ELSE -1

\* parseExtension: times, the file reference of version 7, and the long name.
Said[block \in Seq(Int)] ==
  LET version == At(block, 1)
      timed == Len(block) >= 6
      referred == timed /\ (version >= 7 => Len(block) >= 9)
      position == (IF version >= 7 THEN 9 ELSE 6) + (IF version >= 3 THEN 1 ELSE 0)
  IN  [created |-> IF timed THEN FromDOSDateTime(At(block, 3)) ELSE NoClock,
       accessed |-> IF timed THEN FromDOSDateTime(At(block, 4)) ELSE NoClock,
       reference |-> IF referred /\ version >= 7 THEN At(block, 7) ELSE 0,
       name |-> IF referred /\ position < Len(block) THEN Text(block, position) ELSE <<>>,
       warnings |-> IF ~timed THEN {"extension block is too short"}
                    ELSE IF ~referred THEN {"extension block is too short for a file reference"}
                    ELSE IF version >= 3 /\ position > Len(block)
                    THEN {"extension block ends before its long name"} ELSE {}]
Extension(item, body, nameEnd) ==
  LET offset == LocateExtension(body, nameEnd)
      said == Said[Slice(body, offset, Len(body))]
  IN  IF offset = -1 THEN item
      ELSE [item EXCEPT !.created = said.created, !.accessed = said.accessed, !.reference = said.reference,
              !.name = IF said.name = <<>> THEN @ ELSE said.name, !.warnings = @ \cup said.warnings]

FileEntry(body) ==
  LET end == TextEnd(body, 4)
      item == [Item("file_entry", Text(body, 4)) EXCEPT !.modified = FromDOSDateTime(At(body, 2))]
  IN  IF Len(body) < 5 THEN Warned(Item("file_entry", <<>>), "file entry is too short")
      ELSE Extension(item, body, IF end = Len(body) THEN end ELSE end + 1)

\* parseItem.
ReadItem(body) ==
  LET type == At(body, 0) IN
  CASE type = 31 -> RootFolder(body)
    [] Class(type, 16, 2) -> Volume(body)
    [] Class(type, 8, 3) -> FileEntry(body)
    [] Class(type, 16, 4) -> Network(body)
    [] Class(type, 16, 6) -> Item("uri", <<>>)
    [] Class(type, 16, 7) -> Item("control_panel", <<>>)
    [] OTHER -> Item("unknown", <<>>)

\* ParseItem: an item alone, which may be padded.  An impossible size is an error.
Refused(why) == [is |-> "error", why |-> why]
ParseItem(data) ==
  IF Len(data) < 2 THEN Refused("empty shell item list")
  ELSE IF At(data, 0) < 2 THEN Refused("smaller than the size field")
  ELSE LET fits == At(data, 0) <= Len(data)
           body == Slice(data, 1, IF fits THEN At(data, 0) ELSE Len(data))
       IN  [is |-> "item",
            item |-> [ReadItem(body) EXCEPT
                        !.warnings = @ \cup (IF fits THEN {} ELSE {"the item is truncated"})]]

-----------------------------------------------------------------------------
(* Lists.                                                                   *)

List(items, truncated, warnings) ==
  [is |-> "list", items |-> items, truncated |-> truncated, warnings |-> warnings]

\* Mutant: an item that does not fit is read to the end of what there is.
ClampedItems(data) ==
  LET From[offset \in 0 .. Len(data) + 1] ==
        IF offset + 1 > Len(data) THEN List(<<>>, TRUE, {})
        ELSE LET size == At(data, offset)
                 end == IF offset + size > Len(data) THEN Len(data) ELSE offset + size
                 rest == From[end]
             IN  IF size < 2 \/ end < offset + 2 THEN List(<<>>, FALSE, {})
                 ELSE [rest EXCEPT !.items = <<ReadItem(Slice(data, offset + 1, end))>> \o @]
  IN  IF Len(data) < 1 THEN Refused("empty shell item list") ELSE From[0]

\* Parse: the items up to the terminator, or up to one that does not fit.
ParseItems(data) ==
  LET From[offset \in 0 .. Len(data)] ==
        IF offset + 1 > Len(data) THEN List(<<>>, TRUE, {})
        ELSE LET size == At(data, offset)
                 rest == From[offset + size]
             IN  IF size = 0 THEN List(<<>>, FALSE, {})
                 ELSE IF size < 2 \/ offset + size > Len(data)
                 THEN List(<<>>, TRUE, {"an item does not fit what is left"})
                 ELSE [rest EXCEPT !.items =
                         <<ReadItem(Slice(data, offset + 1, offset + size))>> \o @]
  IN  IF Len(data) < 1 THEN Refused("empty shell item list") ELSE From[0]

Named(items) == SelectSeq(items, LAMBDA item : item.name # <<>>)
PathOf(items) == [k \in DOMAIN Named(items) |-> WithoutSlash(Named(items)[k].name)]
HasGap(items) == \E k \in DOMAIN items : items[k].name = <<>>
LetterOf(items) ==
  LET lettered == SelectSeq(items, LAMBDA item : item.letter # 0)
  IN  IF lettered = <<>> THEN 0 ELSE lettered[Len(lettered)].letter
=============================================================================
