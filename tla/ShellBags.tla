------------------------------ MODULE ShellBags ------------------------------
(***************************************************************************)
(* internal/registry/shellbags.go: the tree of folders a user displayed, and *)
(* the lists of what was opened last.  A tree is its keys, each named by the *)
(* numbers on the way to it, and the item stored for each at its parent.     *)
(***************************************************************************)
EXTENDS ShellItems

maxBagDepth == 4

\* What an item says of a key, under a parent with a path and a letter.
Bag(node, path, gap, letter, item, position, warnings) ==
  [node |-> node, path |-> path, gap |-> gap, letter |-> letter, modified |-> item.modified,
   reference |-> item.reference, position |-> position, warnings |-> warnings]
NoItem == Item("", <<>>)

\* decodeMRUListEx, and the position of each entry in it.
Terminator == 65535
Order(list) ==
  LET ends == {k \in DOMAIN list : list[k] = Terminator}
      before == {k \in DOMAIN list : \A e \in ends : k < e}
  IN  [n \in {list[k] : k \in before} |->
         CHOOSE p \in {k - 1 : k \in before} : list[p + 1] = n
                 /\ \A k \in before : list[k] = n => k - 1 <= p]
PositionOf(list, n) == IF n \in DOMAIN Order(list) THEN Order(list)[n] ELSE -1

\* Mutant: a key whose item cannot be read passes for its parent.
BagWithItemOnly(tree, node, parentPath, letter) ==
  LET read == ParseItem(tree[node].item) IN
  IF tree[node].item = <<>> \/ read.is = "error"
  THEN Bag(node, parentPath, FALSE, letter, NoItem, -1, {})
  ELSE Bag(node, Append(parentPath, WithoutSlash(read.item.name)), read.item.name = <<>>, letter,
           read.item, -1, read.item.warnings)

\* applyItem, or what is said where no item can be read.
BagOf(tree, node, parentPath, letter) ==
  LET parent == SubSeq(node, 1, Len(node) - 1)
      position == PositionOf(tree[parent].order, node[Len(node)])
      read == ParseItem(tree[node].item)
      unnamed(item, warnings) == Bag(node, parentPath, TRUE,
        IF item.letter # 0 THEN item.letter ELSE letter, item, position, warnings)
  IN  IF tree[node].item = <<>> THEN unnamed(NoItem, {"no shell item is stored"})
      ELSE IF read.is = "error" THEN unnamed(NoItem, {read.why})
      ELSE IF read.item.name = <<>> THEN unnamed(read.item, read.item.warnings)
      ELSE [unnamed(read.item, read.item.warnings) EXCEPT !.gap = FALSE,
              !.path = Append(parentPath, WithoutSlash(read.item.name))]

\* walkBags: every key, with the path and the letter of those above it.
WalkBags(tree) ==
  LET Read[node \in DOMAIN tree] ==
        IF node = <<>> THEN Bag(node, <<>>, FALSE, 0, NoItem, -1, {})
        ELSE LET parent == Read[SubSeq(node, 1, Len(node) - 1)]
             IN  BagOf(tree, node, parent.path, parent.letter)
      limit(node) == Bag(node, Read[node].path, FALSE, 0, NoItem, -1, {"not followed further"})
  IN  {Read[node] : node \in {n \in DOMAIN tree : Len(n) \in 1 .. maxBagDepth + 1}}
        \cup {limit(node) : node \in {n \in DOMAIN tree : Len(n) = maxBagDepth + 1}}

-----------------------------------------------------------------------------
(* The lists.  A value is its name and its data.                            *)

Open == 40
Close == 41
shellCaptions == {<<76, 68>>}    \* Local Disk, and the like

\* applyDriveRootName: the letter and the label of a name that shows a drive root.
RootOf(name) ==
  LET n == Len(name)
      bare == n \in {2, 3} /\ (n = 3 => name[3] = Backslash) /\ name[2] = Colon /\ IsLetter(name[1])
      shown == /\ n > 5 /\ name[n] = Close /\ name[n - 1] = Colon /\ IsLetter(name[n - 2])
               /\ name[n - 3] = Open /\ name[n - 4] = Space
      label == SubSeq(name, 1, n - 5)
  IN  IF bare THEN [letter |-> Upper(name[1]), label |-> <<>>]
      ELSE IF ~shown THEN [letter |-> 0, label |-> <<>>]
      ELSE [letter |-> Upper(name[n - 2]), label |-> IF label \in shellCaptions THEN <<>> ELSE label]

Entry(kind, value, position) ==
  [kind |-> kind, value |-> value, position |-> position, name |-> <<>>, path |-> <<>>,
   gap |-> FALSE, letter |-> 0, label |-> <<>>, fromName |-> FALSE, modified |-> NoClock, warnings |-> {}]

\* applyItems: a path only from items that named something.
ApplyItems(entry, raw) ==
  LET list == ParseItems(raw) IN
  IF list.is = "error" \/ PathOf(list.items) = <<>> THEN entry
  ELSE [entry EXCEPT !.path = PathOf(list.items), !.gap = HasGap(list.items),
          !.letter = LetterOf(list.items), !.modified = list.items[Len(list.items)].modified,
          !.warnings = list.warnings
            \cup (IF list.truncated THEN {"the path is a prefix"} ELSE {})]

\* A value as its text and the items after its text (applyTrailingItems).
Parted(v) ==
  LET end == TextEnd(v.data, 0)
      after == IF end = Len(v.data) THEN end ELSE end + 1
  IN  [name |-> v.name, data |-> v.data, text |-> Text(v.data, 0),
       rest |-> IF after >= Len(v.data) THEN <<>> ELSE Slice(v.data, after, Len(v.data))]

\* Mutant: the letter in a name takes the place of the one the items gave.
NameOverItems(entry) ==
  LET root == RootOf(entry.name) IN
  IF root.letter = 0 THEN entry
  ELSE [entry EXCEPT !.letter = root.letter, !.fromName = entry.letter = 0, !.label = root.label]

ApplyDriveRootName(entry) ==
  LET root == RootOf(entry.name) IN
  IF root.letter = 0 THEN entry
  ELSE [entry EXCEPT !.letter = IF @ = 0 THEN root.letter ELSE @,
          !.fromName = entry.letter = 0, !.label = root.label]

\* readRecentDocsKey and readDialogKey: every value that holds anything.
ReadList(kind, order, values) ==
  LET held == {Parted(v) : v \in {u \in values : u.data # <<>>}}
      blank(v) == Entry(kind, v.name, PositionOf(order, v.name))
      named == {ApplyItems([blank(v) EXCEPT !.name = v.text], v.rest) : v \in held}
      listed == {ApplyItems(blank(v), v.data) : v \in held}
  IN  IF kind \in {"recent_doc", "last_visited"}
      THEN {IF kind = "recent_doc" THEN ApplyDriveRootName(entry) ELSE entry : entry \in named}
      ELSE {IF entry.path = <<>> THEN entry
            ELSE [entry EXCEPT !.name = entry.path[Len(entry.path)]] : entry \in listed}
=============================================================================
