----------------------------- MODULE MCArtefacts -----------------------------
(* Small artefacts for TLC, a cell for each field.                          *)
EXTENDS Artefacts

\* DOS dates: 10 and 29 February and 31 April 2023, 29 February 2024, and an empty one.
day10 == 43 * 512 + 2 * 32 + 10
Sized(body) == <<Len(body) + 1>> \o body
Zero(text) == Append(text, 0)

-----------------------------------------------------------------------------
(* Shell items.                                                             *)

\* A file entry, with an extension of a version: the short name and the long one.
Block(version, long) ==
  LET fields == <<version, 4004, day10, 0, 0>> \o (IF version >= 7 THEN <<0, 77, 0>> ELSE <<>>)
                  \o (IF version >= 3 THEN <<0>> ELSE <<>>) \o Zero(long)
  IN  Sized(fields)
Folder(date, short, version, long) ==
  LET names == <<49, 0, date, 16>> \o Zero(short)
  IN  Sized(names \o Block(version, long) \o <<Len(names) + 1>>)
PlainFolder(date, short) == Sized(<<50, 0, date, 32>> \o Zero(short))
ThisPC == Sized(<<31, 901>>)
Drive == Sized(<<47, 69, 58, 92, 0>>)
Share == Sized(<<65, 0, 88, 0>>)
Nameless == Sized(<<112, 1>>)

PathItems == ThisPC \o Drive \o Folder(day10, <<65>>, 9, <<65, 98>>)
                \o Folder(day10 + 19, <<67>>, 3, <<67, 100>>) \o <<0>>
OldItems == Share \o PlainFolder(43 * 512 + 4 * 32 + 31, <<70>>) \o Nameless
                \o Folder(44 * 512 + 2 * 32 + 29, <<71>>, 2, <<72>>) \o <<0>>
MCItemLists ==
  {[data |-> PathItems, places |-> {0, 3, 9}, unsaid |-> {0}],
   [data |-> OldItems, places |-> {0, 5}, unsaid |-> {0}]}

-----------------------------------------------------------------------------
(* Links.                                                                   *)

IDs == ThisPC \o Drive \o Folder(day10, <<65>>, 9, <<65, 98>>) \o <<0>>
\* Link info with a volume, a local path and a suffix; with a share; and the longer one.
LocalInfo == Sized(<<7, 1, 7, 13, 0, 16>> \o <<6, 2, 555, 4, 90, 0>> \o <<69, 58, 0>> \o <<66, 0>>)
NetInfo == Sized(<<7, 2, 0, 0, 7, 14>> \o <<7, 0, 5, 0, 0, 80, 0>> \o <<66, 0>>)
WideInfo == Sized(<<10, 3, 10, 17, 23, 30, 19, 30, 0>> \o <<7, 2, 556, 5, 5, 81, 0>> \o <<69, 0>>
                    \o <<69, 58, 200, 0>> \o <<7, 0, 6, 0, 0, 6>> \o <<82>> \o <<66, 0>>)
Tracker == Sized(<<3003, 0, 0, 41, 42, 43>>)
OtherBlock == Sized(<<3001, 9>>)

Shell(flags, body) == <<76, 21401, flags, 2500, 2600, 0>> \o body
LinkSample(flags, body, blocks, places) ==
  LET extraAt(k) == 6 + Len(body) + Len(FlattenSeq(SubSeq(blocks, 1, k - 1)))
  IN  [data |-> Shell(flags, body) \o FlattenSeq(blocks) \o <<0>>, places |-> places,
       unsaid |-> UNION {{extraAt(k), extraAt(k) + 1} : k \in DOMAIN blocks}]
\* Of the info: its size, its header's, and every offset of the header, of the volume and of
\* the share that the info has.
InfoPlaces(start, header, volume, share) == {start + k : k \in {0, 1} \cup header \cup volume \cup share}
LocalLink == LinkSample(1 + 2 + 4 + 8 + 128,
  <<Len(IDs)>> \o IDs \o LocalInfo \o <<1, 68>> \o <<2, 46, 46>>, <<OtherBlock, Tracker>>,
  {6} \cup InfoPlaces(6 + Len(IDs) + 1, {3, 4, 6}, {7, 10}, {}))
NetLink == LinkSample(2 + 16 + 32 + 64, NetInfo \o <<1, 200>> \o <<1, 47>> \o <<0>>, <<Tracker>>,
  {6 + Len(NetInfo)} \cup InfoPlaces(6, {5, 6}, {}, {7, 9}))
WideLink == LinkSample(2 + 8 + 128, WideInfo \o <<3, 70, 58, 92>>, <<>>,
  InfoPlaces(6, 3 .. 8, {10, 13, 14}, {23, 25, 28}))
BareLink == LinkSample(0, <<>>, <<Tracker>>, {6})
MCLinks == {LocalLink, NetLink, WideLink, BareLink}

MCCustomFiles ==
  {[data |-> <<5, 5>> \o NetLink.data \o <<9>> \o BareLink.data \o <<76, 21401>>, unsaid |-> {},
    places |-> {2 + 6, 2 + 6 + Len(NetInfo), 2 + Len(NetLink.data) + 1 + 6}]}

-----------------------------------------------------------------------------
(* Prefetch files: a version, where the volumes are, how many, in how much.  *)

VolumeEntry(entry, pathAt, chars, made, serial) == <<pathAt, chars, made, serial>> \o [k \in 1 .. entry - 4 |-> 0]
\* The times, and the block after them: two volumes, and their paths after those.
Prefetched(version, slots, times, entry) ==
  LET head == IF version = 1 THEN 5 ELSE 6
      block == VolumeEntry(entry, 2 * entry, 2, 3000, 701) \o VolumeEntry(entry, 2 * entry + 2, 1, 0, 702)
                 \o <<7003, 49, 7004>>
      padded == times \o [k \in 1 .. slots - Len(times) |-> 0]
  IN  <<7002, version, head + slots, 2, Len(block)>> \o (IF version = 1 THEN <<>> ELSE <<0>>)
        \o padded \o block
OldPrefetch == Prefetched(1, 1, <<2500>>, 5)
VistaPrefetch == Prefetched(2, 1, <<2500>>, 13)
NewPrefetch == Prefetched(4, 8, <<2600, 2500>>, 12)
MCHostVolumes == {[path |-> <<7003, 49>>, serial |-> 701], [path |-> <<7004>>, serial |-> 702]}
MCPrefetchFiles ==
  {[data |-> OldPrefetch, places |-> {2, 3, 4, 6, 11}, unsaid |-> {2, 3}],
   [data |-> VistaPrefetch, places |-> {2, 3, 4, 7, 20}, unsaid |-> {2, 3}],
   [data |-> <<7001, Len(NewPrefetch)>> \o NewPrefetch, places |-> {1, 4, 5, 6, 16}, unsaid |-> {}]}

-----------------------------------------------------------------------------
(* Drive layouts: MBR with an empty slot, GPT, and neither.                 *)

MCLayouts ==
  {[data |-> <<0, 3, 31>> \o <<0, 1, 50, 1, 7, 0, 0>> \o <<0, 0, 0, 0, 0, 0, 0>> \o <<0, 51, 9, 2, 12, 0, 0>>,
    places |-> {0, 1, 3}, signature |-> 31],
   [data |-> <<1, 2, 32>> \o <<1, 1, 50, 1, 0, 61, 62>> \o <<1, 51, 0, 2, 0, 63, 0>>,
    places |-> {0, 1, 10}, signature |-> 0],
   [data |-> <<2, 0, 33>>, places |-> {1}, signature |-> 33]}

-----------------------------------------------------------------------------
(* Jump lists.                                                              *)

ListEntry(modern, number, path) ==
  IF modern THEN <<41, number, 0, 0, 0, 2500, -1, 0, 4, 0, 0, Len(path)>> \o path \o <<0>>
  ELSE <<41, number, 0, 0, 2500, 3, 0, Len(path)>> \o path
ListStream(modern, version, declared, numbers) ==
  LET data == <<version, declared>>
                \o FoldLeft(LAMBDA acc, n : acc \o ListEntry(modern, n, <<69, 58>>), <<>>, numbers)
  IN  [name |-> DestListName, size |-> Len(data), data |-> data]
Stream(name, size, data) == [name |-> name, size |-> size, data |-> data]
Small == BareLink.data
Sizes == {0, 4, Len(Small), 40, -1}
MCJumpLists ==
  {<<Stream(1, s1, Small), list, Stream(2, s2, Small), Stream(PropertyStore, 4, <<1, 1, 1, 1>>)>> :
     s1 \in Sizes, s2 \in Sizes,
     list \in {ListStream(m, v, d, ns) : m \in BOOLEAN, v \in {1, 2, 4}, d \in {0, 2},
                                         ns \in {<<1, 2>>, <<2>>, <<2, 1, 2>>}}}
  \cup {<<Stream(1, 2, <<>>), Stream(3, 2, <<9, 9>>), ListStream(TRUE, 4, 1, <<1>>)>>,
        <<Stream(1, Len(Small), Small), Stream(DestListName, 1, <<4>>)>>}

-----------------------------------------------------------------------------
(* Trees of folders: each key, with the item its parent stores for it.       *)

Node(item, order) == [item |-> item, order |-> order]
A == PlainFolder(day10, <<65>>)
B == Folder(day10, <<66>>, 9, <<66, 98>>)
MCTrees ==
  {<<>> :> Node(<<>>, <<1, 0, 65535, 1>>) @@ <<0>> :> Node(Drive, <<0>>) @@ <<1>> :> Node(ThisPC, <<>>)
     @@ <<0, 0>> :> Node(A, <<0>>) @@ <<0, 1>> :> Node(B, <<>>)
     @@ <<0, 0, 0>> :> Node(B, <<0, 0>>) @@ <<0, 0, 0, 0>> :> Node(A, <<>>),
   <<>> :> Node(<<>>, <<0>>) @@ <<0>> :> Node(A, <<0>>) @@ <<0, 0>> :> Node(Nameless, <<0>>)
     @@ <<0, 0, 0>> :> Node(A, <<0>>) @@ <<0, 0, 0, 0>> :> Node(A, <<0>>)
     @@ <<0, 0, 0, 0, 0>> :> Node(A, <<0>>) @@ <<0, 0, 0, 0, 0, 0>> :> Node(A, <<0>>)}

\* Lists of what was opened: a name and a path, a path alone, the name of a drive.
Shown == <<86, 32, 40, 70, 58, 41>>    \* V (F:)
MCLists ==
  {[kind |-> kind, order |-> <<1, 0, 2, 65535>>,
    values |-> {[name |-> 0, data |-> Zero(<<65>>) \o PathItems],
                [name |-> 1, data |-> Zero(Shown) \o ThisPC \o Drive \o <<0>>],
                [name |-> 2, data |-> Zero(Shown)], [name |-> 3, data |-> <<>>]}] :
     kind \in {"recent_doc", "last_visited"}}
  \cup {[kind |-> "open_save", order |-> <<0, 1>>,
         values |-> {[name |-> 0, data |-> PathItems], [name |-> 1, data |-> OldItems]}]}

-----------------------------------------------------------------------------
(* Installation logs, under the zones of hosts east and west of UTC.         *)

Heading(target) == [is |-> "header", operation |-> "install", target |-> target, kind |-> "device"]
MCLines ==
  <<Heading("stick"), [is |-> "start", time |-> 900], [is |-> "end", time |-> 910], [is |-> "exit"],
    [is |-> "start", time |-> 1], Heading("printer"), [is |-> "start", time |-> 920],
    [is |-> "parent", device |-> "stick"], Heading("mouse"), [is |-> "start", time |-> 930], [is |-> "exit"],
    Heading("stick"), [is |-> "start", time |-> 940]>>
Zone(bias, daylight, start, disabled) ==
  [bias |-> bias, standardBias |-> 0, daylightBias |-> daylight, standardStart |-> start,
   daylightStart |-> start, dynamicDisabled |-> disabled]
MCLogs ==
  {[lines |-> MCLines, zone |-> Zone(bias, daylight, start, disabled)] :
     bias \in {300, 4096 - 60}, daylight \in {0, 4096 - 60}, start \in {0, 3}, disabled \in BOOLEAN}
MCUsbDevices == {"stick"}
=============================================================================
