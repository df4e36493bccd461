------------------------------ MODULE JumpList ------------------------------
(***************************************************************************)
(* internal/jumplist: a jump list.  The automatic form is a compound file,   *)
(* read one stream at a time in the order of its directory; the custom form  *)
(* is links between what is not read.  The ranking value is left out.        *)
(***************************************************************************)
EXTENDS ShellLink

CONSTANTS maxStreamBytes, maxFileBudget

ASSUME BudgetAssumption == maxStreamBytes \in Nat /\ maxFileBudget \in Nat

VARIABLES streams,    \* the file: [name, size, data], size as the directory declares it
          fileBytes,  \* its length, or 0 where that could not be read
          at,         \* the stream that is read next
          spent,      \* what was allocated for those before it
          entries,    \* the links, with what the DestList says of them
          destList,   \* the DestList
          warnings,   \* what is said: [stream, what]
          others,     \* streams that are neither
          finished

jumpVars == <<streams, fileBytes, at, spent, entries, destList, warnings, others, finished>>

\* The names of streams: an entry number, in hexadecimal, or one of these.
DestListName == -1
PropertyStore == -2

-----------------------------------------------------------------------------
(* DestList.  A header holds the version and the number of entries; in an    *)
(* entry a cell is four bytes, from the machine's name on.                   *)

DestHeaderCells == 2
destLayouts ==
  <<[name |-> "modern", fixed |-> 11, trailing |-> 1, time |-> 5, pin |-> 6, access |-> 8],
    [name |-> "legacy", fixed |-> 7, trailing |-> 0, time |-> 4, pin |-> 5, access |-> -1]>>

Tab == 9
Replacement == 65533
PlausiblePath(path) ==
  /\ \E k \in DOMAIN path : path[k] \notin {Tab, Space}
  /\ \A k \in DOMAIN path : (path[k] >= Space \/ path[k] = Tab) /\ path[k] # Replacement

\* A layout reads an entry where its path fits and both path and time are believable.
Reads(layout, data, offset) ==
  LET length == offset + layout.fixed
      chars == At(data, length)
  IN  /\ length + 1 <= Len(data)
      /\ chars \in 1 .. 4096 /\ length + 1 + chars <= Len(data)
      /\ PlausiblePath(Slice(data, length + 1, length + 1 + chars))
      /\ FromFileTime(At(data, offset + layout.time)) # NoTime

\* readDestEntry, by the first layout that reads it.
DestEntry(layout, data, offset, position) ==
  LET start == offset + layout.fixed + 1
      end == start + At(data, start - 1)
  IN  [layout |-> layout.name, position |-> position, next |-> end + layout.trailing,
       machineID |-> At(data, offset), number |-> At(data, offset + 1),
       path |-> Slice(data, start, end), lastAccess |-> FromFileTime(At(data, offset + layout.time)),
       pinned |-> At(data, offset + layout.pin) >= 0, pinRead |-> TRUE,
       access |-> IF layout.access >= 0 THEN At(data, offset + layout.access) ELSE 0,
       accessRead |-> layout.access >= 0]

\* The entries, up to one that no layout reads.
DestEntries(data) ==
  LET From[offset \in Nat, position \in Nat] ==
        LET reading == {k \in DOMAIN destLayouts : Reads(destLayouts[k], data, offset)}
            first == CHOOSE k \in reading : \A m \in reading : k <= m
            entry == DestEntry(destLayouts[first], data, offset, position)
            rest == From[entry.next, position + 1]
        IN  IF offset >= Len(data) THEN [entries |-> <<>>, unread |-> FALSE]
            ELSE IF reading = {} THEN [entries |-> <<>>, unread |-> TRUE]
            ELSE [rest EXCEPT !.entries = <<entry>> \o @]
  IN  From[DestHeaderCells, 1]

LayoutForVersion(version) == IF version = 1 THEN "legacy" ELSE IF version >= 3 THEN "modern" ELSE ""

\* Mutant: the version of a DestList is not held against the layout that read it.
VersionIgnored(version, list) == [entries |-> list, warned |-> {}]

\* Where the version implies another layout than the one that read, the count and
\* the pin are not reported.
Disputed(version, list) ==
  LET wanted == LayoutForVersion(version) IN
  IF list = <<>> \/ wanted = "" \/ wanted = list[1].layout THEN [entries |-> list, warned |-> {}]
  ELSE [entries |-> [k \in DOMAIN list |-> [list[k] EXCEPT !.access = 0, !.accessRead = FALSE,
                                              !.pinned = FALSE, !.pinRead = FALSE]],
        warned |-> {"DestList version and layout disagree"}]

\* parseDestList.
ParseDestList(data) ==
  LET declared == At(data, 1)
      read == DestEntries(data)
      agreed == Disputed(At(data, 0), read.entries)
  IN  IF Len(data) < DestHeaderCells
      THEN [entries |-> <<>>, warned |-> {"DestList is too short to hold a header"}]
      ELSE [agreed EXCEPT !.warned = @
              \cup (IF read.unread THEN {"a DestList entry could not be read"} ELSE {})
              \cup (IF declared > 0 /\ Len(read.entries) # declared
                    THEN {"DestList declared another number of entries"} ELSE {})]

-----------------------------------------------------------------------------
(* The automatic form, a stream at a time.                                  *)

\* Mutant: each stream is bounded and what they come to is not.
OversizedAlone(size) ==
  \/ size < 0
  \/ fileBytes > 0 /\ size > fileBytes
  \/ size > maxStreamBytes

\* oversized: what a declared size cannot be.
Oversized(size) ==
  \/ size < 0
  \/ fileBytes > 0 /\ size > fileBytes
  \/ size > maxStreamBytes
  \/ spent + size > maxFileBudget

NoDest == [position |-> 0, number |-> 0, path |-> <<>>, machineID |-> 0, lastAccess |-> NoTime,
           pinned |-> FALSE, pinRead |-> FALSE, access |-> 0, accessRead |-> FALSE]
JumpEntry(stream, parsed) ==
  [stream |-> stream, link |-> parsed.link, warned |-> parsed.warnings, present |-> FALSE, dest |-> NoDest]

Remaining == ~finished /\ at <= Len(streams)
Next1(what) == at' = at + 1 /\ warnings' = warnings \cup {[stream |-> at, what |-> w] : w \in what}

\* Mutant: a stream whose size is not believed is passed over.
PassStream ==
  /\ Remaining /\ streams[at].size # 0 /\ Oversized(streams[at].size)
  /\ Next1({})
  /\ UNCHANGED <<streams, fileBytes, spent, entries, destList, others, finished>>

\* A stream whose size is not believed, or none of which can be read, costs only itself.
SkipStream ==
  /\ Remaining /\ streams[at].size # 0 /\ Oversized(streams[at].size)
  /\ Next1({"declares a size that is not believed"})
  /\ UNCHANGED <<streams, fileBytes, spent, entries, destList, others, finished>>

EmptyStream ==
  /\ Remaining /\ streams[at].size = 0
  /\ Next1({})
  /\ UNCHANGED <<streams, fileBytes, spent, entries, destList, others, finished>>

\* The bytes of a stream there were, where it holds fewer than it declares.
Available(stream) ==
  IF Len(stream.data) <= stream.size THEN stream.data ELSE SubSeq(stream.data, 1, stream.size)

UnreadableStream ==
  /\ Remaining /\ streams[at].size # 0 /\ ~Oversized(streams[at].size)
  /\ Available(streams[at]) = <<>>
  /\ spent' = spent + streams[at].size
  /\ Next1({"could not be read"})
  /\ UNCHANGED <<streams, fileBytes, entries, destList, others, finished>>

\* A stream that is read.
ReadingStream(stream) ==
  /\ Remaining /\ stream.size # 0 /\ ~Oversized(stream.size) /\ Available(stream) # <<>>
  /\ spent' = spent + stream.size
  /\ UNCHANGED <<streams, fileBytes, finished>>

ReadDestList ==
  /\ Remaining /\ streams[at].name = DestListName /\ ReadingStream(streams[at])
  /\ LET parsed == ParseDestList(Available(streams[at]))
     IN  destList' = parsed.entries /\ Next1(parsed.warned)
  /\ UNCHANGED <<entries, others>>

OtherStream ==
  /\ Remaining /\ streams[at].name = PropertyStore /\ ReadingStream(streams[at])
  /\ others' = others + 1 /\ Next1({})
  /\ UNCHANGED <<entries, destList>>

ReadLinkStream ==
  /\ Remaining /\ streams[at].name >= 0 /\ ReadingStream(streams[at])
  /\ LET parsed == ParseLink(Available(streams[at]))
     IN  IF parsed = NotALink THEN Next1({"is not a shell link"}) /\ UNCHANGED entries
         ELSE Next1({}) /\ entries' = Append(entries, JumpEntry(streams[at].name, parsed))
  /\ UNCHANGED <<destList, others>>

\* attachDestList: the last entry of a number, and the order of the list, in which
\* the links that are not on it come first.
DestOf(number) ==
  LET ks == {k \in DOMAIN destList : destList[k].number = number}
  IN  IF ks = {} THEN NoDest ELSE destList[CHOOSE k \in ks : \A m \in ks : k >= m]
Sorted(list) ==
  LET before(i, j) == \/ list[i].dest.position < list[j].dest.position
                      \/ list[i].dest.position = list[j].dest.position /\ i < j
      rank(i) == 1 + Cardinality({j \in DOMAIN list : before(j, i)})
  IN  [k \in DOMAIN list |-> list[CHOOSE i \in DOMAIN list : rank(i) = k]]
Attach ==
  /\ ~finished /\ at > Len(streams)
  /\ finished' = TRUE
  /\ entries' = IF destList = <<>> THEN entries
                ELSE Sorted([k \in DOMAIN entries |->
                       LET dest == DestOf(entries[k].stream) IN
                       [entries[k] EXCEPT !.present = dest # NoDest,
                          !.dest = [field \in DOMAIN NoDest |-> dest[field]]]])
  /\ UNCHANGED <<streams, fileBytes, at, spent, destList, warnings, others>>

NextStream ==
  \/ SkipStream \/ EmptyStream \/ UnreadableStream
  \/ ReadDestList \/ OtherStream \/ ReadLinkStream \/ Attach

Opened(file, bytes) ==
  /\ streams = file /\ fileBytes = bytes /\ at = 1 /\ spent = 0 /\ entries = <<>>
  /\ destList = <<>> /\ warnings = {} /\ others = 0 /\ finished = FALSE

\* What is allocated for the streams of one file is bounded, whatever they declare
\* (oversized).
WithinBudget == spent <= maxFileBudget

-----------------------------------------------------------------------------
\* Mutant: the search ends at a link that is damaged.
LinksUntilDamaged(data) ==
  LET starts == {i \in 0 .. Len(data) - 2 : At(data, i) = headerSize /\ At(data, i + 1) = linkCLSID}
      parsed == {[start |-> i, link |-> ParseLink(Slice(data, i, Len(data)))] : i \in starts}
      links == {p \in parsed : p.link # NotALink}
  IN  {p \in links : ~\E q \in links : q.start < p.start /\ q.link.ended}

\* parseCustom: every place that starts as a link does, and parses as one.
CustomLinks(data) ==
  LET starts == {i \in 0 .. Len(data) - 2 : At(data, i) = headerSize /\ At(data, i + 1) = linkCLSID}
      parsed == {[start |-> i, link |-> ParseLink(Slice(data, i, Len(data)))] : i \in starts}
  IN  {p \in parsed : p.link # NotALink}
=============================================================================
