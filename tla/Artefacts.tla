------------------------------ MODULE Artefacts ------------------------------
(***************************************************************************)
(* The artefacts of a host, each read twice: as its program wrote it, and as *)
(* it was found, which may be cut short or have a size, an offset or a count *)
(* that cannot be.  What the evidence lost has to be said, never made up.    *)
(***************************************************************************)
EXTENDS JumpList, FileTargets, ShellBags, SequencesExt

Prefetch == INSTANCE PrefetchFile
Disk == INSTANCE DiskLayout
Setup == INSTANCE SetupLog

\* What there is of each kind.  A file of cells comes with the places of its sizes,
\* offsets and counts, and the place from which it holds nothing that is counted.
CONSTANTS Links, CustomFiles, ItemLists, PrefetchFiles, Layouts, JumpLists, Trees, Logs, Lists,
          usbDevices, hostVolumes, Huge

ASSUME JumpListsAssumption ==
  JumpLists \subseteq Seq([name : Int, size : Int, data : Seq(Int)])

VARIABLES format,    \* which kind of artefact it is
          whole,     \* as it was written
          file,      \* as it was found
          intact,    \* what is read of the first
          reading,   \* and of the second
          done

vars == <<format, whole, file, intact, reading, done, jumpVars>>

-----------------------------------------------------------------------------
(* Damage.                                                                  *)

Cut(data) == {SubSeq(data, 1, n) : n \in 0 .. Len(data)}
Impossible(data, places) == {[data EXCEPT ![p + 1] = Huge] : p \in places}

Found(kind, written, found) ==
  /\ format = kind /\ whole = written /\ file = found
  /\ intact = <<>> /\ reading = <<>> /\ done = FALSE

\* Of a link that is cut before, or within the header of, an extra block nothing is
\* said of the blocks that are gone: parseExtraData takes it for the end.  Nor of a
\* prefetch file that ends before it says how many volumes it has.
Damaged(kind, sample) ==
  \E found \in Cut(sample.data) \cup Impossible(sample.data, sample.places) :
    Len(found) \notin sample.unsaid /\ Found(kind, sample.data, found)
DamagedTree(tree) ==
  \/ Found("bags", tree, tree)
  \/ \E node \in DOMAIN tree : \E item \in Cut(tree[node].item) :
       Found("bags", tree, [tree EXCEPT ![node].item = item])
DamagedList(list) ==
  \/ Found("list", list, list)
  \/ \E v \in list.values : \E data \in Cut(v.data) :
       Found("list", list, [list EXCEPT !.values = (@ \ {v}) \cup {[v EXCEPT !.data = data]}])
DamagedLog(log) ==
  \/ \E lines \in Cut(log.lines) : Found("setup_log", log, [log EXCEPT !.lines = lines])
  \/ \E k \in DOMAIN log.lines :
       Found("setup_log", log, [log EXCEPT !.lines[k] = [is |-> "too_long"]])

DamagedDisk(sample) ==
  LET disk(layout, sector) == [layout |-> layout, sector |-> sector]
      boot(length, marked) == [length |-> length, marked |-> marked, signature |-> sample.signature]
  IN  \E layout \in Cut(sample.data) \cup Impossible(sample.data, sample.places) :
      \E length \in 0 .. 3, marked \in BOOLEAN :
        Found("layout", disk(sample.data, boot(3, TRUE)), disk(layout, boot(length, marked)))

Init ==
  \/ /\ Opened(<<>>, 0)
     /\ \/ \E sample \in Links : Damaged("link", sample)
        \/ \E sample \in CustomFiles : Damaged("custom", sample)
        \/ \E sample \in ItemLists : Damaged("items", sample)
        \/ \E sample \in PrefetchFiles : Damaged("prefetch", sample)
        \/ \E sample \in Layouts : DamagedDisk(sample)
        \/ \E tree \in Trees : DamagedTree(tree)
        \/ \E list \in Lists : DamagedList(list)
        \/ \E log \in Logs : DamagedLog(log)
  \/ \E list \in JumpLists : \E bytes \in {0, 20} :
       Opened(list, bytes) /\ Found("jump_list", list, list)

-----------------------------------------------------------------------------
(* Each kind is read by its own reader, whole and as found.                 *)

Read(kind, ofWhole, ofFile) ==
  /\ format = kind /\ ~done
  /\ done' = TRUE /\ intact' = ofWhole /\ reading' = ofFile
  /\ UNCHANGED <<format, whole, file, jumpVars>>

ReadLink == Read("link", ParseLink(whole), ParseLink(file))
ReadCustom == Read("custom", CustomLinks(whole), CustomLinks(file))
ReadItems == Read("items", ParseItems(whole), ParseItems(file))
ReadPrefetch == Read("prefetch", Prefetch!ParsePrefetch(whole), Prefetch!ParsePrefetch(file))
DiskIn(record) == Disk!DiskOf(record.layout, record.sector)
ReadLayout == Read("layout", DiskIn(whole), DiskIn(file))
ReadBags == Read("bags", WalkBags(whole), WalkBags(file))
ListOf(list) == ReadList(list.kind, list.order, list.values)
ReadLists == Read("list", ListOf(whole), ListOf(file))
LogOf(log) == Setup!ParseLog(log.lines, usbDevices, Setup!ReadTimeZone(log.zone))
ReadLog == Read("setup_log", LogOf(whole), LogOf(file))
ReadJumpList ==
  /\ format = "jump_list" /\ NextStream
  /\ done' = finished' /\ UNCHANGED <<format, whole, file, intact, reading>>

\* Nothing is read of what was read.
Rest == done /\ UNCHANGED vars

Next == \/ ReadLink \/ ReadCustom \/ ReadItems \/ ReadPrefetch \/ ReadLayout \/ ReadBags
        \/ ReadLists \/ ReadLog \/ ReadJumpList \/ Rest
Spec == Init /\ [][Next]_vars

-----------------------------------------------------------------------------
(* What holds of a reading.                                                 *)

Are(kind) == done /\ format = kind

\* The claim of lnk.go, that a partial parse is never presented as a complete one, which the
\* offsets within a link's info contradict, so that no run checks it: a field of a link says
\* what the link said or nothing, and where it says nothing of what was there the link has a
\* warning.
FieldLost(field) == reading.link[field] # intact.link[field]
SaidOrKept(field) ==
  FieldLost(field) => /\ reading.link[field] = EmptyLink[field]
                      /\ reading.warnings \ intact.warnings # {}
LinkLossIsSaid ==
  Are("link") /\ reading # NotALink => \A field \in DOMAIN EmptyLink : SaidOrKept(field)

\* The cells of a link's info that are followed as they are, by the field they lead to: the
\* offsets of its texts, and what says which of them there are.  Where the local path is
\* gone the letter is that of the relative one.
InfoStart ==
  IF Bit(At(whole, 2), hasLinkTargetIDList) THEN HeaderCells + 1 + At(whole, HeaderCells) ELSE HeaderCells
VolumeCell(k) == At(whole, InfoStart + 3) + k
ShareCell(k) == At(whole, InfoStart + 5) + k
FollowedUnchecked ==
  [localBasePath |-> {1, 4, 7}, driveLetter |-> {1, 4, 7}, commonPath |-> {1, 6, 8},
   volumeLabel |-> {VolumeCell(3), VolumeCell(4)},
   networkShare |-> {5, ShareCell(0), ShareCell(2), ShareCell(5)}]
Unchecked(fields) ==
  Len(file) = Len(whole) /\ \E field \in fields \cap DOMAIN FollowedUnchecked :
    \E k \in FollowedUnchecked[field] : At(file, InfoStart + k) # At(whole, InfoStart + k)

\* Of a damaged link a field says what it said, or nothing and the link has a warning; an
\* offset within its info that leads outside costs, unsaid, the one field it leads to and no
\* other (Parse).
LossIsSaidWhereChecked ==
  Are("link") /\ reading # NotALink =>
    \A field \in DOMAIN EmptyLink : SaidOrKept(field) \/ Unchecked({field})

\* A row says of the medium what the whole link says or nothing, whatever is damaged: a
\* medium that is named decides which device the file was on.  Its path is the path, or one
\* that is warned of, or what such an offset has left of it (FromLink).
RowsClaimNoMore ==
  Are("link") /\ reading # NotALink =>
    LET row == FromLink(reading)
        was == FromLink(intact)
    IN  /\ row.volume.driveType \in {Null, was.volume.driveType}
        /\ row.volume.serial \in {Null, was.volume.serial}
        /\ row.volume.removable => was.volume.removable
        /\ \/ row.path = was.path \/ row.warnings \ was.warnings # {}
           \/ Unchecked({"localBasePath", "networkShare", "commonPath"})

\* Damage to one link of a custom list costs none of those after it, and no link is found
\* where none was written (parseCustom).
DamageIsLocal ==
  Are("custom") =>
    /\ {p.start : p \in reading} \subseteq {p.start : p \in intact}
    /\ \A q \in intact :
         SubSeq(file, q.start + 1, Len(file)) = SubSeq(whole, q.start + 1, Len(whole)) => q \in reading

\* The path of a list of items that was cut is the beginning of the path it had, and
\* where it is shorter the list says that it ends early (shellitem.Parse).
PathIsPrefix ==
  Are("items") /\ reading.is = "list" =>
    /\ IsPrefix(PathOf(reading.items), PathOf(intact.items))
    /\ Len(reading.items) < Len(intact.items) => reading.truncated

\* A volume that is read is one the host had, with the path and the serial it had, and
\* of a file that is whole all are read; a volume or a time that is not given is
\* accounted for (prefetch.Parse).
SerialsKeepTheirVolumes ==
  Are("prefetch") /\ reading.is = "run" =>
    LET volumes == {[path |-> v.path, serial |-> v.serial] : v \in reading.volumes} IN
    /\ volumes \subseteq hostVolumes
    /\ file = whole => volumes = hostVolumes
    /\ IsPrefix(reading.times, intact.times)
    /\ (volumes # hostVolumes \/ reading.times # intact.times) => reading.warnings # {}

\* Every slot of a drive layout is a partition it declares, an empty one or said not to
\* have been read; a partition that is read is one that was written (DecodeLayout).
SlotsAccounted ==
  Are("layout") /\ reading.layout.is = "layout" =>
    LET layout == reading.layout IN
    /\ \A i \in DOMAIN layout.partitions : layout.partitions[i] = intact.layout.partitions[i]
    /\ \/ Cardinality(DOMAIN layout.partitions) + layout.emptySlots = layout.declared
       \/ reading.warnings # {}

\* Every key of a tree is a bag, whatever became of its item, down to the depth that is
\* followed, and a tree that goes deeper says so.  A bag is given another place only where
\* the item of a bag on the way to it, or its own, did not come out whole, and that bag
\* says why (walkBags).
NoBagDropped ==
  Are("bags") =>
    /\ \A node \in DOMAIN file \ {<<>>} :
         IF Len(node) <= maxBagDepth + 1
         THEN \E bag \in reading : bag.node = node
         ELSE \E bag \in reading : IsPrefix(bag.node, node) /\ "not followed further" \in bag.warnings
    /\ \A bag \in reading, was \in intact :
         bag.node = was.node /\ bag.path # was.path =>
           \E above \in reading :
             IsPrefix(above.node, bag.node) /\ file[above.node] # whole[above.node] /\ above.warnings # {}

\* The claim of shellbags.go, which the bags below a damaged one contradict, so that no run
\* checks it: a bag that is given another place than its items named says that something is
\* missing, by its gap or by a warning.
GapsAreMarked ==
  Are("bags") =>
    \A bag \in reading, was \in intact :
      bag.node = was.node /\ bag.path # was.path => bag.gap \/ bag.warnings # {}

\* An entry of a list of what was opened names the place it named, or says that the path
\* ends early, or names none; a letter that is not in its path is said to be taken from
\* the name, which is that of the drive at the time (readRecentDocsKey, readDialogKey).
ListedPlacesHold ==
  Are("list") =>
    \A entry \in reading :
      /\ \A was \in intact :
           entry.value = was.value => \/ entry.path \in {<<>>, was.path}
                                      \/ IsPrefix(entry.path, was.path) /\ entry.warnings # {}
      /\ entry.letter # 0 /\ ~entry.fromName => <<entry.letter, Colon>> \in Range(entry.path)

\* A section that was opened is kept or counted as not of a USB device, the one that was
\* cut off with the rest, and its times are its own: they lie between its heading and
\* the next one (setupapi.Parse).
Headers(upto) == {k \in 1 .. upto : file.lines[k].is = "header"}
OwnLines(line, upto) ==
  {k \in 1 .. upto : k > line /\ \A h \in Headers(upto) : h > line => k < h}
SectionsAccounted ==
  Are("setup_log") =>
    /\ reading.counted = Cardinality(Headers(reading.read))
    /\ \A k \in DOMAIN reading.sections :
         LET section == reading.sections[k]
             own == {file.lines[n] : n \in OwnLines(section.line, reading.read)}
         IN  /\ section.start # NoTime => [is |-> "start", time |-> section.start] \in own
             /\ section.end # NoTime => [is |-> "end", time |-> section.end] \in own
             /\ section.exit => [is |-> "exit"] \in own

\* The readings of a local time are the instants at which a clock under the host's zone
\* can have shown it, in the seasons the zone observes; where there are two it is said
\* to be ambiguous (candidates, seasonalReadings).
Signed(stored) == IF stored >= Setup!Width \div 2 THEN stored - Setup!Width ELSE stored
Observed(zone) ==
  zone.standardStart # 0 /\ zone.daylightStart # 0 /\ ~zone.dynamicDisabled
Instants(local, zone) ==
  LET seasons == {zone.standardBias} \cup (IF Observed(zone) THEN {zone.daylightBias} ELSE {})
  IN  {local + Signed(zone.bias) + Signed(season) : season \in seasons}
ReadingsArePossible ==
  Are("setup_log") =>
    \A k \in DOMAIN reading.sections :
      LET section == reading.sections[k]
          given == {section.startUTC[c].utc : c \in DOMAIN section.startUTC}
      IN  section.start # NoTime =>
            /\ given = Instants(section.start, file.zone)
            /\ Setup!SeasonalReadings(section.startUTC).ambiguous = (Cardinality(given) > 1)

-----------------------------------------------------------------------------
(* Jump lists.                                                              *)

\* Every stream of a jump list that holds anything is an entry, the list, another kind
\* of stream, or said not to have been read (parseAutomatic).
Silent(k) ==
  /\ streams[k].size # 0 /\ ~\E w \in warnings : w.stream = k
  /\ streams[k].name >= 0 => ~\E e \in DOMAIN entries : entries[e].stream = streams[k].name
StreamsAccounted ==
  Are("jump_list") =>
    \A k \in DOMAIN streams : Silent(k) => streams[k].name \in {DestListName, PropertyStore}

\* A pin or a count that is reported was read by the layout that the list's version
\* implies, and a link on the list has what the list says of it and of no other
\* (parseDestList, attachDestList).
ListVersion ==
  LET lists == {k \in DOMAIN streams : streams[k].name = DestListName}
  IN  IF lists = {} THEN 0 ELSE At(streams[CHOOSE k \in lists : TRUE].data, 0)
LayoutAgreed ==
  Are("jump_list") =>
    \A k \in DOMAIN entries :
      LET row == FromJumpEntry(entries[k]) IN
      /\ entries[k].present => entries[k].dest.number = entries[k].stream
      /\ row.pin # Null \/ row.access # Null =>
           \A d \in DOMAIN destList :
             LayoutForVersion(ListVersion) \in {"", destList[d].layout}

\* A wall clock of an item is one that is stored and one a calendar has: a day that its
\* month does not have is not given as another (FromDOSDateTime).  The days of months
\* are counted here by the calendar's rule, not by the code's.
DaysBefore(year) == 365 * year + year \div 4 - year \div 100 + year \div 400
Exists(clock) ==
  LET year == clock[1]
      isLeap == DaysBefore(year) - DaysBefore(year - 1) = 366
      lengths == <<31, IF isLeap THEN 29 ELSE 28, 31, 30, 31, 30, 31, 31, 30, 31, 30, 31>>
  IN  clock[2] \in 1 .. 12 /\ clock[3] \in 1 .. lengths[clock[2]]
Stored(clock) ==
  \E k \in DOMAIN file : file[k] % 65536 = (clock[1] - 1980) * 512 + clock[2] * 32 + clock[3]
ClocksExist ==
  Are("items") /\ reading.is = "list" =>
    \A k \in DOMAIN reading.items :
      LET clock == reading.items[k].modified IN
      clock # NoClock => Exists(clock) /\ Stored(clock)

\* A link that lost something says so, but for the one text that an offset within its info
\* leads to, and the row made of it claims no more of the medium than the link said when it
\* was whole.
LinksClaimNoMore == LossIsSaidWhereChecked /\ RowsClaimNoMore

\* Jump lists of both forms: every stream and link is answered for on its own, and an entry's
\* pins and access times come from the layout its list is written in.
JumpListsHold == DamageIsLocal /\ StreamsAccounted /\ LayoutAgreed

\* An item list and an entry of a list of what was opened name the place they named or a
\* place above it, and a folder that is given another place is below one that says why.
PlacesHold == PathIsPrefix /\ NoBagDropped /\ ListedPlacesHold

\* Volumes and partitions are those that were written, and the ones that are not given are
\* accounted for.
VolumesHold == SerialsKeepTheirVolumes /\ SlotsAccounted

\* A time is one the file held: a section keeps its own, a local time has just the readings
\* its zone allows, and a DOS date that does not exist is no time.
TimesHold == SectionsAccounted /\ ReadingsArePossible /\ ClocksExist
=============================================================================
