------------------------------ MODULE ShellLink ------------------------------
(***************************************************************************)
(* internal/lnk: a shell link, read in the order its parts are stored.  The  *)
(* first part that does not fit ends the reading; what was read stays.  The  *)
(* file's attributes and size, and the birth identifiers beside the droid    *)
(* ones, are left out.                                                       *)
(***************************************************************************)
EXTENDS ShellItems

headerSize == 76
linkCLSID == 21401
trackerDataSignature == 3003
HeaderCells == 6    \* size, class, flags, created, accessed, written

hasLinkTargetIDList == 1
hasLinkInfo == 2
isUnicode == 128
\* The strings, in the order they are stored: [flag, field].
stringFields == <<[flag |-> 4, field |-> "name"], [flag |-> 8, field |-> "relativePath"],
  [flag |-> 16, field |-> "workingDir"], [flag |-> 32, field |-> "arguments"],
  [flag |-> 64, field |-> "iconLocation"]>>

\* Every field a link has, with nothing in it.
EmptyLink ==
  [targetCreated |-> NoTime, targetAccessed |-> NoTime, targetWritten |-> NoTime,
   targetPath |-> <<>>, targetPathHasGap |-> FALSE, targetName |-> <<>>, targetModified |-> NoClock,
   targetDriveLetter |-> 0, reference |-> 0,
   volumeIDPresent |-> FALSE, driveType |-> 0, driveSerial |-> 0, volumeLabel |-> <<>>,
   localBasePath |-> <<>>, networkShare |-> <<>>, commonPath |-> <<>>, driveLetter |-> 0,
   name |-> <<>>, relativePath |-> <<>>, workingDir |-> <<>>, arguments |-> <<>>,
   iconLocation |-> <<>>, machineID |-> 0, droidVolumeID |-> 0, droidFileID |-> 0]

\* Where the reading is: what was read, what was warned of, and whether it goes on.
Reading(link, warnings, offset) ==
  [is |-> "link", link |-> link, warnings |-> warnings, offset |-> offset, ended |-> FALSE]
Ended(r, why) == [r EXCEPT !.warnings = @ \cup {why}, !.ended = TRUE]
Warn(r, why) == [r EXCEPT !.warnings = @ \cup why]
Set(r, field, value) == [r EXCEPT !.link[field] = value]

\* warnIfNotASCII: the code page of a string that is not Unicode is not recorded.
NotASCII(text, what) == IF \E k \in DOMAIN text : text[k] >= 128 THEN {what \o " may be misread"} ELSE {}

\* readANSI, and the Unicode form beside it.
SetText(r, field, text, unicode) ==
  Warn(Set(r, field, text), IF unicode THEN {} ELSE NotASCII(text, field))

-----------------------------------------------------------------------------
\* The target through its shell items, and the offset after them.
IDListEnd(data, r) == r.offset + 1 + At(data, r.offset)
Target(r, list) ==
  IF list.is = "error" THEN Warn(r, {"target id list"})
  ELSE LET last == list.items[Len(list.items)]
           named == [r.link EXCEPT !.targetPath = PathOf(list.items),
                       !.targetPathHasGap = HasGap(list.items),
                       !.targetDriveLetter = LetterOf(list.items)]
       IN  Warn([r EXCEPT !.link = IF list.items = <<>> THEN named
                  ELSE [named EXCEPT !.targetName = last.name, !.targetModified = last.modified,
                          !.reference = last.reference]],
                list.warnings)
IDList(data, flags, r) ==
  IF ~Bit(flags, hasLinkTargetIDList) THEN r
  ELSE IF r.offset + 1 > Len(data) THEN Ended(r, "truncated before the target id list")
  ELSE IF IDListEnd(data, r) > Len(data) THEN Ended(r, "target id list runs past the end")
  ELSE [Target(r, ParseItems(Slice(data, r.offset + 1, IDListEnd(data, r))))
          EXCEPT !.offset = IDListEnd(data, r)]

\* parseVolumeID: size, drive type, serial, label offset, the label's other offset.
VolumeID(r, info, offset) ==
  LET size == At(info, offset)
      volume == Slice(info, offset, offset + size)
      unicode == At(volume, 3) = 5 /\ Len(volume) >= 5
      present == [r EXCEPT !.link.volumeIDPresent = TRUE, !.link.driveType = At(volume, 1),
                           !.link.driveSerial = At(volume, 2)]
  IN  IF offset <= 0 \/ offset + 4 > Len(info) THEN Warn(r, {"volume id offset is outside"})
      ELSE IF size < 4 \/ offset + size > Len(info) THEN Warn(r, {"volume id size runs past"})
      ELSE SetText(present, "volumeLabel",
                   TextAt(volume, IF unicode THEN At(volume, 4) ELSE At(volume, 3)), unicode)

\* parseNetworkShare: size, flags, name offset, two more, the name's other offset.
NetworkShare(r, info, offset) ==
  LET size == At(info, offset)
      share == Slice(info, offset, offset + size)
      nameOffset == At(share, 2)
      wide == IF nameOffset > 5 /\ Len(share) >= 6 THEN TextAt(share, At(share, 5)) ELSE <<>>
  IN  IF offset <= 0 \/ offset + 5 > Len(info) THEN r
      ELSE IF size < 5 \/ offset + size > Len(info) THEN r
      ELSE IF wide # <<>> THEN Set(r, "networkShare", wide)
      ELSE SetText(r, "networkShare", TextAt(share, nameOffset), FALSE)

\* parseLinkInfo: size, header size, flags, and the offsets of the volume id, the
\* local path, the network share and the suffix; those of the Unicode forms after.
PathIn(r, info, field, wide, narrow) ==
  SetText(r, field, TextAt(info, IF wide > 0 THEN wide ELSE narrow), wide > 0)
LinkInfoIn(r, info) ==
  LET headerCells == At(info, 1)
      flags == At(info, 2)
      localWide == IF headerCells >= 9 /\ Len(info) >= 9 THEN At(info, 7) ELSE 0
      commonWide == IF headerCells >= 10 /\ Len(info) >= 10 THEN At(info, 8) ELSE 0
      local == IF ~Bit(flags, 1) THEN r
               ELSE PathIn(VolumeID(r, info, At(info, 3)), info, "localBasePath", localWide, At(info, 4))
      shared == IF Bit(flags, 2) THEN NetworkShare(local, info, At(info, 5)) ELSE local
  IN  PathIn(shared, info, "commonPath", commonWide, At(info, 6))
LinkInfo(data, flags, r) ==
  LET size == At(data, r.offset)
      end == r.offset + size
  IN  IF r.ended \/ ~Bit(flags, hasLinkInfo) THEN r
      ELSE IF r.offset + 1 > Len(data) THEN Ended(r, "truncated before link info")
      ELSE IF size < 1 \/ end > Len(data) THEN Ended(r, "link info size runs past the end")
      ELSE IF size < 8 THEN Ended(r, "link info header is short")
      ELSE [LinkInfoIn(r, Slice(data, r.offset, end)) EXCEPT !.offset = end]

\* readStringData, for each string there is: its length, then its text.
String(data, flags, r, entry) ==
  LET count == At(data, r.offset)
      start == r.offset + 1
  IN  IF r.ended \/ ~Bit(flags, entry.flag) THEN r
      ELSE IF start > Len(data) THEN Ended(r, "truncated string data")
      ELSE IF start + count > Len(data) THEN Ended(r, "truncated string data")
      ELSE [SetText(r, entry.field, Slice(data, start, start + count), Bit(flags, isUnicode))
              EXCEPT !.offset = start + count]
Strings(data, flags, r) ==
  LET Upto[k \in 0 .. Len(stringFields)] ==
        IF k = 0 THEN r ELSE String(data, flags, Upto[k - 1], stringFields[k])
  IN  Upto[Len(stringFields)]

\* The extra data blocks, a size and a signature each, up to the terminal block: the
\* last tracker block among them, and whether they ended at one that does not fit.
Tracked(block) == At(block, 1) = trackerDataSignature /\ Len(block) >= 7
Blocks(data, start) ==
  LET From[offset \in 0 .. Len(data)] ==
        LET size == At(data, offset)
            block == Slice(data, offset, offset + size)
            rest == From[offset + size]
        IN  IF offset + 2 > Len(data) THEN [tracker |-> <<>>, misfit |-> FALSE]
            ELSE IF size < 1 THEN [tracker |-> <<>>, misfit |-> FALSE]
            ELSE IF size < 2 \/ offset + size > Len(data) THEN [tracker |-> <<>>, misfit |-> TRUE]
            ELSE IF rest.tracker = <<>> /\ Tracked(block) THEN [rest EXCEPT !.tracker = block]
            ELSE rest
  IN  From[start]

\* Mutant: any block that does not fit ends the extra data as the terminal one does.
QuietExtraData(data, r) ==
  LET blocks == Blocks(data, r.offset) IN
  IF r.ended \/ blocks.tracker = <<>> THEN r
  ELSE Set(r, "machineID", At(blocks.tracker, 4))

\* parseExtraData.
ExtraData(data, r) ==
  LET blocks == Blocks(data, r.offset)
      tracker == blocks.tracker
      read == IF tracker = <<>> THEN r
              ELSE [r EXCEPT !.link.machineID = At(tracker, 4), !.link.droidVolumeID = At(tracker, 5),
                             !.link.droidFileID = At(tracker, 6)]
  IN  IF r.ended THEN r
      ELSE IF blocks.misfit THEN Warn(read, {"an extra data block does not fit"}) ELSE read

-----------------------------------------------------------------------------
LetterOfPath(path) ==
  IF Len(path) >= 2 /\ path[2] = Colon /\ IsLetter(path[1]) THEN Upper(path[1]) ELSE 0
Lettered(r) ==
  LET local == LetterOfPath(r.link.localBasePath)
      relative == LetterOfPath(r.link.relativePath)
  IN  IF r.ended THEN r ELSE Set(r, "driveLetter", IF local # 0 THEN local ELSE relative)

\* Parse.
NotALink == [is |-> "not_a_link"]
Header(data) ==
  Reading([EmptyLink EXCEPT !.targetCreated = FromFileTime(At(data, 3)),
             !.targetAccessed = FromFileTime(At(data, 4)), !.targetWritten = FromFileTime(At(data, 5))],
          {}, HeaderCells)
ParseLink(data) ==
  LET flags == At(data, 2) IN
  IF Len(data) < HeaderCells \/ At(data, 0) # headerSize \/ At(data, 1) # linkCLSID THEN NotALink
  ELSE Lettered(ExtraData(data, Strings(data, flags,
         LinkInfo(data, flags, IDList(data, flags, Header(data))))))
=============================================================================
