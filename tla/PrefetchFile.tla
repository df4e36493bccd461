---------------------------- MODULE PrefetchFile ----------------------------
(***************************************************************************)
(* internal/prefetch: a prefetch file, in its container or out of it.  The   *)
(* header and the list of files are another library's reading; a run's times *)
(* and its volumes are read here.  A cell of a volume entry is eight bytes.  *)
(***************************************************************************)
EXTENDS Cells, WinTime

MAM == 7001
SCCA == 7002
Prefixes == {7003, 7004}   \* \DEVICE\ and \VOLUME{, a cell each
maxUncompressed == 268435456
maxVolumes == 16
maxBlockSize == 1048576

\* The cells of the header, and from there of the fields that are read: where the
\* volumes are, how many, how large; then the times, where the version keeps them.
HeaderCells == 2
TimesAt(version) == HeaderCells + (IF version = "WinXP" THEN 3 ELSE 4)
Slots(version) == IF version \in {"WinXP", "Vista"} THEN 1 ELSE 8
Versions == <<"WinXP", "Vista", "Win8.1", "Win10", "Win11">>

\* Mutant: one entry size for everything before Windows 10.
EntrySizeBefore10(version) == IF version \in {"Win10", "Win11"} THEN 12 ELSE 5

\* volumeEntrySizeV17, V23 and V30, or none where the version has no known layout.
EntrySize(version) ==
  CASE version = "WinXP" -> 5
    [] version \in {"Vista", "Win8.1"} -> 13
    [] version \in {"Win10", "Win11"} -> 12
    [] OTHER -> 0

\* What the library reads of a field that is past the end.
Field(data, offset) == IF offset < Len(data) THEN At(data, offset) ELSE 0

Run(version, times, volumes, warnings) ==
  [is |-> "run", version |-> version, times |-> times, volumes |-> volumes, warnings |-> warnings]
NotPrefetch(why) == [is |-> "error", why |-> why]

\* The library's loader: the name of the version of a file that is one.
VersionOf(data) == IF Field(data, 1) \in DOMAIN Versions THEN Versions[Field(data, 1)] ELSE "Unknown"

\* decompress: what the container holds, which may be less than it declares.
Decompress(data) ==
  LET held == Slice(data, 2, Len(data))
      out == IF Len(held) > At(data, 1) THEN SubSeq(held, 1, At(data, 1)) ELSE held
  IN  IF Len(data) < 2 THEN NotPrefetch("not a prefetch file")
      ELSE IF At(data, 0) # MAM THEN [is |-> "bytes", bytes |-> data, warnings |-> {}]
      ELSE IF At(data, 1) <= 0 \/ At(data, 1) > maxUncompressed
      THEN NotPrefetch("MAM header declares a size that is not believed")
      ELSE [is |-> "bytes", bytes |-> out,
            warnings |-> IF Len(out) # At(data, 1) THEN {"decompressed to another size"} ELSE {}]

\* readRunTimes: the times the slots hold, in their order.  A slot that holds none is
\* no time, and no oddity where it is empty.
RunTimes(data, version) ==
  LET from == TimesAt(version)
      last == IF from + Slots(version) < Len(data) THEN from + Slots(version) ELSE Len(data)
      slots == IF last < from THEN <<>> ELSE Slice(data, from, last)
      times == [k \in DOMAIN slots |-> FromFileTime(slots[k])]
  IN  [times |-> SelectSeq(times, LAMBDA time : time # NoTime),
       warnings |-> IF \E k \in DOMAIN slots : slots[k] # 0 /\ times[k] = NoTime
                    THEN {"a slot holds no usable time"} ELSE {}]

-----------------------------------------------------------------------------
(* The volumes, from their entries in a block that also holds their paths.  *)

\* A volume of the block: where its path is and how long, when it was made, its serial.
EntryAt(block, offset) ==
  LET pathAt == At(block, offset)
      chars == At(block, offset + 1)
      fits == pathAt > 0 /\ chars > 0 /\ pathAt + chars <= Len(block)
      path == Slice(block, pathAt, pathAt + chars)
  IN  [declares |-> pathAt > 0 \/ chars > 0, fits |-> fits,
       path |-> IF fits THEN Text(path, 0) ELSE <<>>,
       created |-> FromFileTime(At(block, offset + 2)), serial |-> At(block, offset + 3)]

LooksLikeDevicePath(path) == path[1] \in Prefixes

\* Mutant: a path that is outside the block costs the entry its path alone.
TrustedEntry(entry) ==
  IF entry.path = <<>> /\ entry.serial = 0 THEN "neither a path nor a serial"
  ELSE IF entry.path # <<>> /\ ~LooksLikeDevicePath(entry.path) THEN "not a device path"
  ELSE ""

\* What is wrong with an entry, of which nothing is then stored.
Rejected(entry) ==
  IF entry.declares /\ ~entry.fits THEN "path outside the block"
  ELSE IF entry.path = <<>> /\ entry.serial = 0 THEN "neither a path nor a serial"
  ELSE IF entry.path # <<>> /\ ~LooksLikeDevicePath(entry.path) THEN "not a device path"
  ELSE ""

\* The entries of a block, up to one that runs past its end.
VolumesIn(block, count, size) ==
  LET whole == {i \in 1 .. count : i * size <= Len(block)}
      entry(i) == EntryAt(block, (i - 1) * size)
      kept == {i \in whole : Rejected(entry(i)) = ""}
  IN  [volumes |-> {[index |-> i, path |-> entry(i).path, serial |-> entry(i).serial,
                     created |-> entry(i).created] : i \in kept},
       warnings |-> {Rejected(entry(i)) : i \in whole \ kept}
                      \cup (IF whole # 1 .. count THEN {"a volume runs past the end"} ELSE {})]

\* readVolumes: nothing, and why, where the block cannot be what it declares.
ReadVolumes(data, version) ==
  LET blockAt == Field(data, HeaderCells)
      count == Field(data, HeaderCells + 1)
      blockSize == Field(data, HeaderCells + 2)
      end == IF blockAt + blockSize < Len(data) THEN blockAt + blockSize ELSE Len(data)
      none(warnings) == [volumes |-> {}, warnings |-> warnings]
  IN  IF EntrySize(version) = 0 THEN none({"no documented volume layout"})
      ELSE IF count <= 0 \/ blockAt <= 0 THEN none({})
      ELSE IF count > maxVolumes THEN none({"too many volumes"})
      ELSE IF blockSize < 0 \/ blockSize > maxBlockSize THEN none({"too large a block"})
      ELSE IF count * EntrySize(version) > blockSize THEN none({"the volumes do not fit the block"})
      ELSE VolumesIn(Slice(data, blockAt, end), count, EntrySize(version))

\* Parse.
ParsePrefetch(file) ==
  LET opened == Decompress(file)
      data == opened.bytes
      version == VersionOf(data)
      times == RunTimes(data, version)
      volumes == ReadVolumes(data, version)
  IN  IF opened.is = "error" THEN opened
      ELSE IF Field(data, 0) # SCCA THEN NotPrefetch("not a prefetch file")
      ELSE Run(version, times.times, volumes.volumes,
               opened.warnings \cup times.warnings \cup volumes.warnings)
=============================================================================
