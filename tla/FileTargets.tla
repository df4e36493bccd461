----------------------------- MODULE FileTargets -----------------------------
(***************************************************************************)
(* The rows a link and an entry of a jump list become, store.FileTarget.  A  *)
(* row says of the medium only what a volume identifier said.  The sizes,    *)
(* the raw forms of times and the strings that are carried as they are       *)
(* stand for themselves in the link.                                         *)
(***************************************************************************)
EXTENDS ShellLink

\* A column that is null, or an empty string where that says that nothing is known.
Null == [is |-> "null"]
Value(v) == [is |-> "value", value |-> v]

\* FullPath: the base or the share, joined to the suffix.
Join(base, rest) ==
  IF base[Len(base)] = Backslash THEN base \o rest ELSE base \o <<Backslash>> \o rest
FullPath(link) ==
  LET base == IF link.localBasePath # <<>> THEN link.localBasePath ELSE link.networkShare IN
  IF base = <<>> THEN link.commonPath
  ELSE IF link.commonPath = <<>> THEN base ELSE Join(base, link.commonPath)

Removable(link) == link.volumeIDPresent /\ link.driveType = 2

\* Mutant: a link that carried no volume identifier has the drive type that is zero.
VolumeAsStored(link) ==
  [driveType |-> Value(link.driveType), serial |-> Value(link.driveSerial), removable |-> Removable(link)]

\* driveTypeOf, volumeSerialOf.
VolumeOf(link) ==
  [driveType |-> IF link.volumeIDPresent THEN Value(link.driveType) ELSE Null,
   serial |-> IF link.volumeIDPresent THEN Value(link.driveSerial) ELSE Null,
   removable |-> Removable(link)]

Row(origin, path, letter, volume, itemPath, machine, access, pin, warnings) ==
  [origin |-> origin, path |-> path, letter |-> letter, volume |-> volume, itemPath |-> itemPath,
   machine |-> machine, access |-> access, pin |-> pin, warnings |-> warnings]

\* FromLink.
FromLink(parsed) ==
  Row("shell_link", FullPath(parsed.link), parsed.link.driveLetter, VolumeOf(parsed.link),
      parsed.link.targetPath, parsed.link.machineID, Null, Null, parsed.warnings)

\* FromJumpEntry: the path of the link, where it has one, and the list's where not.
FromJumpEntry(entry) ==
  LET own == FullPath(entry.link)
      listed(recorded, value) == IF entry.present /\ recorded THEN Value(value) ELSE Null
  IN  Row("jump_list", IF own # <<>> THEN own ELSE entry.dest.path, entry.link.driveLetter,
          VolumeOf(entry.link), entry.link.targetPath, entry.dest.machineID,
          listed(entry.dest.accessRead, entry.dest.access),
          listed(entry.dest.pinRead, entry.dest.pinned), entry.warned)
=============================================================================
