----------------------------- MODULE Recorders -----------------------------
(***************************************************************************)
(* The recorders of cmd/boobook: what the ledger is told of each record that *)
(* was read.  An observation names its source, the place in it (a key, a     *)
(* value, a record id, a line) and the value it cites.  Text is a name, and  *)
(* the empty name is a field the record does not have.                       *)
(***************************************************************************)
EXTENDS Sequences, Integers, FiniteSets

\* The empty name.
None == ""

Observation(id, kind, at, value) == [source |-> id, kind |-> kind, at |-> at, value |-> value]

FirstOf(names) ==
  LET named == {k \in DOMAIN names : names[k] # None}
  IN  IF named = {} THEN None ELSE names[CHOOSE k \in named : \A j \in named : k <= j]

Offset(volume, offset) == IF volume = None THEN None ELSE volume \o "#" \o offset

\* A property has a key of its own, below that of its device.
RegistryPath(key, property) == key \o "/Properties/" \o property

\* Every value and property a device key stores, and when the key was last written.
recordDevnodes(id, devnodes) ==
  UNION {     {Observation(id, "devnode.value", d.key, v) : v \in d.stored \ {None}}
         \cup (IF d.written THEN {Observation(id, "devnode.key_last_write", d.key, None)} ELSE {})
         \cup {Observation(id, "devnode.property", RegistryPath(d.key, p), p) : p \in d.properties} : d \in devnodes}

\* Two numbers as a sentence: no column of a mount entry holds this.
Signature(signature, offset) == "disk_signature=" \o signature \o " offset=" \o offset

\* What a drive letter or a volume was mapped to, whichever way it was written.
recordMountEntries(id, entries) ==
  {Observation(id, "mounted_device", e.name,
     FirstOf(<<e.device, e.partition, Offset(e.volume, e.offset),
               IF e.target = "mbr_signature" THEN Signature(e.signature, e.offset) ELSE None>>)) :
   e \in entries}

recordPortableDevices(id, devices) ==
  {Observation(id, "portable_device", d.path, FirstOf(<<d.instance, Offset(d.volume, d.offset)>>)) :
   d \in devices}

recordEMDMgmt(id, entries) ==
  {Observation(id, "emdmgmt.volume", e.path, e.serial) : e \in entries}

\* Mutant: a share, which has neither a volume nor a letter, is cited by nothing.
recordMountPointsLocal(id, points) ==
  {Observation(id, "mount_point", p.path, FirstOf(<<p.volume, p.letter>>)) : p \in points}
\* What a profile knew of a volume; a share has neither a volume nor a letter.
recordMountPoints(id, points) ==
  {Observation(id, "mount_point", p.path, FirstOf(<<p.volume, p.letter, p.remote>>)) : p \in points}

recordShellBags(id, bags) ==
  {Observation(id, "shell_bag", b.key, b.path) : b \in bags}

recordMRUEntries(id, entries) ==
  {Observation(id, "mru", e.key, FirstOf(<<e.path, e.name>>)) : e \in entries}

recordUserAssist(id, entries) ==
  {Observation(id, "user_assist", e.key, e.name) : e \in entries}

recordSetupSections(id, sections) ==
  {Observation(id, "setupapi", s.line, s.instance) : s \in sections}

\* Mutant: records that are left out of the case are cited all the same.
recordEventsAll(sourceOf, records) ==
  {Observation(sourceOf[r.file], "event", r.at, r.instance) : r \in records}
\* Records of a log that has no source are said to be left out, and are.
recordEvents(sourceOf, records) ==
  {Observation(sourceOf[r.file], "event", r.at, r.instance) :
     r \in {s \in records : sourceOf[s.file] # None}}

recordDisks(disks) ==
  {Observation(d.source, "disk.layout", d.at, d.instance) : d \in disks}

recordLink(id, link) == {Observation(id, "shell_link", link.at, link.path)}

\* An entry is cited by the path of its link, and by the list's where that has none.
recordJumpEntry(id, entry) ==
  {Observation(id, "jump_list_entry", entry.at, FirstOf(<<entry.path, entry.recorded>>))}

\* A launch, and each volume it touched: the serial is what joins it to a device.  A file
\* holds one launch, and no place in it is named.
recordPrefetchRun(id, launch) ==
  {Observation(id, "prefetch.run", None, launch.path)}
    \cup {Observation(id, "prefetch.volume", None, serial) : serial \in launch.serials}
=============================================================================
