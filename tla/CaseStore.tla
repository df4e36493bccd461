----------------------------- MODULE CaseStore -----------------------------
(***************************************************************************)
(* The case database (internal/store): what each loader inserts, in which   *)
(* order and in which transactions, and the layers derived from it.         *)
(*                                                                          *)
(* A row keeps its source, the place in it, the names it can be joined on,  *)
(* and whether it was read only in part.  Its other columns decide nothing   *)
(* here.  A view is identified with the rows it can draw on.                 *)
(***************************************************************************)
EXTENDS Recorders, SequencesExt

Row(id, at, names, partial) ==
  [source |-> id, at |-> at, names |-> names \ {None}, partial |-> partial]

\* One transaction, and none where there is nothing to insert.
insert(table, rows) ==
  IF rows = {} THEN <<>> ELSE <<[do |-> "insert", table |-> table, rows |-> rows]>>

LoadRules(rules) ==
     insert("rule_setup_class", rules.classes)
  \o insert("rule_category", rules.categories)
  \o insert("rule", {r.id : r \in rules.rules})
  \o insert("rule_condition", UNION {{<<r.id, fact>> : fact \in r.facts} : r \in rules.rules})
  \o insert("rule_indicator", rules.indicators)
  \o insert("rule_review_fact", {v.fact : v \in rules.reviews})
  \o insert("rule_review_exception", UNION {{<<v.fact, u>> : u \in v.unless} : v \in rules.reviews})

LoadTimeZone(id, zone) == insert("host_time_zone", {Row(id, zone, {}, FALSE)})
LoadPrefetchSetting(id, setting) ==
  insert("host_prefetch_setting", {Row(id, setting, {}, FALSE)})

LoadDevnodes(id, devnodes) ==
  insert("devnode", {Row(id, d.key, d.stored \cup d.properties, FALSE) : d \in devnodes})
\* A disk signature and the offset of a partition are numbers, and no name.
LoadMountEntries(id, entries) ==
  insert("mount_entry",
    {Row(id, e.name, {e.device, e.partition, Offset(e.volume, e.offset)}, FALSE) : e \in entries})
LoadPortableDevices(id, devices) ==
  insert("portable_device",
    {Row(id, d.path, {d.instance, Offset(d.volume, d.offset)}, FALSE) : d \in devices})
LoadEMDVolumes(id, entries) ==
  insert("emd_volume", {Row(id, e.path, {e.serial}, FALSE) : e \in entries})
LoadMountPoints(id, points) ==
  insert("mount_point", {Row(id, p.path, {p.volume, p.letter, p.remote}, FALSE) : p \in points})
LoadShellBags(id, bags) ==
  insert("shell_bag", {Row(id, b.key, {b.path}, b.partial) : b \in bags})
LoadMRUEntries(id, entries) ==
  insert("mru_entry", {Row(id, e.key, {e.path, e.name}, e.partial) : e \in entries})
LoadUserAssist(id, entries) ==
  insert("user_assist", {Row(id, e.key, {e.name}, e.partial) : e \in entries})

\* A section keeps the zone its local times were read in: none where no zone was found.
LoadSetupSections(id, sections, zone) ==
  insert("setup_section",
    {[source |-> id, at |-> s.line, names |-> {s.instance} \ {None}, partial |-> FALSE, zone |-> zone] :
     s \in sections})

\* Mutant: records are loaded whether or not their log was hashed.
AttestedAnyway(sourceOf, records) == records
\* Nothing read from a log that could not be hashed is loaded.
Attested(sourceOf, records) == {r \in records : sourceOf[r.file] # None}
LoadEvents(sourceOf, records) ==
  LET kept == Attested(sourceOf, records) IN
     insert("event", {Row(sourceOf[r.file], r.at, {r.instance}, FALSE) : r \in kept})
  \o insert("event_field",
       UNION {{Row(sourceOf[r.file], r.at, {f}, FALSE) : f \in r.fields} : r \in kept})

\* Decoded where a record carries a layout or a boot record, and whatever its source.
DisksFromEvents(sourceOf, records) ==
  {[source |-> sourceOf[r.file], at |-> r.at, instance |-> r.instance,
    partitions |-> IF r.layout = "undecoded" THEN {} ELSE r.partitions,
    partial |-> r.layout = "undecoded"] : r \in {s \in records : s.layout # "none"}}

\* Mutant: the partitions of a disk are loaded before the disk.
LoadDisksInside(disks) ==
     insert("disk_partition",
       UNION {{Row(d.source, d.at, {p}, FALSE) : p \in d.partitions} : d \in disks})
  \o insert("disk_layout", {Row(d.source, d.at, {d.instance}, d.partial) : d \in disks})
LoadDisks(disks) ==
     insert("disk_layout", {Row(d.source, d.at, {d.instance}, d.partial) : d \in disks})
  \o insert("disk_partition",
       UNION {{Row(d.source, d.at, {p}, FALSE) : p \in d.partitions} : d \in disks})

LoadFileTargets(targets) ==
  insert("file_target",
    {Row(t.source, t.of.at, {FirstOf(<<t.of.path, t.of.recorded>>)}, t.of.partial) : t \in targets})

LoadPrefetchRuns(runs) ==
     insert("prefetch_run", {Row(r.source, None, {r.of.path}, r.of.partial) : r \in runs})
  \o insert("prefetch_execution",
       UNION {{Row(r.source, None, {t}, FALSE) : t \in r.of.times} : r \in runs})
  \o insert("prefetch_volume",
       UNION {{Row(r.source, None, {s}, FALSE) : s \in r.of.serials} : r \in runs})
  \o insert("prefetch_file",
       UNION {{Row(r.source, None, {f}, FALSE) : f \in r.of.files} : r \in runs})

LoadLedger(sources, observations, warnings) ==
  insert("source", sources) \o insert("observation", observations) \o insert("warning", warnings)

-----------------------------------------------------------------------------
(* What the ledger is told of rows that were read only in part.             *)

\* Each table whose rows carry warnings, and what its records are called.
Carrying == [shell_bag |-> "shell_bag", mru_entry |-> "mru_entry", user_assist |-> "user_assist",
             disk_layout |-> "disk_layout", file_target |-> "file_record", prefetch_run |-> "prefetch"]
ParseWarnings(db) == {Carrying[t] : t \in {u \in DOMAIN Carrying : \E r \in db[u] : r.partial}}

-----------------------------------------------------------------------------
(* The derived layers, and what is written of the whole.                    *)

GroupingReads ==
  {"devnode", "event", "mount_entry", "portable_device", "setup_section", "source"}
FactReads ==
  {"devnode", "disk_layout", "disk_partition", "event", "event_field", "file_target", "mount_entry",
   "portable_device", "prefetch_file", "prefetch_run", "prefetch_volume", "rule_setup_class",
   "setup_section", "source", "device_group", "file_attribution"}
AttributionReads ==
  {"disk_layout", "disk_partition", "emd_volume", "event", "event_field", "file_target",
   "mount_entry", "mru_entry", "portable_device", "prefetch_execution", "prefetch_file",
   "prefetch_run", "prefetch_volume", "shell_bag", "source", "user_assist", "device_group",
   "device_fact"}
MomentReads ==
  {"devnode", "disk_layout", "disk_partition", "event", "event_field", "file_target",
   "host_time_zone", "mount_point", "mru_entry", "prefetch_execution", "prefetch_file",
   "prefetch_run", "prefetch_volume", "setup_section", "shell_bag", "source", "user_assist",
   "device_group", "file_attribution"}

\* Each derived table with the tables its view reads, in the order Consolidate fills them.
Steps == <<<<"device_group", GroupingReads>>, <<"device_fact", FactReads>>,
           <<"file_attribution", AttributionReads>>, <<"timeline_moment_member", MomentReads>>>>
Derived == {Steps[k][1] : k \in DOMAIN Steps}

\* What a view over these tables can draw on.
View(db, tables) == UNION {{<<t, row>> : row \in db[t]} : t \in tables}

Consolidate == [k \in DOMAIN Steps |->
  [do |-> "derive", table |-> Steps[k][1], reads |-> Steps[k][2]]]

\* The files written for an analyst: those over the derived layers and the ledger, and
\* one for the rest, which read what was loaded in the same way.
exports ==
  <<[name |-> "data/devices.csv", reads |-> {"device_fact", "device_group"}],
    [name |-> "data/events.csv", reads |-> {"event", "source"}],
    [name |-> "data/file-attribution.csv", reads |-> {"file_attribution"}],
    [name |-> "data/timeline-significant.csv",
     reads |-> {"device_fact", "device_group", "file_attribution"}],
    [name |-> "data/timeline-moments.csv", reads |-> {"timeline_moment_member"}],
    [name |-> "provenance/sources.csv", reads |-> {"source"}],
    [name |-> "provenance/observations.jsonl", reads |-> {"observation", "source"}]>>
ExportAll == [k \in DOMAIN exports |->
  [do |-> "export", name |-> exports[k].name, reads |-> exports[k].reads]]
=============================================================================
