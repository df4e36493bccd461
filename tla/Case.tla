------------------------------- MODULE Case -------------------------------
(***************************************************************************)
(* One run from its rules to its manifest (cmd/boobook, run): a sequence of *)
(* steps over the ledger, the case database and the manifest, any of which   *)
(* may fail and end it.  What a step leaves when the run stops, by an error   *)
(* or killed, is a state of this specification.                             *)
(***************************************************************************)
EXTENDS CaseStore

CONSTANTS Discovered,  \* the artefacts discovery placed, in its order
          Kind, Holds, \* of which kind each is, and what there is to be read of it
          LogsOf,      \* the transaction logs beside each hive
          Missing, Unlooked, \* the kinds not there, and those nobody could look for
          Rules,       \* the rule set
          MaxOdd       \* bound on the artefacts not read as they should be

Artefacts == {Discovered[k] : k \in DOMAIN Discovered}
Hives == {"SYSTEM", "SOFTWARE", "NTUSER", "USRCLASS"}

\* What may become of an artefact, besides being read whole.
Odd == [SYSTEM |-> {"unhashed", "unloadable", "unlogged", "unreplayed", "zoneless"},
        SOFTWARE |-> {"unhashed", "unloadable", "without", "empty"},
        NTUSER |-> {"unhashed", "unloadable"}, USRCLASS |-> {"unhashed", "unloadable"},
        EVTX |-> {"skipped", "unhashed", "unloadable", "torn"},
        SETUPAPI |-> {"unhashed", "torn", "unterminated"},
        LNK |-> {"unhashed", "unloadable"}, JUMPLIST |-> {"unhashed", "unloadable", "torn"},
        PREFETCH |-> {"unhashed", "unloadable", "torn"}]

\* A log is lost only where there is one.
MayBe(a) == {f \in Odd[Kind[a]] : f = "unlogged" => LogsOf[a] # <<>>}

ASSUME CaseAssumption ==
  /\ \A a \in Artefacts : Kind[a] \in DOMAIN Odd /\ a # None
  /\ MaxOdd \in Nat

\* A log is beside a hive and is none, and no kind that is looked for is a registry key.
ASSUME CollectionAssumption ==
  /\ Discovered \in Seq(STRING) /\ Missing \in Seq(STRING) /\ Unlooked \in Seq(STRING)
  /\ LogsOf \in [Artefacts -> Seq(STRING)]
  /\ \A a \in Artefacts : \A k \in DOMAIN LogsOf[a] : LogsOf[a][k] \notin Artefacts
  /\ \A k \in DOMAIN Missing : Missing[k] # "TimeZoneInformation"
  /\ \A k \in DOMAIN Unlooked : Unlooked[k] # "TimeZoneInformation"

\* Records of one file are read from places of their own.
Apart(records, place(_)) ==
  /\ IsFiniteSet(records)
  /\ \A r, s \in records : place(r) = place(s) => r = s

\* What is there to be read: a device key has a time, a value or a property
\* (recordDevnodes), and a shortcut has no path but that of its link.
ASSUME RecordsAssumption ==
  \A a \in Artefacts :
    /\ Kind[a] = "SYSTEM" =>
         /\ Apart(Holds[a].devnodes, LAMBDA d : d.key)
         /\ \A d \in Holds[a].devnodes :
              /\ d.written = TRUE \/ d.stored \ {None} # {} \/ d.properties # {}
              /\ None \notin d.properties
    /\ Kind[a] \in {"NTUSER", "USRCLASS"} => Apart(Holds[a].bags, LAMBDA b : b.key)
    /\ Kind[a] = "NTUSER" =>
         Apart(Holds[a].mru, LAMBDA e : e.key) /\ Apart(Holds[a].launched, LAMBDA e : e.key)
    /\ Kind[a] = "EVTX" =>
         IsFiniteSet(Holds[a].records) /\ \A r \in Holds[a].records : r.file = a
    /\ Kind[a] = "LNK" => Holds[a].link.recorded = None
    /\ Kind[a] = "JUMPLIST" => Apart(Holds[a].entries, LAMBDA e : e.at)
    /\ Kind[a] = "PREFETCH" => IsFiniteSet(Holds[a].launch.times)

Tables ==
  {"rule_setup_class", "rule_category", "rule", "rule_condition", "rule_indicator",
   "rule_review_fact", "rule_review_exception", "host_time_zone", "host_prefetch_setting",
   "devnode", "mount_entry", "portable_device", "emd_volume", "mount_point", "shell_bag",
   "mru_entry", "user_assist", "event", "event_field", "disk_layout", "disk_partition",
   "setup_section", "file_target", "prefetch_run", "prefetch_execution", "prefetch_volume",
   "prefetch_file", "source", "observation", "warning"} \cup Derived

VARIABLES fate,                            \* what becomes of each artefact
          stage, todo, agenda, status,     \* where the run is
          zone, setting,                   \* what later stages need of the SYSTEM hives
          sources, observations, warnings, \* the ledger
          db, settled, open,               \* the case, what its file holds, and the handle
          counts, outputs, manifest        \* the manifest as it is made, and as written

control == <<stage, todo, agenda, status>>
kept == <<zone, setting>>
ledger == <<sources, observations, warnings>>
case == <<db, settled, open>>
account == <<counts, outputs, manifest>>
vars == <<fate, control, kept, ledger, case, account>>

-----------------------------------------------------------------------------
(* Steps.                                                                   *)

Source(a) == <<[do |-> "source", of |-> a]>>
Observe(what) == <<[do |-> "observe", what |-> what]>>
Warn(artefact, path, severity) ==
  <<[do |-> "warn", what |-> {[artefact |-> artefact, path |-> path, severity |-> severity]}]>>
Absent(artefact, path) == Warn(artefact, path, "absent")
Keep(what, value) == <<[do |-> what, value |-> value]>>
Count(what, n) == <<[do |-> "count", what |-> what, n |-> n]>>
When(condition, steps) == IF condition THEN steps ELSE <<>>
\* One step for each of these.
Each(things, step(_)) == [k \in DOMAIN things |-> Head(step(things[k]))]

\* The artefacts of a kind, by their places in the order of discovery.
ByKind(kind) == {k \in DOMAIN Discovered : Kind[Discovered[k]] = kind}
Read(a) == a \in sources /\ fate[a] # "unloadable"
AllRead(kind) == {a \in Artefacts : Kind[a] = kind /\ Read(a)}
\* A thing with the file it was read from; how many such things the files of a kind held.
From(a, thing) == [source |-> a, of |-> thing]
Held(kind, what(_)) ==
  Cardinality(UNION {{From(a, thing) : thing \in what(Holds[a])} : a \in AllRead(kind)})

-----------------------------------------------------------------------------
(* Hives.                                                                   *)

hashTransactionLogs(a) ==
  Each(LogsOf[a], LAMBDA log : IF fate[a] = "unlogged" THEN Warn("TRANSACTION_LOG", log, "failed")
                               ELSE Source(log))
recordReplay(a) == When(fate[a] = "unreplayed", Warn(Kind[a], a, "malformed"))

\* Hashed with its logs, loaded and replayed; a user hive that cannot be hashed is left.
Hive(a, read) ==
  IF fate[a] = "unhashed" THEN When(Kind[a] \in {"SYSTEM", "SOFTWARE"}, Warn(Kind[a], a, "failed"))
  ELSE Source(a) \o hashTransactionLogs(a) \o
       IF fate[a] = "unloadable" THEN Warn(Kind[a], a, "failed") ELSE recordReplay(a) \o read

\* Mutant: a hive without a zone forgets the zone of the one before it.
ReadZoneLast(a) ==
  LET found == IF fate[a] = "zoneless" THEN None ELSE Holds[a].zone IN
  Keep("zone", found)
  \o When(found # None, Observe({Observation(a, "host.time_zone", found, found)}) \o LoadTimeZone(a, found))
ReadZone(a) ==
  LET found == Holds[a].zone IN
  When(fate[a] # "zoneless" /\ found # None,
       Keep("zone", found) \o Observe({Observation(a, "host.time_zone", found, found)})
         \o LoadTimeZone(a, found))

ReadSetting(a) ==
  Keep("setting", [id |-> a, found |-> Holds[a].setting])
  \o When(Holds[a].setting # None,
          Observe({Observation(a, "host.prefetch_setting", "EnablePrefetcher", Holds[a].setting)}))

SystemHive(a) ==
  Hive(a, ReadZone(a) \o ReadSetting(a)
          \o Observe(recordDevnodes(a, Holds[a].devnodes))
          \o Observe(recordMountEntries(a, Holds[a].mounts))
          \o LoadDevnodes(a, Holds[a].devnodes) \o LoadMountEntries(a, Holds[a].mounts))

\* Mutant: a host that has no setting is not said to have none.
EndSystemFound ==
  When(setting.found # None, LoadPrefetchSetting(setting.id, setting.found))
  \o Count("devnodes", Held("SYSTEM", LAMBDA h : h.devnodes))
EndSystem ==
  When(setting.id # None, LoadPrefetchSetting(setting.id, setting.found))
  \o Count("devnodes", Held("SYSTEM", LAMBDA h : h.devnodes))

SoftwareHive(a) ==
  LET volumes == IF fate[a] \in {"without", "empty"} THEN {} ELSE Holds[a].volumes IN
  Hive(a, Observe(recordPortableDevices(a, Holds[a].portable))
          \o When(volumes = {}, Absent("EMDMgmt", a))
          \o Observe(recordEMDMgmt(a, volumes))
          \o LoadPortableDevices(a, Holds[a].portable) \o LoadEMDVolumes(a, volumes))

UserHive(a) ==
  Hive(a, When(Kind[a] = "NTUSER",
               Observe(recordMountPoints(a, Holds[a].points)) \o LoadMountPoints(a, Holds[a].points)
               \o Observe(recordMRUEntries(a, Holds[a].mru)) \o LoadMRUEntries(a, Holds[a].mru)
               \o Observe(recordUserAssist(a, Holds[a].launched))
               \o LoadUserAssist(a, Holds[a].launched))
          \o Observe(recordShellBags(a, Holds[a].bags)) \o LoadShellBags(a, Holds[a].bags))

\* Mutant: the folders of the second hive of a user are loaded and not counted.
EndUserHivesFirst ==
     Count("shell_bags", Held("NTUSER", LAMBDA h : h.bags))
  \o Count("mru_entries", Held("NTUSER", LAMBDA h : h.mru))
  \o Count("user_assist", Held("NTUSER", LAMBDA h : h.launched))
EndUserHives ==
     Count("shell_bags", Held("NTUSER", LAMBDA h : h.bags) + Held("USRCLASS", LAMBDA h : h.bags))
  \o Count("mru_entries", Held("NTUSER", LAMBDA h : h.mru))
  \o Count("user_assist", Held("NTUSER", LAMBDA h : h.launched))

-----------------------------------------------------------------------------
(* Event logs, which are parsed before any of them is hashed, and the       *)
(* installation logs, read in the zone the hives gave.                      *)

\* Mutant: what a log lost of itself is not said.
EventLogUnsaid(a) ==
  CASE fate[a] = "skipped" -> <<>>
    [] fate[a] = "unhashed" -> Warn("EVTX", a, "failed")
    [] OTHER -> Source(a) \o When(fate[a] = "unloadable", Warn("EVTX", a, "failed"))
EventLog(a) ==
  CASE fate[a] = "skipped" -> <<>>
    [] fate[a] = "unhashed" -> Warn("EVTX", a, "failed")
    [] OTHER -> Source(a) \o When(fate[a] = "unloadable", Warn("EVTX", a, "failed"))
                          \o When(fate[a] = "torn", Warn("EVTX", a, "malformed"))

\* A torn log loses the records of a chunk; one that could not be opened has none.
Parsed(a) ==
  CASE fate[a] \in {"skipped", "unloadable"} -> {}
    [] fate[a] = "torn" -> {r \in Holds[a].records : ~r.torn}
    [] OTHER -> Holds[a].records
Records == UNION {Parsed(a) : a \in {b \in Artefacts : Kind[b] = "EVTX"}}

EndEventLogs ==
  LET sourceOf == [a \in Artefacts |-> IF a \in sources THEN a ELSE None]
      unattested == SetToSeq({r \in Records : sourceOf[r.file] = None})
      disks == DisksFromEvents(sourceOf, Records)
  IN     Each(unattested, LAMBDA r : Warn("EVTX", r.file, "failed"))
      \o Observe(recordEvents(sourceOf, Records)) \o LoadEvents(sourceOf, Records)
      \o LoadDisks(disks) \o Observe(recordDisks(disks))
      \o Count("event_records", Cardinality(Records))
      \o When(zone = None, Absent("TimeZoneInformation", None))

\* A log that stops being readable keeps the sections it gave.
SetupLog(a) ==
  IF fate[a] = "unhashed" THEN Warn("SETUPAPI", a, "failed")
  ELSE Source(a) \o When(fate[a] # "whole", Warn("SETUPAPI", a, "malformed"))
       \o Observe(recordSetupSections(a, Holds[a].sections))
       \o LoadSetupSections(a, Holds[a].sections, zone)

-----------------------------------------------------------------------------
(* File use: every shortcut and jump list is read before any of their rows  *)
(* is loaded, and so is every prefetch file.                                *)

File(a, read) ==
  IF fate[a] = "unhashed" THEN <<>>
  ELSE Source(a) \o IF fate[a] = "unloadable" THEN Warn(Kind[a], a, "malformed") ELSE read
Torn(a) == When(fate[a] = "torn", Warn(Kind[a], a, "malformed"))

Shortcut(a) == File(a, Observe(recordLink(a, Holds[a].link)))
JumpListFile(a) ==
  File(a, Torn(a) \o Observe(UNION {recordJumpEntry(a, e) : e \in Holds[a].entries}))
Prefetch(a) == File(a, Torn(a) \o Observe(recordPrefetchRun(a, Holds[a].launch)))

Targets ==
       {From(a, Holds[a].link) : a \in AllRead("LNK")}
  \cup UNION {{From(a, e) : e \in Holds[a].entries} : a \in AllRead("JUMPLIST")}
Launches == {From(a, Holds[a].launch) : a \in AllRead("PREFETCH")}

EndFileActivity == LoadFileTargets(Targets) \o Count("file_targets", Cardinality(Targets))
EndPrefetch ==
  LoadPrefetchRuns(Launches) \o Count("prefetch_runs", Cardinality(Launches))
  \o Count("prefetch_executions", Cardinality(UNION {{<<l.source, t>> : t \in l.of.times} : l \in Launches}))

-----------------------------------------------------------------------------
(* Stages, in the order of run().                                           *)

\* Mutant: the database is hashed and then closed.
recordOpenDatabase == <<[do |-> "record"], [do |-> "checkpoint"], [do |-> "close"]>>
recordCaseDatabase == <<[do |-> "checkpoint"], [do |-> "close"], [do |-> "record"]>>

Reading ==
  <<"rules", "discovery", "SYSTEM", "setting", "SOFTWARE", "NTUSER", "USRCLASS", "user hives", "EVTX",
    "events", "SETUPAPI", "LNK", "JUMPLIST", "targets", "PREFETCH", "launches">>
\* Mutant: the layers are derived before the ledger is loaded.
StagesDeriveFirst ==
  Reading \o <<"partial", "derive", "ledger", "export", "report", "database", "manifest">>
\* Mutant: the files are written before the layers are derived.
StagesExportFirst ==
  Reading \o <<"partial", "ledger", "export", "derive", "report", "database", "manifest">>
\* Mutant: the warnings of records read in part are collected after the ledger is loaded.
StagesWarnLast ==
  Reading \o <<"ledger", "partial", "derive", "export", "report", "database", "manifest">>
Stages ==
  Reading \o <<"partial", "ledger", "derive", "export", "report", "database", "manifest">>

Artefact(a) ==
  CASE Kind[a] = "SYSTEM" -> SystemHive(a)
    [] Kind[a] = "SOFTWARE" -> SoftwareHive(a)
    [] Kind[a] \in {"NTUSER", "USRCLASS"} -> UserHive(a)
    [] Kind[a] = "EVTX" -> EventLog(a)
    [] Kind[a] = "SETUPAPI" -> SetupLog(a)
    [] Kind[a] = "LNK" -> Shortcut(a)
    [] Kind[a] = "JUMPLIST" -> JumpListFile(a)
    [] Kind[a] = "PREFETCH" -> Prefetch(a)

Work(name) ==
  CASE name = "rules" -> LoadRules(Rules)
    [] name = "discovery" -> Each(Missing, LAMBDA kind : Absent(kind, kind))
                             \o Each(Unlooked, LAMBDA kind : Warn(kind, kind, "failed"))
    [] name = "setting" -> EndSystem
    [] name = "user hives" -> EndUserHives
    [] name = "events" -> EndEventLogs
    [] name = "targets" -> EndFileActivity
    [] name = "launches" -> EndPrefetch
    [] name = "partial" -> Each(SetToSeq(ParseWarnings(db)), LAMBDA kind : Warn(kind, None, "partial"))
    [] name = "ledger" -> LoadLedger(sources, observations, warnings)
    [] name = "derive" -> Consolidate
    [] name = "export" -> ExportAll
    [] name = "report" -> <<[do |-> "report"]>>
    [] name = "database" -> recordCaseDatabase
    [] name = "manifest" -> <<[do |-> "publish"]>>
    [] OTHER -> <<>>

Running == status = "running"
Idle == Running /\ agenda = <<>>

NextStage ==
  /\ Idle /\ todo = {} /\ stage < Len(Stages)
  /\ stage' = stage + 1
  /\ todo' = ByKind(Stages[stage + 1]) /\ agenda' = Work(Stages[stage + 1])
  /\ UNCHANGED <<fate, status, kept, ledger, case, account>>

TakeUp ==
  /\ Idle
  /\ \E k \in todo :
       /\ \A j \in todo : k <= j
       /\ agenda' = Artefact(Discovered[k]) /\ todo' = todo \ {k}
  /\ UNCHANGED <<fate, stage, status, kept, ledger, case, account>>

Completes ==
  /\ Idle /\ todo = {} /\ stage = Len(Stages)
  /\ status' = "complete"
  /\ UNCHANGED <<fate, stage, todo, agenda, kept, ledger, case, account>>

Doing(what) == Running /\ agenda # <<>> /\ Head(agenda).do = what
Done == agenda' = Tail(agenda) /\ UNCHANGED <<fate, stage, todo, status>>

-----------------------------------------------------------------------------
(* The ledger.                                                              *)

AddSource ==
  /\ Doing("source") /\ Done
  /\ sources' = sources \cup {Head(agenda).of}
  /\ UNCHANGED <<observations, warnings, kept, case, account>>

ObserveBatch ==
  /\ Doing("observe") /\ Done
  /\ observations' = observations \cup Head(agenda).what
  /\ UNCHANGED <<sources, warnings, kept, case, account>>

WarnOf ==
  /\ Doing("warn") /\ Done
  /\ warnings' = warnings \cup Head(agenda).what
  /\ UNCHANGED <<sources, observations, kept, case, account>>

KeepZone ==
  /\ Doing("zone") /\ Done
  /\ zone' = Head(agenda).value
  /\ UNCHANGED <<setting, ledger, case, account>>

KeepSetting ==
  /\ Doing("setting") /\ Done
  /\ setting' = Head(agenda).value
  /\ UNCHANGED <<zone, ledger, case, account>>

CountUp ==
  /\ Doing("count") /\ Done
  /\ counts' = [counts EXCEPT ![Head(agenda).what] = Head(agenda).n]
  /\ UNCHANGED <<kept, ledger, case, outputs, manifest>>

-----------------------------------------------------------------------------
(* The case database and the files.                                         *)

Insert ==
  /\ Doing("insert") /\ Done
  /\ db' = [db EXCEPT ![Head(agenda).table] = @ \cup Head(agenda).rows]
  /\ UNCHANGED <<kept, ledger, settled, open, account>>

\* Cleared, then filled from the view: two statements, each committed.
Derive ==
  /\ Doing("derive") /\ Done
  /\ db' = [db EXCEPT ![Head(agenda).table] = View(db, Head(agenda).reads)]
  /\ UNCHANGED <<kept, ledger, settled, open, account>>

exportView ==
  /\ Doing("export") /\ Done
  /\ outputs' = Append(outputs, [name |-> Head(agenda).name, holds |-> View(db, Head(agenda).reads)])
  /\ UNCHANGED <<kept, ledger, case, counts, manifest>>

\* The report is of the whole case and of the manifest so far, and may be declined.
writeReport ==
  /\ Doing("report") /\ Done
  /\ outputs' \in {outputs, Append(outputs, [name |-> "report.html", holds |-> View(db, Derived)])}
  /\ UNCHANGED <<kept, ledger, case, counts, manifest>>

Checkpoint ==
  /\ Doing("checkpoint") /\ Done
  /\ settled' = IF open THEN db ELSE settled
  /\ UNCHANGED <<kept, ledger, db, open, account>>

\* Closing may leave a log of what the file does not hold.
Close ==
  /\ Doing("close") /\ Done
  /\ settled' \in {settled, db} /\ open' = FALSE
  /\ UNCHANGED <<kept, ledger, db, account>>

RecordDatabase ==
  /\ Doing("record") /\ Done
  /\ outputs' = outputs \o <<[name |-> "case.duckdb", holds |-> settled]>>
                        \o When(settled # db, <<[name |-> "case.duckdb.wal", holds |-> db]>>)
  /\ UNCHANGED <<kept, ledger, case, counts, manifest>>

Publish ==
  /\ Doing("publish") /\ Done
  /\ manifest' = [written |-> TRUE, sources |-> sources, warnings |-> warnings,
                  observations |-> Cardinality(observations), outputs |-> outputs, counts |-> counts]
  /\ UNCHANGED <<kept, ledger, case, counts, outputs>>

\* Any of these may fail, and then the run ends: its own step undone, the handle closed.
Fallible == {"insert", "derive", "export", "report", "checkpoint", "close", "record", "publish"}
Fails ==
  /\ Running /\ agenda # <<>> /\ Head(agenda).do \in Fallible
  /\ status' = "failed" /\ open' = FALSE
  /\ UNCHANGED <<fate, stage, todo, agenda, kept, ledger, db, settled, account>>

-----------------------------------------------------------------------------
Init ==
  /\ \E odd \in {s \in SUBSET Artefacts : Cardinality(s) <= MaxOdd} :
       \E g \in {f \in [odd -> UNION {MayBe(a) : a \in odd}] : \A a \in odd : f[a] \in MayBe(a)} :
         fate = [a \in Artefacts |-> IF a \in odd THEN g[a] ELSE "whole"]
  /\ stage = 0 /\ todo = {} /\ agenda = <<>> /\ status = "running"
  /\ zone = None /\ setting = [id |-> None, found |-> None]
  /\ sources = {} /\ observations = {} /\ warnings = {}
  /\ db = [t \in Tables |-> {}] /\ settled = db /\ open = TRUE
  /\ counts = [c \in {"devnodes", "shell_bags", "mru_entries", "user_assist", "event_records",
                      "file_targets", "prefetch_runs", "prefetch_executions"} |-> 0]
  /\ outputs = <<>> /\ manifest = [written |-> FALSE]

Next ==
  \/ NextStage \/ TakeUp \/ Completes
  \/ AddSource \/ ObserveBatch \/ WarnOf \/ KeepZone \/ KeepSetting \/ CountUp
  \/ Insert \/ Derive \/ exportView \/ writeReport
  \/ Checkpoint \/ Close \/ RecordDatabase \/ Publish \/ Fails

Spec == Init /\ [][Next]_vars

-----------------------------------------------------------------------------
(* Properties.  What holds at every step holds of what a run that stops leaves. *)

Published == manifest.written
Evidence == Tables \ (Derived \cup {"source", "observation", "warning"} \cup
  {"rule_setup_class", "rule_category", "rule", "rule_condition", "rule_indicator",
   "rule_review_fact", "rule_review_exception"})
Disks == {"disk_layout", "disk_partition"}

\* Whatever is in the case, at whatever step a run stopped, was read from a file whose
\* hash the ledger has (LoadEvents, and the order of a source and its records in run);
\* but for the disks of an event log that could not be hashed, whose rows have no source.
RowsAttested ==
  \A t \in Evidence : \A r \in db[t] :
    \/ r.source \in sources
    \/ /\ t \in Disks /\ r.source = None
       /\ \E a \in Artefacts : Kind[a] = "EVTX" /\ fate[a] = "unhashed"

\* The same of every row: "nothing read from an unhashed file can be attested to"
\* (LoadEvents), and "any fact in them can be traced through here to a file and a hash"
\* (LoadLedger).  LoadDisks takes rows without asking for their source, which contradicts it,
\* so that no run checks it.
EveryRowTraced ==
  \A t \in Evidence : \A r \in db[t] : r.source \in sources

\* No row waits for the one it belongs to: a run that stops between two of a loader's
\* transactions leaves records with parts missing and no part of a record that is not
\* there (LoadEvents, LoadDisks, LoadPrefetchRuns, LoadRules).
ChildrenFollow ==
  /\ \A c \in db["event_field"] : \E p \in db["event"] : p.source = c.source /\ p.at = c.at
  /\ \A c \in db["disk_partition"] : \E p \in db["disk_layout"] : p.source = c.source /\ p.at = c.at
  /\ \A t \in {"prefetch_execution", "prefetch_volume", "prefetch_file"} :
       \A c \in db[t] : \E p \in db["prefetch_run"] : p.source = c.source
  /\ \A c \in db["rule_condition"] : c[1] \in db["rule"]
  /\ \A c \in db["rule_review_exception"] : c[1] \in db["rule_review_fact"]

\* An observation is of a row if it is of the same file and of the same place in it, or of
\* the key of a property below that of the device.
AboutRow(o, r) ==
  /\ o.source = r.source
  /\ o.at = r.at \/ \E property \in r.names : o.at = RegistryPath(r.at, property)

\* Every record of a source that is in the case of a run that ended is cited by the ledger
\* at the place it was read from, by a name it can be joined on if it has one (LoadLedger,
\* and the recorders).  A row without a source is cited by nothing that leads to a file,
\* and a disk signature only by the value it was read from.
Cited == Evidence \ {"host_prefetch_setting", "event_field", "disk_partition",
                      "prefetch_execution", "prefetch_file"}
RowsCited ==
  Published => \A t \in Cited : \A r \in db[t] :
    r.source \in db["source"] =>
      \E o \in db["observation"] : AboutRow(o, r) /\ (r.names # {} => o.value \in r.names)

\* And nothing is cited that the case does not hold, of a source or, as a disk of an event
\* log that could not be hashed is, of none.  The prefetch setting is apart: each SYSTEM
\* hive's is observed and the last one's is loaded.
CitationsHeld ==
  Published => \A o \in db["observation"] :
    o.kind = "host.prefetch_setting" \/ \E t \in Evidence : \E r \in db[t] : AboutRow(o, r)

\* A derived layer was computed from all that was loaded and from the layers before it:
\* "consolidated once here, after the last load and before the first read" (run).
DerivedFromTheCase ==
  Published => \A k \in DOMAIN Steps :
    \A u \in Steps[k][2] \ {Steps[j][1] : j \in k .. Len(Steps)} :
      {p[2] : p \in {q \in db[Steps[k][1]] : q[1] = u}} = db[u]

\* A derived layer is what its view answers of the finished case: "The reasoning is
\* unchanged, these are copies of v_device_grouping and v_device_fact_computed, so there
\* is still one place where each is decided" (Consolidate).
CopiesOfTheirViews ==
  Published => \A k \in DOMAIN Steps : db[Steps[k][1]] = View(db, Steps[k][2])

\* Every file the manifest names holds what its view answers of the finished case.
OutputsAreTheCase ==
  Published => \A k \in DOMAIN exports :
    \E n \in DOMAIN manifest.outputs :
      /\ manifest.outputs[n].name = exports[k].name
      /\ manifest.outputs[n].holds = View(db, exports[k].reads)

\* The database the manifest gives the hash of is closed and will not change, and with
\* the log beside it, if there is one, it is the whole case (recordCaseDatabase).
CaseFileSettled ==
  Published =>
    /\ ~open
    /\ \E n \in DOMAIN manifest.outputs :
         manifest.outputs[n].name = "case.duckdb" /\ manifest.outputs[n].holds = settled
    /\ settled = db \/ \E n \in DOMAIN manifest.outputs : manifest.outputs[n].name = "case.duckdb.wal"

\* The warnings of the case are those of the manifest, the last stage's among them, and
\* a record read only in part is behind one: "a warnings table missing the last phase's
\* warnings would be a coverage claim that is quietly wrong" (run).
WarningsReachTheCase ==
  Published =>
    /\ db["source"] = manifest.sources /\ db["warning"] = manifest.warnings
    /\ Cardinality(db["observation"]) = manifest.observations
    /\ \A t \in Evidence : (\E r \in db[t] : r.partial) =>
         \E w \in db["warning"] : w.severity = "partial" /\ w.artefact = Carrying[t]

\* What was not read whole is said, by a warning of the artefact or of a log beside it.
\* Three things are not.  A user hive or a file of the file use phase that cannot be
\* hashed is passed over, and an event log nobody asked for is not read; of these nothing
\* at all is in the case.  And a hive without a zone is not missed where another has one:
\* the case then has the other's.
PassedOver(a) ==
  \/ fate[a] = "skipped"
  \/ fate[a] = "unhashed" /\ Kind[a] \in {"NTUSER", "USRCLASS", "LNK", "JUMPLIST", "PREFETCH"}
LeftOut(a) == a \notin db["source"] /\ \A t \in Evidence : \A r \in db[t] : r.source # a
OthersZone(a) ==
  db["host_time_zone"] # {} /\ \A r \in db["host_time_zone"] : r.source # a
Warned(a) ==
  \E w \in manifest.warnings : w.path = a \/ \E k \in DOMAIN LogsOf[a] : w.path = LogsOf[a][k]
LossIsSaid ==
  Published => \A a \in Artefacts :
    \/ fate[a] = "whole" \/ Warned(a)
    \/ PassedOver(a) /\ LeftOut(a)
    \/ /\ fate[a] = "zoneless"
       /\ OthersZone(a) \/ \E w \in manifest.warnings : w.artefact = "TimeZoneInformation"

\* The same without leave to pass files over: "Warning records something that went wrong or
\* was absent", and a failure "leaves a silence that must never be offered as evidence there
\* was nothing there" (Warning).  The files passed over contradict it, so that no run checks it.
EveryLossIsSaid ==
  Published => \A a \in Artefacts : fate[a] \in {"whole", "skipped", "zoneless"} \/ Warned(a)

\* Local times are read in a zone the case has, whichever hive it came from, and where it
\* has none they are not read and that is said (run, LoadTimeZone, LoadSetupSections).
SectionsInAZoneOfTheCase ==
  Published =>
    LET zones == {z.at : z \in db["host_time_zone"]} IN
    /\ \A s \in db["setup_section"] : IF zones = {} THEN s.zone = None ELSE s.zone \in zones
    /\ zones = {} <=> \E w \in db["warning"] : w.artefact = "TimeZoneInformation"

\* Whether the host kept prefetch files is answered once, by any hive that was read and
\* also where the value was not there (LoadPrefetchSetting).
SettingAnswered ==
  Published =>
    Cardinality(db["host_prefetch_setting"]) = (IF AllRead("SYSTEM") = {} THEN 0 ELSE 1)

\* What the manifest counts is what the case holds.  Event records are counted as they
\* were parsed, those that were then left out included.
CountsAreRows ==
  Published =>
    /\ \A c \in {<<"devnodes", "devnode">>, <<"shell_bags", "shell_bag">>, <<"mru_entries", "mru_entry">>,
                  <<"user_assist", "user_assist">>, <<"file_targets", "file_target">>,
                  <<"prefetch_runs", "prefetch_run">>, <<"prefetch_executions", "prefetch_execution">>} :
         manifest.counts[c[1]] = Cardinality(db[c[2]])
    /\ manifest.counts["event_records"] >= Cardinality(db["event"])

\* At whatever step a run stops, each row of the case stands on a hashed file, the disks of
\* an unhashed event log apart, and on the row it is a part of.
RowsGrounded == RowsAttested /\ ChildrenFollow

\* The rows of the case and the observations of the ledger that have a source are about the
\* same records.
CitationsMatch == RowsCited /\ CitationsHeld

\* What the manifest says of the case is the case: its exports, the hash of its file and its
\* counts.
ManifestIsTheCase == OutputsAreTheCase /\ CaseFileSettled /\ CountsAreRows

\* Whatever was not read, or read only in part, is behind a warning or not in the case at all,
\* and every warning is in the case and in the manifest.
LossReachesTheCase == WarningsReachTheCase /\ LossIsSaid

\* What one hive of several says of the host is what the case says of the host.
HostSettingsHold == SectionsInAZoneOfTheCase /\ SettingAnswered
=============================================================================
