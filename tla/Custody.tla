------------------------------ MODULE Custody ------------------------------
(***************************************************************************)
(* The chain of custody of one run: what internal/provenance hashes, what   *)
(* the parsers read, and what cmd/boobook records of both, over evidence    *)
(* that something else may be changing (a live host, a share, a collection  *)
(* still being written).                                                    *)
(*                                                                          *)
(* Hashing a file and parsing it are separate opens of one path.  A file's  *)
(* bytes are a version number: every rewrite gives bytes it never had       *)
(* before, and may keep the size and the last-written time.                 *)
(***************************************************************************)
EXTENDS Integers, Sequences, FiniteSets, Functions

CONSTANTS Hives, EventLogs, Links,  \* sequences of paths, in reading order
          LogsOf,                   \* the transaction logs beside each hive
          WarnedHives,              \* the hives read by the SYSTEM and SOFTWARE phases
          WarnedLinks,              \* of Links, the SetupAPI logs
          MaxChanges,               \* bound on changes to the evidence
          NoSource, NoTime

InSeq(s) == {s[i] : i \in 1..Len(s)}
HiveFiles == InSeq(Hives)
EventFiles == InSeq(EventLogs)
LinkFiles == InSeq(Links)
LogFiles == UNION {InSeq(LogsOf[h]) : h \in HiveFiles}
Files == HiveFiles \cup LogFiles \cup EventFiles \cup LinkFiles

\* Discovery places each path once, under one kind.
ASSUME CustodyAssumption ==
  /\ Hives \in Seq(HiveFiles) /\ EventLogs \in Seq(EventFiles) /\ Links \in Seq(LinkFiles)
  /\ LogsOf \in [HiveFiles -> Seq(LogFiles)]
  /\ WarnedHives \subseteq HiveFiles /\ WarnedLinks \subseteq LinkFiles
  /\ HiveFiles \cap LogFiles = {} /\ LinkFiles \cap (HiveFiles \cup LogFiles) = {}
  /\ EventFiles \cap (HiveFiles \cup LogFiles \cup LinkFiles) = {}
  /\ MaxChanges \in Nat
  /\ NoSource \notin Files /\ NoTime \notin Nat

\* Locate visits a directory once for each kind, and a transaction log has its hive's name.
ASSUME PlacedOnceAssumption ==
  /\ IsInjective(Hives) /\ IsInjective(EventLogs) /\ IsInjective(Links)
  /\ \A h, k \in HiveFiles : h # k => InSeq(LogsOf[h]) \cap InSeq(LogsOf[k]) = {}

VARIABLES disk,          \* what each path holds now
          changes,       \* changes made to the evidence so far
          phase, step,   \* where the run is
          todo, logs,    \* files of this phase, transaction logs of this hive, not yet read
          held,          \* what os.Stat said of the file being hashed
          copied,        \* what the recovery or the parse in hand read
          parsed,        \* what the event log parse read
          sequence, sources, observations, warnings,   \* the ledger
          case,          \* the ledger as the case database holds it
          manifest       \* the ledger as the manifest holds it

evidence == <<disk, changes>>
control == <<phase, step, todo, logs, held, copied, parsed>>
ledger == <<sequence, sources, observations, warnings>>
written == <<case, manifest>>
vars == <<evidence, control, ledger, written>>

Nothing == <<>>
Unread == -1
NoStat == [size |-> 0, modified |-> 0]

Init ==
  /\ disk = [f \in Files |-> [there |-> TRUE, bytes |-> 0, size |-> 0, modified |-> 0]]
  /\ changes = 0
  /\ phase = "hives" /\ step = "stat" /\ todo = Hives /\ logs = <<>>
  /\ held = NoStat /\ copied = {} /\ parsed = [f \in EventFiles |-> Unread]
  /\ sequence = 0 /\ sources = [f \in Files |-> NoSource]
  /\ observations = {} /\ warnings = {}
  /\ case = Nothing /\ manifest = Nothing

-----------------------------------------------------------------------------
(* The evidence, changing under the run.                                    *)

Rewrite(f) ==
  /\ disk[f].there
  /\ \E size \in {disk[f].size, disk[f].size + 1}, modified \in {disk[f].modified, changes + 1} :
       disk' = [disk EXCEPT ![f] = [there |-> TRUE, bytes |-> changes + 1,
                                    size |-> size, modified |-> modified]]

Touch(f) ==
  /\ disk[f].there
  /\ disk' = [disk EXCEPT ![f].modified = changes + 1]

ComesOrGoes(f) == disk' = [disk EXCEPT ![f].there = ~@]

EvidenceChanges ==
  /\ changes < MaxChanges /\ phase \notin {"done", "failed"}
  /\ changes' = changes + 1
  /\ \E f \in Files : Rewrite(f) \/ Touch(f) \/ ComesOrGoes(f)
  /\ UNCHANGED <<control, ledger, written>>

-----------------------------------------------------------------------------
(* Ledger.AddSource: a sequence number, os.Stat, hashFile, append.          *)

Current == IF logs # <<>> THEN Head(logs) ELSE Head(todo)

Warn(severity, f) == warnings' = warnings \cup {[severity |-> severity, file |-> f]}

\* The phase has no more to do with this artefact.
Finished == todo' = Tail(todo) /\ logs' = <<>> /\ step' = "stat" /\ copied' = {}

\* After a hive its transaction logs are hashed; after the last of them it is read.
LogsNext(rest) ==
  /\ logs' = rest /\ step' = IF rest = <<>> THEN "read" ELSE "stat"
  /\ UNCHANGED <<todo, copied>>

\* The artefacts whose phases say nothing of a file that cannot be hashed: a user hive, a
\* shortcut, a jump list, a prefetch file.
Unwarned == (HiveFiles \ WarnedHives) \cup (LinkFiles \ WarnedLinks)

\* Mutant: an event log that cannot be hashed is passed over in silence too.
SilentEvents(f) == f \in (Files \ (WarnedHives \cup WarnedLinks))

\* They are passed over; anything else is warned of.
Silent(f) == f \in Unwarned

NotHashed(f) ==
  /\ IF Silent(f) THEN UNCHANGED warnings ELSE Warn("failed", f)
  /\ IF logs # <<>> THEN LogsNext(Tail(logs)) ELSE Finished
  /\ UNCHANGED <<sources, observations, held>>

AddSourceStat ==
  /\ phase \in {"hives", "events", "links"} /\ step = "stat" /\ todo # <<>>
  /\ sequence' = sequence + 1
  /\ IF disk[Current].there
     THEN /\ held' = [size |-> disk[Current].size, modified |-> disk[Current].modified]
          /\ step' = "hash"
          /\ UNCHANGED <<todo, logs, copied, sources, observations, warnings>>
     ELSE NotHashed(Current)
  /\ UNCHANGED <<evidence, phase, parsed, written>>

Source(f) == [sequence |-> sequence, digest |-> disk[f].bytes, size |-> held.size,
              modified |-> held.modified, checked |-> FALSE, verified |-> FALSE,
              replayed |-> FALSE]

Hashed(f) ==
  CASE f \in HiveFiles -> LogsNext(LogsOf[f]) /\ UNCHANGED warnings
    [] f \in LogFiles -> LogsNext(Tail(logs)) /\ UNCHANGED warnings
    [] f \in EventFiles -> /\ Finished
                           /\ \/ parsed[f] = Unread /\ Warn("failed", f)
                              \/ parsed[f] # Unread /\ (UNCHANGED warnings \/ Warn("malformed", f))
    [] f \in LinkFiles -> LogsNext(<<>>) /\ UNCHANGED warnings

AddSourceHash ==
  /\ phase \in {"hives", "events", "links"} /\ step = "hash"
  /\ IF disk[Current].there
     THEN /\ sources' = [sources EXCEPT ![Current] = Source(Current)]
          /\ Hashed(Current)
          /\ UNCHANGED <<observations, held>>
     ELSE NotHashed(Current)
  /\ UNCHANGED <<evidence, phase, parsed, sequence, written>>

-----------------------------------------------------------------------------
(* Registry hives: registry.LoadHive, recordReplay, the record... functions. *)

Observe(source, read, time) ==
  observations' = observations \cup {[source |-> source, read |-> read, time |-> time]}

\* LoadHive fails, at the open, in the plain open after a failed recovery, or on
\* the recovered copy: the hive is warned of, whichever phase reads it.
HiveUnreadable ==
  /\ phase = "hives" /\ step \in {"read", "compare"}
  /\ Warn("failed", Head(todo)) /\ Finished
  /\ UNCHANGED <<evidence, phase, held, parsed, sequence, sources, observations, written>>

\* RecoverHive copies the hive and writes into the copy the pages of the logs
\* that apply.
Recover ==
  /\ phase = "hives" /\ step = "read" /\ disk[Head(todo)].there
  /\ \E applied \in SUBSET {l \in InSeq(LogsOf[Head(todo)]) : disk[l].there} :
       copied' = {<<f, disk[f].bytes>> : f \in applied \cup {Head(todo)}}
  /\ step' = "compare"
  /\ UNCHANGED <<evidence, phase, todo, logs, held, parsed, ledger, written>>

\* RecoverHive fails: the hive is opened again and parsed as stored.
OpenPlain ==
  /\ phase = "hives" /\ step = "read" /\ disk[Head(todo)].there
  /\ LET f == Head(todo) IN
       /\ Observe(f, {<<f, disk[f].bytes>>}, NoTime)
       /\ Warn("malformed", f)
  /\ Finished
  /\ UNCHANGED <<evidence, phase, held, parsed, sequence, sources, written>>

\* Mutant: replay is claimed wherever recovery returned without an error.
DiffersAlways(f) == disk[f].there

\* recoveredDiffers opens the hive once more by its path; where it cannot, the
\* claim that a log was applied is not made.
Differs(f) ==
  disk[f].there /\ (<<f, disk[f].bytes>> \notin copied \/ Cardinality(copied) > 1)

CompareAndRecord ==
  /\ phase = "hives" /\ step = "compare"
  /\ LET f == Head(todo) IN
       /\ sources' = [sources EXCEPT ![f].replayed = Differs(f)]
       /\ Observe(f, copied, NoTime)
  /\ Finished
  /\ UNCHANGED <<evidence, phase, held, parsed, sequence, warnings, written>>

-----------------------------------------------------------------------------
(* Event logs: parsed by a pool of workers, then hashed one by one, then    *)
(* recorded together.                                                       *)

\* The i-th of those left; the workers finish in any order.
ParseEventLog(i) ==
  /\ phase = "events" /\ step = "parse"
  /\ LET f == todo[i] IN
       parsed' = [parsed EXCEPT ![f] = IF disk[f].there THEN disk[f].bytes ELSE Unread]
  /\ todo' = SubSeq(todo, 1, i - 1) \o SubSeq(todo, i + 1, Len(todo))
  /\ UNCHANGED <<evidence, phase, step, logs, held, copied, ledger, written>>

ParseReturns ==
  /\ phase = "events" /\ step = "parse" /\ todo = <<>>
  /\ todo' = EventLogs /\ step' = "stat"
  /\ UNCHANGED <<evidence, phase, logs, held, copied, parsed, ledger, written>>

\* Mutant: a file whose parse failed is loaded with the rest.
RecordedAll == {f \in EventFiles : sources[f] # NoSource}

\* The files whose records are loaded: those with a source.
Recorded == {f \in EventFiles : parsed[f] # Unread /\ sources[f] # NoSource}
Unattested == {f \in EventFiles : parsed[f] # Unread /\ sources[f] = NoSource}

\* recordEvents and LoadEvents leave out the records of a file with no source;
\* DisksFromEvents does not, and gives theirs the empty source id.
RecordEvents ==
  /\ phase = "events" /\ step = "stat" /\ todo = <<>>
  /\ \E withDisks \in SUBSET EventFiles :
       observations' = observations
         \cup {[source |-> f, read |-> {<<f, parsed[f]>>}, time |-> NoTime] : f \in Recorded}
         \cup {[source |-> NoSource, read |-> {<<f, parsed[f]>>}, time |-> NoTime] :
                 f \in Unattested \cap withDisks}
  /\ warnings' = warnings \cup {[severity |-> "failed", file |-> f] : f \in Unattested}
  /\ phase' = "links" /\ todo' = Links
  /\ UNCHANGED <<evidence, step, logs, held, copied, parsed, sequence, sources, written>>

-----------------------------------------------------------------------------
(* SetupAPI logs, shortcuts, jump lists and prefetch files.                 *)

\* Mutant: a file that will not parse is passed over in silence.
LinkSkipped ==
  /\ phase = "links" /\ step = "read"
  /\ Finished
  /\ UNCHANGED <<evidence, phase, held, parsed, ledger, written>>

LinkUnreadable ==
  /\ phase = "links" /\ step = "read"
  /\ Warn("malformed", Head(todo)) /\ Finished
  /\ UNCHANGED <<evidence, phase, held, parsed, sequence, sources, observations, written>>

\* What could only be read in part is kept, and warned of.
ParseLink ==
  /\ phase = "links" /\ step = "read" /\ disk[Head(todo)].there
  /\ copied' = {<<Head(todo), disk[Head(todo)].bytes>>} /\ step' = "record"
  /\ UNCHANGED warnings \/ Warn("malformed", Head(todo))
  /\ UNCHANGED <<evidence, phase, todo, logs, held, parsed, sequence, sources,
                 observations, written>>

\* Artefact.ModifiedUTC looks at the file once more.
RecordLink ==
  /\ phase = "links" /\ step = "record"
  /\ LET f == Head(todo) IN
       Observe(f, copied, IF disk[f].there THEN disk[f].modified ELSE NoTime)
  /\ Finished
  /\ UNCHANGED <<evidence, phase, held, parsed, sequence, sources, warnings, written>>

-----------------------------------------------------------------------------
(* Between phases.                                                          *)

\* The sources in the order Reverify copies them.
InOrder ==
  LET known == {f \in Files : sources[f] # NoSource}
      before(f) == {g \in known : sources[g].sequence < sources[f].sequence}
  IN  [i \in 1..Cardinality(known) |-> CHOOSE f \in known : Cardinality(before(f)) = i - 1]

\* Mutant: the ledger is loaded without the sources being checked again.
NextPhaseUnchecked ==
  /\ step = "stat" /\ todo = <<>>
  /\ \/ phase = "hives" /\ phase' = "events" /\ step' = "parse" /\ todo' = EventLogs
     \/ phase = "links" /\ phase' = "load" /\ UNCHANGED <<step, todo>>
  /\ UNCHANGED <<evidence, logs, held, copied, parsed, ledger, written>>

NextPhase ==
  /\ step = "stat" /\ todo = <<>>
  /\ \/ phase = "hives" /\ phase' = "events" /\ step' = "parse" /\ todo' = EventLogs
     \/ phase = "links" /\ phase' = "verify" /\ step' = "stat" /\ todo' = InOrder
     \/ phase = "verify" /\ phase' = "load" /\ UNCHANGED <<step, todo>>
  /\ UNCHANGED <<evidence, logs, held, copied, parsed, ledger, written>>

-----------------------------------------------------------------------------
(* Ledger.Reverify and verifySource.                                        *)

Verdict(f, stable) ==
  /\ sources' = [sources EXCEPT ![f].checked = TRUE, ![f].verified = stable]
  /\ IF stable THEN UNCHANGED warnings ELSE Warn("moved", f)
  /\ todo' = Tail(todo) /\ step' = "stat"

VerifyStat ==
  /\ phase = "verify" /\ step = "stat" /\ todo # <<>>
  /\ LET f == Head(todo) IN
       IF disk[f].there /\ disk[f].size = sources[f].size
       THEN /\ held' = [size |-> disk[f].size, modified |-> disk[f].modified]
            /\ step' = "hash" /\ UNCHANGED <<todo, sources, warnings>>
       ELSE Verdict(f, FALSE) /\ UNCHANGED held
  /\ UNCHANGED <<evidence, phase, logs, copied, parsed, sequence, observations, written>>

\* Mutant: size and last-written time are taken for the content.
StableBySize(f) == disk[f].there /\ held.modified = sources[f].modified

\* Mutant: the last-written time is not compared.
StableByContent(f) == disk[f].there /\ disk[f].bytes = sources[f].digest

Stable(f) == disk[f].there /\ disk[f].bytes = sources[f].digest
             /\ held.modified = sources[f].modified

VerifyHash ==
  /\ phase = "verify" /\ step = "hash"
  /\ Verdict(Head(todo), Stable(Head(todo)))
  /\ UNCHANGED <<evidence, phase, logs, held, copied, parsed, sequence, observations, written>>

-----------------------------------------------------------------------------
(* Store.LoadLedger, Manifest.Finalise, and the runs that do not get there.  *)

Ledger == [sources |-> sources, observations |-> observations, warnings |-> warnings]

LoadLedger ==
  /\ phase = "load"
  /\ case' = Ledger /\ phase' = "finalise"
  /\ UNCHANGED <<evidence, step, todo, logs, held, copied, parsed, ledger, manifest>>

Finalise ==
  /\ phase = "finalise"
  /\ manifest' = [sources |-> sources, warnings |-> warnings] /\ phase' = "done"
  /\ UNCHANGED <<evidence, step, todo, logs, held, copied, parsed, ledger, case>>

\* A load, the consolidation, an export or the report returns an error: run()
\* returns it, and no manifest is written.
RunFails ==
  /\ phase \notin {"verify", "done", "failed"} /\ step = "stat" /\ logs = <<>>
  /\ phase' = "failed"
  /\ UNCHANGED <<evidence, step, todo, logs, held, copied, parsed, ledger, written>>

Ended == phase \in {"done", "failed"} /\ UNCHANGED vars

ReadHives == HiveUnreadable \/ Recover \/ OpenPlain \/ CompareAndRecord
ReadEvents == (\E i \in 1..Len(todo) : ParseEventLog(i)) \/ ParseReturns \/ RecordEvents
ReadLinks == LinkUnreadable \/ ParseLink \/ RecordLink
Run == \/ AddSourceStat \/ AddSourceHash \/ ReadHives \/ ReadEvents \/ ReadLinks
       \/ NextPhase \/ VerifyStat \/ VerifyHash \/ LoadLedger \/ Finalise \/ RunFails

Next == EvidenceChanges \/ Run \/ Ended

Spec == Init /\ [][Next]_vars
-----------------------------------------------------------------------------
(* Properties.                                                              *)

SourceRecords == [sequence : Nat, digest : Nat, size : Nat, modified : Nat,
                  checked : BOOLEAN, verified : BOOLEAN, replayed : BOOLEAN]
ASSUME SourceAssumption == NoSource \notin SourceRecords

Observations == [source : Files \cup {NoSource}, read : SUBSET (Files \X Nat),
                 time : Nat \cup {NoTime}]
Warnings == [severity : {"failed", "malformed", "moved"}, file : Files]

\* The run's state is well formed, and the evidence is one step ahead of nothing.
TypeOK ==
  /\ disk \in [Files -> [there : BOOLEAN, bytes : Nat, size : Nat, modified : Nat]]
  /\ changes \in Nat
  /\ phase \in {"hives", "events", "links", "verify", "load", "finalise", "done", "failed"}
  /\ step \in {"stat", "hash", "read", "compare", "parse", "record"}
  /\ todo \in Seq(Files) /\ logs \in Seq(LogFiles)
  /\ held \in [size : Nat, modified : Nat]
  /\ copied \subseteq Files \X Nat
  /\ parsed \in [EventFiles -> Nat \cup {Unread}]
  /\ sequence \in Nat
  /\ sources \in [Files -> SourceRecords \cup {NoSource}]
  /\ observations \subseteq Observations
  /\ warnings \subseteq Warnings

Attests(held_sources, f) == held_sources[f] # NoSource /\ held_sources[f].verified

\* What the case database calls verified was parsed from the bytes whose digest
\* it records: the hash, the parse and the second hash are three opens of a path
\* that may be rewritten between any two (hives and their logs, SetupAPI logs,
\* shortcuts, jump lists, prefetch files).  Event logs are parsed before they are
\* hashed for the first time, and this is not so of them.
AttestedAsRead ==
  case # Nothing =>
    \A o \in case.observations : \A r \in o.read :
      r[1] \notin EventFiles /\ Attests(case.sources, r[1])
        => r[2] = case.sources[r[1]].digest

\* The time a shortcut's own file gives its opening is the last-written time
\* recorded with its digest, wherever the source is called verified.
TimeAttested ==
  case # Nothing =>
    \A o \in case.observations :
      o.time # NoTime /\ Attests(case.sources, o.source)
        => o.time = case.sources[o.source].modified

\* A verified hive said to have been replayed has values out of a transaction log:
\* the comparison that says so opens the hive once more.
ReplayIsReal ==
  case # Nothing =>
    \A f \in HiveFiles :
      Attests(case.sources, f) /\ case.sources[f].replayed
        => \E o \in case.observations : o.source = f /\ \E r \in o.read : r[1] \in LogFiles

\* Whatever a fact was read from has a digest in the ledger or a warning naming it.
InputsAccounted ==
  case # Nothing =>
    \A o \in case.observations : \A r \in o.read :
      case.sources[r[1]] # NoSource \/ \E w \in case.warnings : w.file = r[1]

Answered(f) == \/ \E o \in case.observations : o.source = f
               \/ \E w \in case.warnings : w.file = f

Artefacts == HiveFiles \cup EventFiles \cup LinkFiles

\* The claim of provenance.go (160-178), which the phases that pass over what they cannot
\* hash contradict, so that no run checks it: each artefact found, of any kind, gave a fact or
\* a warning, whichever of its opens failed.
EveryArtefactAnswered == case # Nothing => \A f \in Artefacts : Answered(f)

\* What the code does: an artefact found gave a fact or a warning, or it is of a kind whose
\* phase says nothing and it was never hashed, so that the case does not list it either.
EvidenceAnswered ==
  case # Nothing => \A f \in Artefacts : Answered(f) \/ (f \in Unwarned /\ case.sources[f] = NoSource)

\* The manifest of a completed run says of every source, and of every warning,
\* what the case database says; every digest was checked, and those that no
\* longer held are warned of and no others.
CustodyComplete ==
  manifest # Nothing =>
    /\ manifest.sources = case.sources /\ manifest.warnings = case.warnings
    /\ \A f \in Files : manifest.sources[f] # NoSource =>
         /\ manifest.sources[f].checked
         /\ ~manifest.sources[f].verified
              <=> \E w \in manifest.warnings : w.file = f /\ w.severity = "moved"

\* What else is said of a verified source is so as well: the time its own file gives, and
\* that its transaction log was applied.
VerifiedClaimsHold == TimeAttested /\ ReplayIsReal

\* What was used is in the ledger or warned of, and what was found gave a fact or a warning,
\* but for a user hive, shortcut, jump list or prefetch file that could not be hashed.
InputsAnswered == TypeOK /\ InputsAccounted /\ EvidenceAnswered
=============================================================================
