# Boobook: a verification project

Boobook is a command-line program in Go.  It reads an acquired Windows
collection (registry hives and their transaction logs, event logs, prefetch
files, shortcuts, jump lists, SetupAPI logs), loads what it read into a DuckDB
case database, derives in SQL views which USB storage device was connected when
and which files were used from it, and writes exports, an HTML report and a
manifest that accounts for every input by its hash.

This directory holds TLA+ models of it, the TLC configurations that check them
on small instances, and TLAPS proofs of what holds for every value of the
constants.  `PROJECT.json` is the index: the runs, the lines of source each
definition stands for, the hazards and what covers them, the findings and the
theorems.

    tlc -workers 2 -config RunDirectories.cfg MCRunDirectory.tla
    tlapm RunDirectoryProofs.tla

Contents: [inventory](#inventory) - [modules](#modules-and-the-code-they-stand-for) -
[runs](#runs-what-each-shows-and-why-its-bounds-are-enough) - [fairness](#fairness) -
[proofs](#proofs) - [what the code does otherwise](#what-the-code-does-otherwise) -
[assumptions](#assumptions-about-the-environment) -
[not modelled](#not-modelled) - [plan](#plan)

## Inventory

One run is `run()` in `cmd/boobook/main.go` (251-1036), a sequence of phases:
obtain directories, open the case, load the rules, find the artefacts, hash and
read each kind, load, verify the hashes again, consolidate the derived tables,
export, settle and hash the case, write the manifest, discard the scratch.  Any
step may end it by an error.  Concurrency is found in four places: several
*processes* on the same roots; the *pool* that parses event logs; the *ticker*
of the progress line; and the goroutine that *drains* the standard output while
a hive is recovered.  Besides, whatever else writes to the evidence runs beside
all of it, and the evidence itself is the product of a concurrent system, the
examined host, whose log is incomplete.

| Part | Source | State it keeps | What must be right | Status |
|---|---|---|---|---|
| Run directories | `internal/workspace` | directories on disk, shared with other processes | no two runs in one directory; nothing lost, nothing left empty; the search ends | modelled, proved |
| Boundary and discovery | `internal/evidence` | the set of artefacts, missing, failures, collisions | nothing outside the root read or written; a silence is an absence (but for the entries the code passes over) | modelled, proved in part |
| Chain of custody | `internal/provenance`, `recordReplay`, `LoadHive` | the ledger: sources, observations, warnings | what is called verified was read as hashed; what was found is answered for (but where four loops say nothing) | modelled, proved |
| Event log pool | `internal/eventlog/parse.go` | plans per file, batches, shared slice and counts | the same as one log after another; counts whole; returns | modelled (refinement), proved but for its return |
| Console | `internal/progress`, `recoverQuietly` | the progress line, its mutex, `os.Stdout` | no text over the line; the standard output carries the manifest path only; no deadlock | modelled, proved but for the deadlock |
| File formats | `lnk`, `jumplist`, `shellitem`, `prefetch`, `partition`, `setupapi`, `wintime`, `registry/shellbags.go` | none; a jump list's budget | no medium, volume, partition or time is made up; what is lost is said (but where an offset or a parent folder is lost); allocation bounded | modelled, the budget proved |
| Case store | `internal/store/*.go` | the tables, the derived tables, the file | rows stand on hashed files (but for disks of unhashed logs); a derived layer is filled after what it reads; the hash is of the settled file | modelled, proved |
| Orchestration | `cmd/boobook/main.go` | the order of all of it, what one hive tells a later phase | a run stopped anywhere leaves a case that claims no more than it holds; manifest and case agree | partly (console reports and options are not) |
| Connection windows | `views.sql` 940-1408 | none: views over the log | a device is placed only while attached; one window per arrival | modelled, proved |
| Device identity and grouping | `views.sql` 297-770 | `device_group` | one physical device per group | modelled, proved |
| Volumes, letters, attribution | `views.sql` 1445-2950 | `file_attribution` | what a window places was there; what is named alone was alone | modelled, proved |
| Event catalogue | `internal/eventlog/catalogue.go` | a table | which rule selects a record | partly: as a record's fate and kind |
| Registry readers | `internal/registry` | none | replay claimed only where made | partly |
| Facts, classification | `views.sql` 3058-3760, `rules.json` | `device_fact`, `rule*` | filled after what it reads | not modelled, but for when it is filled |
| Timeline and moments | `views.sql` 3771-4750 | `timeline_moment_member` | filled last | not modelled, but for when it is filled |
| Report | `views.sql` 4750-5623, `internal/report` | none | - | not modelled |
| Catalogue of sources, fixtures, tools | `internal/sources`, `internal/fixture`, `tools/` | none | - | not modelled |

How they interact.  The workspace gives the run its directories and redirects
the temporary directory, where the recovery of a hive puts its copy.  Discovery
yields artefacts; each is hashed into the ledger, read by its parser, and what
was read is observed against the ledger's source and loaded into the case.  The
event pool returns records to `recordEvents` and `LoadEvents`.  The views read
the tables; `Consolidate` fills four of them from views in a fixed order.  Every
reader reports through the progress reporter, which also carries what
dependencies log; the standard output is for the manifest path alone.

## Modules and the code they stand for

### Processes and their surroundings

**RunDirectory** (`MCRunDirectory`, `RunDirectoryProofs`) is `New`, `newInPlace`,
`claim`, `DiscardScratch` and the use `run()` makes of the directories, by any
number of processes.  The file system is the only shared state: one action is
one system call, or several no other process can tell apart.  `pc` is where a
run is in the code, `up` how it ended.  `Fail` and `Crash` may happen before any
call and undo nothing, as in the code.

**Custody** (`MCCustody`, `CustodyProofs`) is one run over evidence that *changes*: the order in
which a file is stated, hashed, opened, compared, observed, verified, loaded and
finalised.  A file's bytes are a version number, its size and last-written time
separate from it.  Three kinds of artefact stand for all of them: a hive with
its logs, an event log (parsed first, hashed later), and a link (shortcut, jump
list, prefetch file or SetupAPI log, read by a stat of its own as well).
`WarnedHives` and `WarnedLinks` are those whose phase warns where they cannot be
hashed, a machine's hives and the SetupAPI logs; the others it passes over.

**EventLogAccounting** is what chunks, counts and order are, over sets of a log's
chunks, so that what two workers count apart can be put together;
**SequentialParse** is the abstract specification, a parse of one log after
another in one step; **EventLogParse** (`MCEventLogParse`, `EventLogParseProofs`)
is the pool: enumeration, the batches and the order they are handed out in, the
unbuffered channel, workers, the mutex over the shared slice and the counts,
assembly.  A record is named by its place in its log; `Ordered` is a
set put in an order that tells any two of it apart, `InOrder` a sequence sorted,
which is what says that the order the workers appended in is not seen.  `Take` and `Merge` are the two halves of the critical section, so
that a missing lock shows.  The refinement is
`AsIfSequential == INSTANCE SequentialParse WITH result <- outcome, unread <- ...`,
where `unread` is of each log the chunks of the batches that could not open it
(`Unopened`): a log that does not open a second time is a step of the abstract
parse too (`Vanish`), which leaves out that part of it and nothing else.

**Console** (`MCConsole`, `ConsoleProofs`) is `progress.Reporter` and `Phase` (mutex, throttle,
tickers) and `recoverQuietly` (the pipe in place of `os.Stdout`, the goroutine
that drains it), with the caller, the pool's workers, the tickers and the
drainer as processes.  `row` is what the terminal shows, `drawn` what the
reporter thinks it shows.

### Discovery

**Boundary** is the file system and `boundary.go`: a tree of directories, files,
unreadable directories and reparse points; `Lands` is where the system takes a
path and `Contains` what the code decides of it, two definitions with two depth
limits.  **Discovery** (`MCDiscovery`, `EvidenceProofs`) is `Locate`: the
volumes of the three layouts, hives by names that differ in case with their
logs, profiles, the directories that are listed or walked, and for each thing
looked for what is said of it: taken, missing, failed, collided.

### Formats

A file is a sequence of **Cells**, one for each field and each character, so
that offsets, sizes and counts can be wrong in all the ways they are in bytes.
**WinTime**, **ShellItems**, **ShellLink**, **JumpList**, **PrefetchFile**,
**ShellBags**, **DiskLayout** and **SetupLog** are the parsers over cells;
**FileTargets** is the row that is made of a link.  **Artefacts**
(`MCArtefacts`, `EvidenceProofs`) reads each file twice, as its program wrote
it and as it was found: cut at any place, or with one size, offset or count that
cannot be.  Jump lists are a machine of their own in it, one step for each
stream, since what one stream was allocated decides whether the next is read.

### The case

**Recorders** is what the ledger is told of each record, **CaseStore** each
loader with its transactions and their order, the derived layers and the
exports; a row keeps its source, its place, what it can be joined on and whether
it was read only in part, and a view is the set of rows it can draw on.  An
observation's place and value are the ones its recorder gives: a property's is
the key below the device's (`RegistryPath`), a disk signature's text is not the
mount row's (`Signature`), a prefetch file's volume has no place in it.
**Case** (`MCCase`, `CaseProofs`) is `run()` over them, a sequence of steps any of which may
fail and end the run.  `fate` is what becomes of each artefact: which of its
opens fails, or whether it is read in part; `todo` the places in discovery's list
that the current stage has yet to take up, in that order; `agenda` the steps that
are left of what was taken up.  What is counted (`Held`) is the number of things
there were to read in the artefacts that were loaded.  `None` stands for the
program's empty string.

### The views

**HostLog** is a Windows host with devices in its ports, that sleeps, shuts
down, loses power and boots, and what it writes of that.  It is external:
modelled from what the views and the catalogue say of the records.  `habit`
says what the host does and records (`Habits` are those a run considers).
Records carry the truth beside what Boobook sees, for the properties alone.
A stick has one device key in it, and a stop one report (the code also reads a
Kernel-Power 41 and an EventLog 6008 of one boot, views.sql:1184).
**ConnectionWindows** (`WindowsProofs`) is the views from `v_device_state_change` to
`v_connection_placing`, one operator per view, evaluated in every state: each
state is a moment the evidence may have been collected at.  Times are small
numbers and `Tolerance` stands for the fifteen seconds within which channels
echo each other.

**Attribution** (`MCAttribution`, `WindowsProofs`) extends it: the host hands letters to the
sticks that arrive (`mount`), writes them to the hive when it writes the hive
(`hive`), and files are opened on sticks (`opened`).  Every opened file leaves
one artefact of each kind, with what that kind carries: a letter, a serial, a
label, a time of its own, its list's or its target's.  On these the routes of
`v_file_attribution_computed` are evaluated.

**DeviceGrouping** (`MCDeviceGrouping`, `DeviceGroupingProofs`) is
`v_device_link`, `v_device_grouping` and the table filled from it.  `Trace` is
what a host's artefacts hold of each identity, `DeviceOf` the truth, and `read`
the part of it a case has: one step reads one key or names one identity, with
all of the key's values or all but one.  `Joined` says of a host that the keys of
each of its devices hang together by some route of the view; it holds of the
run's hosts, where TLC evaluates it.

## Runs: what each shows, and why its bounds are enough

| Run | Instance | Distinct states |
|---|---|---|
| `run_directories` | 2 runs, 13 command lines each, 2 roots, one second, 2 attempts | 74 thousand |
| `discovery` | one volume with one of everything, any two entries wrong, 3 layouts | 126 thousand |
| `custody` | a hive with a log, an event log, a link; 2 changes to the evidence | 2.1 million |
| `event_pool` | 3 logs read of 4 found, 5 batches, 3 workers, any log or batch unable to open | 147 thousand |
| `console` | 2 phases, 2 tickers, 2 workers, a pipe of 1, 2 messages of chatter | 33 thousand |
| `artefacts` | some artefacts of each kind, each with at most one damage | 14 thousand |
| `case` | 11 artefacts, at most 2 not read as they should be, an error at any step | 124 thousand |
| `windows` | four hosts, clock to 4, at most 5 records | 637 thousand |
| `grouping` | five hosts of at most 6 identities | 9 thousand |
| `late_report`, `sole_restart` | one host each | violations |
| `derived_stale` | one run | violation |

- **run_directories.**  `Exclusive`, `SingleAuthor`, `NoShells`,
  `ResultsSurvive`, `NewEnds`.  Two runs suffice to contend for a name; the
  command lines are chosen so that every pair of claims can meet: one root
  shared, scratch shared, each root the other's scratch, both roots the same, a
  supplied id that counting produces, one that is refused, and `-in-place`.  One
  second is the hard case, since ids of different seconds never meet.
  `-in-place` only promises against what is already there (workspace.go:71-74),
  so with `Serial` no other run is alive beside one.
- **discovery.**  `CollectionAnswered`: a file a run exists to read is taken, or
  a failure names it or a directory above it, or it is not there, or there is no
  directory for it to be in (`DeadEnd`), or it lies behind one of four kinds of
  entry that the code passes over without a word (`PassedOver`, each with its
  line); and what is called missing is not there.  locate.go promises more, that a
  silence is an absence (`SilenceIsAbsence`, see below).  `EveryPathAdmitted` and
  `BoundaryHolds`: no path that is opened, and none that is written, is elsewhere
  than the boundary thinks, where the system itself resolves it.  Any two entries,
  of any kind and none left out, are absent, unreadable, files, or junctions that
  lead out, elsewhere inside, nowhere or to themselves: two, because a junction
  that crosses a junction is what the two resolutions could disagree on.
- **custody.**  `AttestedAsRead`: a source called verified was read as it was
  hashed, event logs apart.  `VerifiedClaimsHold`: so is the time a link is
  dated by, and a replay claimed is one made.  `InputsAnswered`: what was read
  has a digest or a warning; and what was found gave a fact or a warning, or is
  one of the kinds whose phase says nothing (a shortcut here) and was never
  hashed, so that the case does not list it either.  `CustodyComplete`: the
  manifest says of every source what the case says.  Two changes are one between
  hash and read and another before the verification.
- **event_pool.**  The logs hold a damaged chunk, a short last batch, records of
  another channel and ties in time across files.  Any log may fail to open when it
  is enumerated, and any batch when it is parsed.  `SequentialSpec` is the
  refinement, of a parse of one log after another in which the same opens fail,
  and with it the return.  `CountsBalance`: no count is lost between two workers
  or taken twice, and the accounts balance.  `UnreadIsUnopened`: what a file
  that is not reported as failed lacks is exactly the batches that would not
  open.  parse.go promises more, that nothing at all is left unsaid
  (`NothingUnsaid`, see below).
- **console.**  `TerminalHolds`, `OutputHolds` and `RunEnds`.  More chatter than
  the pipe holds is the case a deadlock needs; a second phase is the case a late
  tick needs.
- **artefacts.**  Each property compares the reading of the damaged file with
  the reading of the whole one.  `LinksClaimNoMore`: what a link lost is said,
  but for the text that an offset within its info led to (`Unchecked` names the
  cell of each field), and the row never names another medium, nor another path
  without a warning or such an offset.  `JumpListsHold`: damage stays
  in its stream, every stream is answered for, pins and times come from the
  DestList's own layout.  `PlacesHold`: of item lists and lists of what was opened a
  place is the place that was named or one above it; a folder of a tree is given
  another place only where its own item or one on the way to it did not come out
  whole, and that one says why.  The strict forms of the two, `LinkLossIsSaid` and
  `GapsAreMarked`, do not hold (see below).  A DestList is of one layout
  throughout; a list of mixed entries is not in the instance.
  `VolumesHold`, `TimesHold`: a serial keeps its volume, a partition was
  written, a local time has just the readings its zone allows.  `WithinBudget`:
  streams of any declared size allocate no more than the budget.  One damage,
  because a second is met only where the first did not end the reading, and
  what follows is then the first of another file.
- **case.**  `RowsGrounded`: wherever a run stops, a row of evidence has a hashed
  source, or it is a disk's and has none at all, in a case in which some event log
  could not be hashed; and it stands on the row it is a part of.
  `CitationsMatch`: each row that has a source is cited at its place in it, and
  each observation is of a row that the case has; a row without a source leads to
  no file, and no citation of it is claimed.  `DerivedFromTheCase`: a derived layer was
  computed after the last load and after the layers before it.
  `LossReachesTheCase`: what was not read whole is behind a warning of its own;
  or it is passed over (a user's hive, shortcut, jump list or prefetch file that
  could not be hashed, an event log of no interest) and nothing at all of it is in
  the case; or it is a hive without a zone and the case has another hive's, or a
  warning that it has none; and every warning is in case and manifest.  The
  strict forms, `EveryRowTraced` and `EveryLossIsSaid`, do not hold (see below).
  `ManifestIsTheCase`: exports, counts and the
  hash of the file are of the finished case.  `HostSettingsHold`: local times
  are read in a zone the case has.  Two artefacts out of order
  are what it takes for one's loss to hide another's; there are 654 ways for two
  of the eleven to be.
- **windows.**  Four habits.  `Recording` writes everything it sees, with
  echoes, faults and other activity (four records); `Terse` without those (five:
  an arrival, a stop, a start, a report and one more is the shortest history in
  which an outage lies inside a window); `Lossy` loses departures and starts and
  reports late (four); `Sharing` has two sticks, two letters and two files
  (three).  `PlacingSound` is what the whole report rests on: at any record's
  moment that a window covers, the device was attached.  `OneWindowPerArrival`,
  `UncleanBounds`, `OpenStaysInSession` and `WindowsWellFormed` (closed by
  removals only, one after the other) say what the clustering, the pairing and
  the reading of an unclean stop must do, the last also of the lossy host.
  `AttributionsHold`: whatever letters, labels and lists say at collection, an
  attribution a window lifted names a device that was on the host when the file
  was opened, and one reached through the windows alone names the stick the file
  was on, where each stick then attached is followed from its arrival to its
  removal.  An arrival is that of its first record: by its last echo it would look
  younger than the window it opened.  No host here dies with an arrival as its
  last record; of one that does the open windows are not bounded (see below).
- **grouping.**  `GroupingHolds`: groups part what is known, however long the
  chain, and only a wrong link makes a group of two devices.
  `WrongLinksExplained`: a link is wrong only for want of a named piece of
  evidence.  `WholeEvidenceIsDevices`: with everything read the groups are the
  devices.  The hosts are the hard cases the view's comments name: a cloned
  serial on two makes, a hub with two sticks of one model and no serial behind
  it, a serial the disk node cuts short beside another that begins the same, a
  short serial, a root hub, and a mixture.

Every property of a passing run has a mutant, an operator beside the definition
that changes it the way a plausible bug would, under which TLC finds the property
violated; a property of several named parts has one for each of the parts.  Mutants are
marked as such and nothing else uses them.

Deadlock is not checked where the system may stop: runs that are over, a clock
or a log at its bound, a parse that has returned.  That the parse returns is part
of `SequentialParse!Spec`, that the console's run ends is `RunEnds`.

Bounds on what is unbounded in the code: `MaxRunAttempts` is the program's own
constant (100 there), as are `MaxReparseDepth` and `OSReparseLimit`,
`maxStreamBytes` and `maxFileBudget` (30 and 45 cells), and `maxBagDepth` (4);
`Huge` (999) is a size no file has; `MaxTime`, `MaxLog` and a habit's `room` are the
host's clock and log; `Day` is the 24 hours of `v_sole_connected_device`;
`MaxChanges` changes to the evidence; `MaxOdd` artefacts out of order;
`MaxSteps`, `MaxPrints` the messages of a phase and of a recovery.

## Fairness

- `RunDirectory!FairSpec`: weak fairness of each run's steps in `New`, which is
  straight-line code in a process the operating system schedules.  Used for
  `NewEnds` alone, and nothing is assumed of a run after `New`.
- `EventLogParse!Spec`: weak fairness of the caller and of each worker.  They
  are goroutines of one process; none waits for anything outside it.
- `Console!Spec`: the caller and the pool get the mutex in the end (strong
  fairness: `sync.Mutex` hands over to a waiter that has starved for a
  millisecond), the drainer runs, and whoever holds the mutex while drawing
  lets it go.  Nothing is assumed of tickers otherwise: `RunEnds` holds
  whether or not they ever run.
- All other modules are checked for safety only.

## Proofs

Each theorem states, for every value of the constants, a property a run checks or
the inductive invariant such properties rest on.

| Module | Theorem | Says | Assumes |
|---|---|---|---|
| `RunDirectoryProofs` | `TypesHold` | `[]TypeOK` | the constants' assumptions |
| | `RunsHoldApart` | `[]Exclusive` | `NoneInPlace` |
| | `OneAuthor` | `[]SingleAuthor` | `NoneInPlace` |
| | `ResultsLast` | `ResultsSurvive`, an action property | `NoneInPlace` |
| | `NothingLeftBehind` | `[]NoShells` | `NoneInPlace` |
| `EvidenceProofs` | `EverythingOpenedWasAdmitted` | `[]EveryPathAdmitted` | - |
| | `BudgetHolds` | `[]WithinBudget` | `BudgetAssumption`, `JumpListsAssumption`: files are sequences of streams with integer sizes |
| `CustodyProofs` | `VerifiedAsRead` | `[]AttestedAsRead` | the constants' assumptions |
| | `VerifiedClaims` | `[]VerifiedClaimsHold` | the same |
| | `NothingUnanswered` | `[]InputsAnswered` | the same |
| | `ManifestComplete` | `[]CustodyComplete` | the same |
| `EventLogParseProofs` | `Inductive` | the pool's invariant | `LogsAssumption`, `PoolAssumption` |
| | `PoolCounts` | `[]CountsBalance` | the same |
| | `PoolSilence` | `[]UnreadIsUnopened` | the same, whatever may fail to open |
| | `AsSequential` | `Spec` implements `SequentialParse`'s `Init` and steps | the same |
| `ConsoleProofs` | `TerminalIsCurrent` | `[]TerminalHolds` | the constants' assumptions |
| | `OutputIsManifest` | `[]OutputHolds` | the same |
| `WindowsProofs` | `WellFormed` | `[]WindowsWellFormed` | the constants' assumptions |
| | `ArrivalsOpenOne` | `[]OneWindowPerArrival` | the same |
| | `StopsBounded` | `[]UncleanBounds` | the same |
| | `OpenStays` | `[]OpenStaysInSession` | the same, `NoQuietCrash` |
| | `PlacedWhereItWas` | `[]PlacingSound` | the same, `NoQuietCrash` |
| | `AttributionsAreRight` | `[]AttributionsHold` | the same, `NoQuietCrash`, `SticksKnown` |
| `CaseProofs` | `Typing` | the program's shape: which steps each stage may lay out | `CaseAssumption`, `CollectionAssumption`, `RecordsAssumption` |
| | `RowsAreGrounded` | `[]RowsGrounded` | the same |
| | `CitationsAreMatched` | `[]CitationsMatch` | the same |
| | `LayersAreTheCase` | `[]DerivedFromTheCase` | the same |
| | `EveryLossReachesTheCase` | `[]LossReachesTheCase` | the same |
| | `HostSettingsAreTheCase` | `[]HostSettingsHold` | the same |
| | `ManifestSaysTheCase` | `[]ManifestIsTheCase` | the same |
| `DeviceGroupingProofs` | `GroupingAlwaysHolds` | `[]GroupingHolds` | `HostAssumption` |
| | `WrongLinksHaveACause` | `[]WrongLinksExplained` | `HostAssumption` |
| | `WholeEvidenceGroups` | `[]WholeEvidenceIsDevices` | `HostAssumption`, `Joined` |

**Run directories.**  `NoneInPlace` says that no command line has `-in-place`;
it is needed, since the flag gives up the exclusion of `os.Mkdir`.  None of the
properties is inductive as it stands.  The invariant is

    IInv == TypeOK /\ Checked /\ HeldThere /\ HeldApart /\ FilesPlaced

`Checked`: the id a run works with passed `checkRunID` and it is not in
`newInPlace`.  `HeldApart`: what two runs hold (`Held`: results and scratch) is
disjoint; `HeldThere`: it exists.  Together they make `os.Mkdir`'s answer
meaningful: a claim that succeeds took a directory nobody held, because what is
held exists.  `FilesPlaced`: every file is in its writer's directory or in
scratch its writer holds.  A step of one run changes nothing another run holds
(`StepsLeaveOthers`, `OthersKeepTheirs`); `StepKeepsApart` reduces preservation
to what the step adds, removes and writes; `RunKeepsApart` shows that of each
action.  The discard alone removes what is not empty: `TargetIsOwn` shows that
its target covers nothing any run holds but its own scratch on a separate root.
`NothingLeftBehind` adds `Owned`: every directory under a root is held by a run,
or is the one a run that lost the second of its two names may still hand back.
A hand-back fails where the directory is not empty, so the lemma it needs is
`HandedBackEmpty`: whatever lay in it would belong to a run that holds it.

**Chain of custody.**  A source is hashed, read and hashed again by three opens
of a path that is rewritten in between, and equal digests do not by themselves
say what was read between the two.  The invariant is an ordering of versions:
what is on the disk is no older than what was hashed (`NoOlder`), and what was
read of a file was read after its first hash (`ReadAfterHash`, with
`HashedFirst`: what is still to be hashed has not been opened).  So the version
read lies between two that are equal (`Attested`).  It fails for event logs,
which are read first and are left out of the property.  `Replays` ties a claim of
replay to a page of a log, or to a hive that changed after it was hashed and so
will not verify; `InputsKnown` and `NonePassedOver` follow each input and each
artefact from phase to phase; `Verdicts` and `Kept` say when a source is decided
on, once, and what of it reaches the case; of an artefact that was passed over,
the last is that nothing does.  Assumed are that an artefact is
listed once and that two hives have no log in common (`PlacedOnceAssumption`).

**Event pool.**  The invariant is that every batch waits in the queue, is in the
hand of one worker, has been merged, or could not open its file, and only one of
these (`Queue`, `Hands`), and that the files' counts and the shared slice are
exactly what the merged batches hold (`Accounts`, `Gathered`).  `Mutex` says that
what a worker read inside the critical section is still there when it writes.
The lemmas it rests on are about the data: batches share no chunk and leave none
(`CutFacts`, by the arithmetic of `%`), counts of disjoint sets of chunks add up
(`CountsAdd`), the sum over the files exists and balances (`SumsExist`,
`TotalAddsUp`, by a least counterexample), and a finite set is put in a strict
order in one way (`Ranks`, `PlacedOnce`), so that sorting forgets the order of
arrival (`SortedIsPlaced`).  `Unopened(f)` are the chunks of the batches that
would not open.  With all other batches merged, what is missing of a file's counts
is these and no other (`PoolSilence`), and the result is that of the sequential
parse in which they did not open (`AssembleReturns`, the refinement's one step
`Parse`); a batch that does not open is its step `Vanish` (`MissVanishes`), and
every other step leaves the outcome and what is unread alone.

**Console.**  Who writes to the terminal holds the mutex (`Holding`), so that what
the reporter believes of the row is what is there (`RowKnown`) and the row is its
phase's.  `Diverted` places the redirection of `os.Stdout` and the goroutine that
drains it by where the run is; `Piped` accounts for every message printed, taken
or still in the pipe.

**Connection windows.**  The views are functions of the log, so the invariant is
about logs: `Host` (records in time and session order, those of two boots further
apart than the tolerance, a boot's report after its starts) holds of any host,
`Recorded` of one that records what it sees.  That windows are in order, apart
and closed by removals needs `Host` alone, and holds of hosts that lose records
and report late.  `ArrivalsOpenOne` rests on `Firsts`: a record opens a cluster
exactly where it is the first of its change.  `StopsBounded` rests on `Reports` and
`Unreported`.  The open windows need `SessionsEnd`, that every session that is
over was shut down after its arrivals or has a report to come; it holds under
`NoQuietCrash`, that no host dies with an arrival as the last thing it recorded.
Such an arrival leaves nothing that bounds its window (see below); without the
hypothesis the two properties are false, and the hosts of the passing runs all
satisfy it.  The views' `MIN`s and `MAX`es are those of finite sets of times, whose
least and greatest elements are found by well-foundedness.

**Attribution.**  A file is opened at a moment, not by a record, so the invariant
places the moment: `Moment(t, s)` says that `t` lies in session `s`, after all
that the sessions before it recorded and before all that those after it did, and
`Follows` that what was in the host then is what had come in that session and
had not gone, of all that the log knows of by then (`FilesInv`; what was recorded
stays in its session whatever is recorded after it, `MomentKeeps`).  A window that
covers the moment was opened in that session (`WindowThen`), so its device was
there (`ThereThen`): that is the first half of `AttributionsHold`, whichever route
was lifted.  The second half needs the converse, that a device that is followed
has a window that reaches the moment (`FollowedIsPlaced`).  No shutdown of its
session comes before the moment; and a bound of an unclean stop that would cut
its window short would cut every window of that session, the one that covers the
moment included (`NotCutShort`).  So where the views count one device, there was
one.  `SticksKnown`, that each stick put into a host is one the view knows as USB
storage, is needed because the view counts no others: an unknown stick beside a
known one leaves the known one alone in its eyes.  The hosts of the run satisfy it.

**Case.**  A run may stop at any step, so an invariant cannot wait for the end of a
stage.  It speaks of what the run *has and will have*: `AllSources`, `AllCites`,
`AllWarns` and `AllRows(t)` are what the ledger and the tables hold together with
what the steps laid out in `agenda` will still add.  A step of a program only moves
something from the second to the first (`Same`), so what is said of both together
is preserved by all the steps at once, and what remains is to say what is gained
where an artefact is taken up and where a stage lays its steps out.  On that
rest: a row's source is hashed or laid out to be, before the row (`Attested0`),
and a row without one is a disk's, which is loaded only where a log without a hash
was come to (`Disks0`, kept through the steps by `DisksStart` and `DisksStep`);
a part comes after what it is a part of (`Children0`, with the order of the
agenda); exactly the artefacts come to and hashed are sources (`SourcesExact`);
each observation has its row and each row its observation (`CitedAll`, `Held0`,
which says up to which stage an observation may wait for its row); whatever was
not read whole has been said, or passed over (`Said0`, `Partial0`; `PassedOverIsOut`
has of what was passed over that no row is of it, from `RowsGrounded` and
`SourcesExact`), and a hive without a zone has no row of one (`OtherZone0`); the
zone the run goes by is one the case has, and the setting that of a hive it read
(`Zone0`, `Setting0`).  The stages that derive, export and settle are short fixed
programs, and there the invariant says how much of the program is left (`Rest`) and
that what is done so far is done right (`Derived0`, `Files0`, `File0`).  The counts of the manifest are equal to the rows of
their tables by a bijection between the rows and the things read (`RowForEach`,
`Exact0`, `Counts0`), from `RecordsAssumption`: the records of one file are read
from places of their own, which is what keeps two things from being one row of
the model's sets.  The rest of that assumption is the code's: a device key is kept
where it has a time, a value or a property (devnodes.go), no property is without a
name, and a shortcut has no path but its link's.

**Discovery.**  `Admitted(set)` says that every artefact found so far, its logs
included, was inside the boundary.  What each collector says is put together
from admissions and refusals; one lemma for each way of putting together and one
for each collector, and the invariant adds that nothing is found before the
boundary is fixed.

**Jump lists.**  `Budgeted` adds to the bound that the streams are looked at in
order: a size is only added once it is believed, and it is believed only where
it fits what is left.

**Grouping.**  The invariant is `TypeOK /\ Filled`: the table, once filled, is
the closure of what was read, and nothing is read after it is filled.  That
closure parts the identities rests on `RestIsClosed`: the complement of what is
reached from an identity is itself closed under links, since links go both ways,
so what is reached is reached back.  That only a wrong link groups two devices
rests on the set of one device's identities being closed where no link is wrong.
`WholeEvidenceIsDevices` is that from both sides: with everything read no link
is wrong, so a group is within a device; and a device is within a group because
the group's complement in it would be joined to it by some route (`Joined`), and
with everything read each such route is a link.  `Joined` is a hypothesis of its
own and not of the code: a device of which no two keys share a container, serial,
prefix or hardware id is left in pieces, as it must be.
`HostAssumption` is what is assumed of hosts: a container is one device's, a
serial is within one product, devices that share a serial show two products
where all they left is read, only a hub leads other devices' instance ids, and
a hardware id is declared by the device it was installed for.  Both are
evaluated by TLC on the hosts of the run.

Left to TLC, because the provers do not reach it: liveness and everything with
fairness (`NewEnds`, `RunEnds`, the return of the pool, which is the last conjunct
of `SequentialParse!Spec`); what the parsers' recursive operators compute
(`LinksClaimNoMore`, `JumpListsHold`, `PlacesHold`, `VolumesHold`, `TimesHold`); and
`BoundaryHolds`, where two resolutions of a path, each a function that recurs
over the tree (`Lands`, `ResolveWalk`), are compared for every path, which needs
an induction over data.  `CollectionAnswered` is left to TLC as well: it says of
each layout what the evidence on the disk leads to, and it is true of trees that
are those of a volume, not of every value of `Trees`; the run's trees are such,
with any two entries wrong.

## What the code does otherwise

Three runs end in a counterexample to something the repository states; each is
quoted in `PROJECT.json`.

- `late_report`: an unclean stop reported after both starts of its boot is put
  to the second, and the open window reaches over the outage (views.sql:1197).
- `sole_restart`: a stick that stays in over a restart arrives twice, so its
  first window is superseded and not counted: a file of the first session is
  attributed to the other stick of the two as the only one connected
  (views.sql:2623).
- `derived_stale`: `Consolidate` fills the facts before the attribution one of
  them is read from, so no device ever has `file_activity` (rules.go:166).

Other statements of the repository are contradicted within the instances of the
passing runs.  What each states is a definition beside the property that is
checked; added as an INVARIANT to the run's configuration it gives the
counterexample.  The property that is checked names the cases in which the
statement does not hold, and that there are no others.

| Statement | Run | Definition | Where it does not hold |
|---|---|---|---|
| a silence is an absence (locate.go:123-129) | `discovery` | `SilenceIsAbsence` | a profile, a volume or a shortcut directory that is a junction is passed over, though it leads to files within the evidence (locate.go:345, 238, 440), as are a collector's directory that cannot be listed (234) and a junction that leads nowhere (427) |
| what went wrong is reported (provenance.go:160-178) | `custody`, `case` | `EveryArtefactAnswered`, `EveryLossIsSaid` | a user's hive, a shortcut, a jump list or a prefetch file that cannot be hashed leaves neither a fact nor a warning (main.go:613, 1665, 1704, 1767) |
| a chunk that is not read is counted (parse.go:522-523) | `event_pool` | `NothingUnsaid` | a batch that cannot open its file loses its error in `filePlan.merge` (parse.go:420, 512): the log is reported as read whole |
| a partial parse is never presented as complete (lnk.go:137, 419) | `artefacts` | `LinkLossIsSaid` | an offset within a link's info that leads outside costs a field without a warning (lnk.go:366-381, 404-427, 535-548), as docs/OPEN-WORK.md:17 has it |
| an item that named nothing is a gap (shellbags.go:33-35) | `artefacts` | `GapsAreMarked` | a folder below one whose item named nothing is given a place one folder short, unmarked (shellbags.go:168, 200) |
| a row leads to a file and a hash (load.go:22, 429) | `case` | `EveryRowTraced` | the disks of an event log that could not be hashed are loaded and observed with an empty source (main.go:750, load.go:272) |
| no window reaches through a stop that cannot be dated (views.sql:1178) | `windows` | `UncleanStopReaches` | such a stop bounds nothing (views.sql:1406) |
| a window stops at the last thing recorded (views.sql:1397-1399) | `windows`, of a host whose `habit` has `quietCrash` | `OpenStaysInSession` | where an arrival is the last record before a power loss, the stop's bound is the arrival's own time, which is not past it (views.sql:1327), and the window has no end |

Met while modelling, too.  Each is left out of the property it would violate, or
out of the instance, at the place named:

- *Directories.*  workspace.go:204 rests an in-place run on one `os.Mkdir`,
  which `New` has already spent at line 92: two in-place runs given one fresh
  root both obtain it (`Serial` keeps them apart).
- *Windows.*  Echoes are compared with the record before them (1244), so a long
  chain of them is one arrival; the host of the model echoes within the tolerance
  of the first record, so that the chain is not exercised.
- *Events.*  Event logs are parsed (main.go:701) before they are hashed (712), as
  docs/OPEN-WORK.md:33 records, and `AttestedAsRead` leaves them out.
- *Discovery.*  Of names that differ in case the choice is said to be the first in
  order, and reported (674); where one is spelled as expected it is taken before
  the others are looked for, and nothing is reported (682-686).
- *Formats.*  A link that is cut before or within an extra block's header, and a
  prefetch file cut before its count of volumes, end silently.  The standard
  bias is added to readings in daylight time too (wintime.go:168, called with
  the two added up, setupapi.go:264); it is zero in nearly all zones.
- *Attribution.*  The 24 hours bound who is counted, not who answers
  (views.sql:2626): a stick attached for longer than a day is not counted as
  present.  Volume paths are compared by prefix without a separator (1770, 1825,
  2044), so that volume 1 matches volume 12.  A shortcut's `link_written` places
  as an opening does (2451).  A portable device's label is unique in its own
  case (1570-1576) and joined in any (2783).  The prefetch route is probable
  without any window (2871).  A letter that a label contradicts (2695) leaves its
  attribution possible; `AttributionsHold` is about those a window lifted and asks
  that the device was there, which the contradiction does not decide.
- *Grouping.*  A hub whose driver is not Windows' own escapes the guard
  (641-642).
- *Console.*  `Reporter.Close` does not stop the ticker of a phase that failed,
  so that the line may be drawn once more before the error is printed.
- *Case.*  Of several SYSTEM hives SetupAPI times take the last zone found
  (main.go:443) while the views take the first (`LIMIT 1`), and the last hive's
  prefetch setting overrides.  Event records are counted as parsed, those
  `LoadEvents` then leaves out included.

## Assumptions about the environment

*Host.*  A channel echoes a change within the tolerance and before the next
change of the device; a boot is later than the tolerance after what went
before; a shutdown is dated after any arrival; a sleep is not recorded in the
instant of another record; a second start is later than the report between the
two.  `PlacingSound` exempts the very instants of an arrival and of a removal,
where the order of records says nothing; `AttributionsHold` those of any
arrival and removal.  The hosts of the passing runs report at once where their
windows are to be sound.

*Letters.*  A volume keeps the letter it had where that is free and takes the
first free one where not.  The hive on the disk is written at an arrival or
not, and always at a shutdown, never at a crash.  Letters are followed only on
hosts where files are opened.  A mount point's target is a device or leads to
none; the volume a prefetch file ran from is its record's.

*Evidence.*  In Custody a rewrite gives bytes the file never had: a file put
back to its first bytes between two hashes is outside what hashing can tell.  In
Discovery, Artefacts and Case the evidence does not change while it is read;
change is Custody's matter, and so is verification.

*Truth in the properties.*  `hostVolumes` and `usbDevices` are the volumes and devices a host had,
against which what is read is judged; they are not given to the parsers.

*Console.*  The mutex around the swap of `os.Stdout` has one user at a time and
is left out; where `os.Pipe` fails the recovery prints undiverted, which the
code accepts and `OutputHolds` exempts.

## Not modelled

- The *facts and classification*: one projection for each table and a join of
  rules to facts.  When they are filled, and from what, is in Case.
- The *timeline*'s union and its moments: projections and one query.  When the
  table is filled is in Case.
- The *report*'s selection and layout; the console reports of a finished run;
  the parsing of options: they read only.
- The *catalogue*'s table: which rule selects a record, and which fields it
  extracts, is given with the record.
- The registry's other keys: one value each, without state.
- Of formats: the width of a field and a field cut in its middle (a cell is
  there or not), sizes, attributes, the ranking value of a jump list, the names
  a prefetch library reads.
- The ledger's own mutex: one goroutine uses it.
- The catalogue of sources, fixtures and tools: no behaviour of a run.
- In Case: a collection has one or two records of each kind; a view is
  identified with the rows it can draw on, so a view's own error is not seen
  there; seven of the thirty-six exports stand for all.

## Plan

In order of importance:

1. **Proof** of `CollectionAnswered`, collector by collector, from a statement of
   what a volume's tree is.
2. **Moments** (views.sql 4560-4750): each record in one moment, the nearest,
   and a chain of anchors that does not run together.
3. **Classification** (views.sql 3058-3760): matching and scoring over a small
   rule set, and what taking evidence away may change (a negated condition that
   missing evidence makes hold, 3487).
4. The prefetch volume a programme ran from (1744-1880) as a choice of its own,
   with ties.
