--------------------------- MODULE RunDirectory ---------------------------
(***************************************************************************)
(* internal/workspace/workspace.go: how several boobook processes, started *)
(* against the same output and working roots, obtain the directories they  *)
(* write into, what they put there and what they remove.                   *)
(*                                                                         *)
(* The file system is shared and is the only thing that excludes: one      *)
(* action is one system call, or several that no other process can tell    *)
(* apart.  A process may die, or return an I/O error, before any of them.  *)
(*                                                                         *)
(* A path is a record: the root it lies under, the directory name beneath  *)
(* that root (NoId for the root itself) and whether it is the "working"    *)
(* directory inside the named one.  A run id is a pair <<stamp, attempt>>; *)
(* attempt 1 is the bare stamp and attempt n is "stamp-n", so a supplied   *)
(* id may coincide with any id that counting produces.                     *)
(***************************************************************************)
EXTENDS Naturals, FiniteSets

CONSTANTS
    Run,             \* the processes
    Root,            \* caller-supplied roots, none inside another
    Stamp,           \* the seconds in which runs may start
    MaxRunAttempts,  \* maxRunAttempts
    NoId, NoRoot,    \* -run-id and -working left empty
    Working,         \* the directory name "working", a legal run id
    BadId,           \* supplied ids that checkRunID refuses
    Option,          \* the command lines a run may be started with
    ExistingRoot,    \* roots made before the first run
    Serial           \* TRUE: while a run in place is alive, no other is started, nor it beside another

Id == (Stamp \X (1..MaxRunAttempts)) \union {Working}

CommandLine == [out : Root, work : Root \union {NoRoot},
                id : Id \union {NoId} \union BadId,
                inPlace : BOOLEAN, keep : BOOLEAN]

ASSUME OptionAssumption == Option \subseteq CommandLine
ASSUME AttemptAssumption == MaxRunAttempts \in Nat \ {0}
ASSUME NameAssumption ==
    /\ NoId \notin Id \union BadId /\ NoRoot \notin Root
    /\ Working \notin (Stamp \X (1..MaxRunAttempts)) /\ BadId \cap Id = {}
ASSUME RootAssumption == ExistingRoot \subseteq Root /\ Serial \in BOOLEAN

Path == [root : Root, id : Id \union {NoId}, sub : BOOLEAN]

VARIABLES
    dirs,     \* the directories that exist
    files,    \* the files in them: where, written by whom, of what kind
    pc,       \* where each run is
    up,       \* "alive", or how the run ended: "done", "refused", "error", "crashed"
    opt,      \* the command line of each run
    stamp,    \* the second each run read from the clock
    attempt   \* New's loop counter

vars == <<dirs, files, pc, up, opt, stamp, attempt>>

File == [dir : Path, by : Run, kind : {"case", "recovered", "manifest"}]

RootPath(r) == [root |-> r, id |-> NoId, sub |-> FALSE]
Named(r, i) == [root |-> r, id |-> i, sub |-> FALSE]

\* The directories at or below p.
Within(q, p) ==
    /\ q.root = p.root
    /\ p.id # NoId => q.id = p.id
    /\ p.sub => q.sub

\* The directories os.MkdirAll leaves behind for p: p and every parent.
WithParents(p) == {RootPath(p.root), Named(p.root, p.id), p}

(***************************************************************************)
(* The fields of the Workspace a run is building.                          *)
(***************************************************************************)
RunID(r) == IF opt[r].id # NoId THEN opt[r].id ELSE <<stamp[r], attempt[r]>>

Dir(r) == IF opt[r].inPlace THEN RootPath(opt[r].out) ELSE Named(opt[r].out, RunID(r))

WorkingRoot(r) == IF opt[r].work = NoRoot THEN Dir(r) ELSE Named(opt[r].work, RunID(r))

Separate(r) == WorkingRoot(r) # Dir(r)

\* filepath.Join(WorkingRoot, "working"): beneath a root in place, that is the
\* directory a run named "working" would claim.
TempDir(r) ==
    IF WorkingRoot(r).id = NoId THEN Named(WorkingRoot(r).root, Working)
    ELSE [root |-> WorkingRoot(r).root, id |-> WorkingRoot(r).id, sub |-> TRUE]

Occupied(p) == (\E q \in dirs : q # p /\ Within(q, p)) \/ (\E f \in files : f.dir = p)

----------------------------------------------------------------------------
Init ==
    /\ dirs = {RootPath(r) : r \in ExistingRoot}
    /\ files = {}
    /\ pc = [r \in Run |-> "idle"]
    /\ up = [r \in Run |-> "alive"]
    /\ opt \in [Run -> Option]
    /\ stamp \in [Run -> Stamp]
    /\ attempt = [r \in Run |-> 1]

At(r, label) == up[r] = "alive" /\ pc[r] = label

Goto(r, label) == pc' = [pc EXCEPT ![r] = label] /\ UNCHANGED up

End(r, how) == up' = [up EXCEPT ![r] = how] /\ UNCHANGED pc

\* Mutants: a count with no bound, and a collision that is retried uncounted.
TakenUnbounded(r) ==
    IF opt[r].id # NoId THEN End(r, "refused") /\ UNCHANGED attempt
    ELSE Goto(r, "claimDir") /\ attempt' = [attempt EXCEPT ![r] = @ + 1]
TakenUncounted(r) ==
    IF opt[r].id # NoId THEN End(r, "refused") /\ UNCHANGED attempt
    ELSE Goto(r, "claimDir") /\ UNCHANGED attempt

\* A name that was taken: a supplied id is refused, a counted one is counted on
\* until the attempts are spent.
Taken(r) ==
    IF opt[r].id # NoId \/ attempt[r] >= MaxRunAttempts
    THEN End(r, "refused") /\ UNCHANGED attempt
    ELSE Goto(r, "claimDir") /\ attempt' = [attempt EXCEPT ![r] = @ + 1]

\* The process starts; New checks the run id before it makes anything.
Begin(r) ==
    /\ At(r, "idle")
    /\ Serial => \A q \in Run \ {r} :
          opt[r].inPlace \/ opt[q].inPlace => pc[q] = "idle" \/ up[q] # "alive"
    /\ IF opt[r].id # NoId /\ (opt[r].id \in BadId \/ opt[r].inPlace)
       THEN End(r, "refused") ELSE Goto(r, "makeRoots")
    /\ UNCHANGED <<dirs, files, opt, stamp, attempt>>

\* os.MkdirAll of both roots.  Roots are never removed, so no other run can
\* tell the two calls apart.
MakeRoots(r) ==
    /\ At(r, "makeRoots")
    /\ dirs' = dirs \union {RootPath(x) : x \in {opt[r].out, opt[r].work} \ {NoRoot}}
    /\ Goto(r, IF opt[r].inPlace THEN "claimRoot" ELSE "claimDir")
    /\ UNCHANGED <<files, opt, stamp, attempt>>

\* Mutant: os.MkdirAll, which treats an existing directory as success.
ClaimDirWithMkdirAll(r) ==
    /\ At(r, "claimDir")
    /\ dirs' = dirs \union {Dir(r)}
    /\ Goto(r, IF Separate(r) THEN "claimWork" ELSE "makeTemp")
    /\ UNCHANGED <<files, opt, stamp, attempt>>

\* claim of the output directory: os.Mkdir makes it or says it is there.
ClaimDir(r) ==
    /\ At(r, "claimDir")
    /\ IF Dir(r) \in dirs
       THEN Taken(r) /\ UNCHANGED dirs
       ELSE /\ dirs' = dirs \union {Dir(r)}
            /\ Goto(r, IF Separate(r) THEN "claimWork" ELSE "makeTemp")
            /\ UNCHANGED attempt
    /\ UNCHANGED <<files, opt, stamp>>

\* Mutant: scratch on a separate root made rather than claimed.
ClaimWorkWithMkdirAll(r) ==
    /\ At(r, "claimWork")
    /\ dirs' = dirs \union {WorkingRoot(r)}
    /\ Goto(r, "makeTemp")
    /\ UNCHANGED <<files, opt, stamp, attempt>>

\* claim of the run-scoped directory on a separate working root.
ClaimWork(r) ==
    /\ At(r, "claimWork")
    /\ IF WorkingRoot(r) \in dirs
       THEN Goto(r, "giveBack") /\ UNCHANGED dirs
       ELSE dirs' = dirs \union {WorkingRoot(r)} /\ Goto(r, "makeTemp")
    /\ UNCHANGED <<files, opt, stamp, attempt>>

\* Mutant: the claimed output directory is left behind.
GiveBackNothing(r) ==
    /\ At(r, "giveBack")
    /\ Taken(r)
    /\ UNCHANGED <<dirs, files, opt, stamp>>

\* os.Remove(workspace.Dir): only an empty directory goes, and an error is
\* not looked at.
GiveBack(r) ==
    /\ At(r, "giveBack")
    /\ dirs' = IF Occupied(Dir(r)) THEN dirs ELSE dirs \ {Dir(r)}
    /\ Taken(r)
    /\ UNCHANGED <<files, opt, stamp>>

\* newInPlace: claim(outputRoot), which New has already made.
ClaimRoot(r) ==
    /\ At(r, "claimRoot")
    /\ dirs' = dirs \union {Dir(r)}
    /\ Goto(r, IF Dir(r) \in dirs THEN "readRoot"
               ELSE IF Separate(r) THEN "claimInPlaceWork" ELSE "makeTemp")
    /\ UNCHANGED <<files, opt, stamp, attempt>>

\* Mutant: an occupied root is accepted in place.
ReadRootUnlooked(r) ==
    /\ At(r, "readRoot")
    /\ Goto(r, IF Separate(r) THEN "claimInPlaceWork" ELSE "makeTemp")
    /\ UNCHANGED <<dirs, files, opt, stamp, attempt>>

\* os.ReadDir(outputRoot): the root is only checked for being empty.
ReadRoot(r) ==
    /\ At(r, "readRoot")
    /\ IF Occupied(Dir(r)) THEN End(r, "refused")
       ELSE Goto(r, IF Separate(r) THEN "claimInPlaceWork" ELSE "makeTemp")
    /\ UNCHANGED <<dirs, files, opt, stamp, attempt>>

ClaimInPlaceWork(r) ==
    /\ At(r, "claimInPlaceWork")
    /\ IF WorkingRoot(r) \in dirs
       THEN End(r, "refused") /\ UNCHANGED dirs
       ELSE dirs' = dirs \union {WorkingRoot(r)} /\ Goto(r, "makeTemp")
    /\ UNCHANGED <<files, opt, stamp, attempt>>

\* os.MkdirAll(tempDir), which ends New.
MakeTemp(r) ==
    /\ At(r, "makeTemp")
    /\ dirs' = dirs \union WithParents(TempDir(r))
    /\ Goto(r, "open")
    /\ UNCHANGED <<files, opt, stamp, attempt>>

Write(r, p, kind) == files' = files \union {[dir |-> p, by |-> r, kind |-> kind]}

\* OutputDir and store.Open: the case database is there before anything is read.
OpenCase(r) ==
    /\ At(r, "open")
    /\ dirs' = dirs \union {Dir(r)}
    /\ Write(r, Dir(r), "case")
    /\ Goto(r, "read")
    /\ UNCHANGED <<opt, stamp, attempt>>

\* LoadHive: the recovered copy lands in the redirected temporary directory,
\* which must still be there.
Recover(r) ==
    /\ At(r, "read")
    /\ IF TempDir(r) \in dirs
       THEN Write(r, TempDir(r), "recovered") /\ Goto(r, "recovered")
       ELSE End(r, "error") /\ UNCHANGED files
    /\ UNCHANGED <<dirs, opt, stamp, attempt>>

\* The cleanup LoadHive returned.
Cleanup(r) ==
    /\ At(r, "recovered")
    /\ files' = files \ {[dir |-> TempDir(r), by |-> r, kind |-> "recovered"]}
    /\ Goto(r, "read")
    /\ UNCHANGED <<dirs, opt, stamp, attempt>>

WriteManifest(r) ==
    /\ At(r, "read")
    /\ dirs' = dirs \union {Dir(r)}
    /\ Write(r, Dir(r), "manifest")
    /\ IF opt[r].keep THEN pc' = [pc EXCEPT ![r] = "end"] /\ up' = [up EXCEPT ![r] = "done"]
                      ELSE Goto(r, "discard")
    /\ UNCHANGED <<opt, stamp, attempt>>

\* Mutant: the working root goes whether or not it is the run's own directory.
DiscardWorkingRoot(r) ==
    /\ At(r, "discard")
    /\ dirs' = {q \in dirs : ~Within(q, WorkingRoot(r))}
    /\ files' = {f \in files : ~Within(f.dir, WorkingRoot(r))}
    /\ pc' = [pc EXCEPT ![r] = "end"]
    /\ up' = [up EXCEPT ![r] = "done"]
    /\ UNCHANGED <<opt, stamp, attempt>>

\* os.RemoveAll of the scratch, and of the run-scoped directory around it
\* where scratch has a root of its own.
DiscardScratch(r) ==
    LET target == IF Separate(r) THEN WorkingRoot(r) ELSE TempDir(r) IN
    /\ At(r, "discard")
    /\ dirs' = {q \in dirs : ~Within(q, target)}
    /\ files' = {f \in files : ~Within(f.dir, target)}
    /\ pc' = [pc EXCEPT ![r] = "end"]
    /\ up' = [up EXCEPT ![r] = "done"]
    /\ UNCHANGED <<opt, stamp, attempt>>

\* Any call may fail and be returned as an error, and the process may be
\* killed: nothing is undone by either.
Fail(r) ==
    /\ up[r] = "alive" /\ pc[r] # "idle"
    /\ End(r, "error")
    /\ UNCHANGED <<dirs, files, opt, stamp, attempt>>

Crash(r) ==
    /\ up[r] = "alive" /\ pc[r] # "idle"
    /\ End(r, "crashed")
    /\ UNCHANGED <<dirs, files, opt, stamp, attempt>>

NewStep(r) ==
    \/ Begin(r) \/ MakeRoots(r) \/ ClaimDir(r) \/ ClaimWork(r) \/ GiveBack(r)
    \/ ClaimRoot(r) \/ ReadRoot(r) \/ ClaimInPlaceWork(r) \/ MakeTemp(r)

RunStep(r) ==
    \/ OpenCase(r) \/ Recover(r) \/ Cleanup(r) \/ WriteManifest(r) \/ DiscardScratch(r)

Next == \E r \in Run : NewStep(r) \/ RunStep(r) \/ Fail(r) \/ Crash(r)

Spec == Init /\ [][Next]_vars

\* New is straight-line code in a process the operating system schedules.
FairSpec == Spec /\ \A r \in Run : WF_vars(NewStep(r))
----------------------------------------------------------------------------
\* Directories and files lie under the roots, and New's count of attempts never
\* passes its bound (workspace.go:124-134).
TypeOK ==
    /\ dirs \subseteq Path
    /\ files \subseteq File
    /\ pc \in [Run -> {"idle", "makeRoots", "claimDir", "claimWork", "giveBack",
                       "claimRoot", "readRoot", "claimInPlaceWork", "makeTemp",
                       "open", "read", "recovered", "discard", "end"}]
    /\ up \in [Run -> {"alive", "done", "refused", "error", "crashed"}]
    /\ opt \in [Run -> Option]
    /\ stamp \in [Run -> Stamp]
    /\ attempt \in [Run -> 1..MaxRunAttempts]

\* A run never writes into another run's results: whatever the order in which
\* the claims, the hand-backs and the removals of several processes fall, no
\* directory ever holds files of two runs (workspace.go:40-42, 61-64).
SingleAuthor == \A f, g \in files : f.dir = g.dir => f.by = g.by

\* The directories a run has obtained and not handed back or discarded.
Results(r) ==
    IF pc[r] \in {"claimWork", "giveBack", "claimInPlaceWork", "makeTemp", "open",
                  "read", "recovered", "discard", "end"} /\ up[r] # "refused"
    THEN {Dir(r)} ELSE {}

Scratch(r) ==
    IF \/ pc[r] \in {"makeTemp", "open", "read", "recovered", "discard"}
       \/ pc[r] = "end" /\ opt[r].keep
    THEN {WorkingRoot(r)} ELSE {}

\* Two runs never hold one directory, as results or as scratch, and what a run
\* holds is there: removal by another run has not taken it away.  A root in place
\* is taken again where the run that had it failed before it left anything.
Exclusive ==
    \A r \in Run :
        /\ Results(r) \union Scratch(r) \subseteq dirs
        /\ \A q \in Run \ {r} :
              ~(opt[r].inPlace /\ opt[q].inPlace) =>
              (Results(r) \union Scratch(r)) \cap (Results(q) \union Scratch(q)) = {}

\* What a run has written as a result stays: no other run's hand-back or
\* discarded scratch, and not its own, ever takes it.
ResultsSurvive == [][\A f \in files : f.kind # "recovered" => f \in files']_vars

\* Refusing a taken scratch name hands the output directory back: once no run is
\* between a claim and its hand-back, every directory under an output root
\* belongs to a run that was not refused (workspace.go:169-172).
NoShells ==
    \A p \in dirs :
        p.id # NoId =>
            \E r \in Run : /\ up[r] # "refused"
                           /\ \/ p \in Results(r) \union Scratch(r)
                              \/ p = TempDir(r) /\ pc[r] \in {"open", "read", "recovered", "discard", "end"}

\* New ends: the search for a free name is bounded, however the other runs
\* interfere with it.
NewEnds ==
    \A r \in Run : pc[r] = "makeRoots" ~> (up[r] # "alive" \/ pc[r] = "open")
=============================================================================
