------------------------- MODULE RunDirectoryProofs -------------------------
(***************************************************************************)
(* For any number of processes, roots, seconds and attempts: runs that are *)
(* not started with -in-place never share a directory, whatever the order  *)
(* of their claims, hand-backs, removals, errors and deaths.               *)
(***************************************************************************)
EXTENDS RunDirectory, TLAPS

\* -in-place gives up the file system's own exclusion (workspace.go:71-74).
NoneInPlace == \A o \in Option : ~o.inPlace

Held(r) == Results(r) \union Scratch(r)

\* The id New works with passed checkRunID, and no run is in newInPlace.
Checked ==
    \A r \in Run :
        pc[r] # "idle" => /\ opt[r].id \notin BadId
                          /\ pc[r] \notin {"claimRoot", "readRoot", "claimInPlaceWork"}
                          /\ pc[r] = "discard" => ~opt[r].keep

\* That part of it which holds of every command line.
IdChecked == \A r \in Run : pc[r] # "idle" => opt[r].id \notin BadId

\* What f's writer must hold for f to be where it is.
Placed(f) ==
    /\ pc[f.by] \in {"read", "recovered", "discard", "end"} /\ up[f.by] # "refused"
    /\ \/ f.dir = Dir(f.by)
       \/ f.dir = TempDir(f.by) /\ WorkingRoot(f.by) \in Scratch(f.by)

FilesPlaced == \A f \in files : Placed(f)

\* Two held directories are different, and each is there.
HeldApart == \A r, q \in Run : r # q => Held(r) \cap Held(q) = {}
HeldThere == \A r \in Run : Held(r) \subseteq dirs

IInv == TypeOK /\ Checked /\ HeldThere /\ HeldApart /\ FilesPlaced

\* Where a run's scratch goes: its own output root, or the separate one.
ScratchRoot(r) == IF opt[r].work = NoRoot THEN opt[r].out ELSE opt[r].work

----------------------------------------------------------------------------
\* The three directories of a run that is past checkRunID and not in place are
\* named by one id under the roots of its command line.
LEMMA PathsOfARun ==
    ASSUME TypeOK, Checked, NoneInPlace, NEW r \in Run, pc[r] # "idle"
    PROVE  /\ RunID(r) \in Id /\ RunID(r) # NoId
           /\ opt[r].out \in Root /\ ScratchRoot(r) \in Root
           /\ Dir(r) = Named(opt[r].out, RunID(r))
           /\ WorkingRoot(r) = Named(ScratchRoot(r), RunID(r))
           /\ TempDir(r) = [root |-> ScratchRoot(r), id |-> RunID(r), sub |-> TRUE]
<1>1. /\ opt[r] \in Option /\ opt[r] \in CommandLine /\ ~opt[r].inPlace
      /\ stamp[r] \in Stamp /\ attempt[r] \in 1..MaxRunAttempts
  BY OptionAssumption DEF TypeOK, NoneInPlace
<1>2. opt[r].id \notin BadId
  BY DEF Checked
<1>3. RunID(r) \in Id
  BY <1>1, <1>2 DEF RunID, Id, CommandLine
<1>4. RunID(r) # NoId
  BY <1>3, NameAssumption
<1>5. opt[r].out \in Root /\ ScratchRoot(r) \in Root
  BY <1>1 DEF CommandLine, ScratchRoot
<1>6. Dir(r) = Named(opt[r].out, RunID(r))
  BY <1>1 DEF Dir
<1>7. WorkingRoot(r) = Named(ScratchRoot(r), RunID(r))
  BY <1>6 DEF WorkingRoot, ScratchRoot
<1>8. TempDir(r) = [root |-> ScratchRoot(r), id |-> RunID(r), sub |-> TRUE]
  BY <1>4, <1>7 DEF TempDir, Named
<1> QED BY <1>3, <1>4, <1>5, <1>6, <1>7, <1>8

\* In place or not, the directories of a run whose id passed checkRunID are paths.
LEMMA PathsAreTyped ==
    ASSUME TypeOK, NEW r \in Run, opt[r].id \notin BadId
    PROVE  /\ Dir(r) \in Path /\ WorkingRoot(r) \in Path /\ TempDir(r) \in Path
           /\ WithParents(TempDir(r)) \subseteq Path
<1>1. /\ opt[r] \in CommandLine
      /\ stamp[r] \in Stamp /\ attempt[r] \in 1..MaxRunAttempts
  BY OptionAssumption DEF TypeOK
<1>2. RunID(r) \in Id /\ Working \in Id
  BY <1>1 DEF RunID, Id, CommandLine
<1>3. opt[r].out \in Root /\ (opt[r].work # NoRoot => opt[r].work \in Root)
  BY <1>1 DEF CommandLine
<1>4. \A x \in Root : \A i \in Id :
         /\ Named(x, i) \in Path /\ RootPath(x) \in Path
         /\ [root |-> x, id |-> i, sub |-> TRUE] \in Path
  BY DEF Path, Named, RootPath
<1>5. Dir(r) \in Path
  BY <1>2, <1>3, <1>4 DEF Dir
<1>6. WorkingRoot(r) \in Path
  BY <1>2, <1>3, <1>4, <1>5 DEF WorkingRoot
<1>7. WorkingRoot(r).root \in Root /\ WorkingRoot(r).id \in Id \union {NoId}
  BY <1>6 DEF Path
<1>8. TempDir(r) \in Path /\ TempDir(r).root \in Root /\ TempDir(r).id \in Id
  <2>1. CASE WorkingRoot(r).id = NoId
    <3>1. TempDir(r) = [root |-> WorkingRoot(r).root, id |-> Working, sub |-> FALSE]
      BY <2>1 DEF TempDir, Named
    <3> QED BY <3>1, <1>2, <1>7 DEF Path
  <2>2. CASE WorkingRoot(r).id # NoId
    <3>1. TempDir(r) = [root |-> WorkingRoot(r).root, id |-> WorkingRoot(r).id, sub |-> TRUE]
      BY <2>2 DEF TempDir
    <3> QED BY <2>2, <3>1, <1>7 DEF Path
  <2> QED BY <2>1, <2>2
<1> QED BY <1>4, <1>5, <1>6, <1>8 DEF WithParents

\* A step of run r leaves every other run, and every command line, as it was.
OthersRest(r) ==
    /\ opt' = opt /\ stamp' = stamp
    /\ \A q \in Run \ {r} : pc'[q] = pc[q] /\ up'[q] = up[q] /\ attempt'[q] = attempt[q]

\* No step of one run moves another.
LEMMA StepsLeaveOthers ==
    ASSUME TypeOK, NEW r \in Run, NewStep(r) \/ RunStep(r) \/ Fail(r) \/ Crash(r)
    PROVE  OthersRest(r)
BY DEF TypeOK, OthersRest, NewStep, RunStep, Begin, MakeRoots, ClaimDir, ClaimWork, GiveBack,
       ClaimRoot, ReadRoot, ClaimInPlaceWork, MakeTemp, OpenCase, Recover, Cleanup,
       WriteManifest, DiscardScratch, Fail, Crash, At, Goto, End, Taken

\* So what the others hold, and where their files belong, does not change.
LEMMA OthersKeepTheirs ==
    ASSUME NEW r \in Run, OthersRest(r), NEW q \in Run, q # r
    PROVE  /\ Held(q)' = Held(q)
           /\ \A f : f.by = q /\ Placed(f) => Placed(f)'
<1>1. pc'[q] = pc[q] /\ up'[q] = up[q] /\ attempt'[q] = attempt[q]
      /\ opt'[q] = opt[q] /\ stamp'[q] = stamp[q]
  BY DEF OthersRest
<1>2. RunID(q)' = RunID(q)
  BY <1>1 DEF RunID
<1>3. Dir(q)' = Dir(q)
  BY <1>1, <1>2 DEF Dir
<1>4. WorkingRoot(q)' = WorkingRoot(q)
  BY <1>1, <1>2, <1>3 DEF WorkingRoot
<1>5. TempDir(q)' = TempDir(q)
  BY <1>4 DEF TempDir
<1>6. Results(q)' = Results(q) /\ Scratch(q)' = Scratch(q)
  BY <1>1, <1>3, <1>4 DEF Results, Scratch
<1>7. Held(q)' = Held(q)
  BY <1>6 DEF Held
<1>8. ASSUME NEW f, f.by = q, Placed(f) PROVE Placed(f)'
  BY <1>1, <1>3, <1>4, <1>5, <1>6, <1>8 DEF Placed
<1> QED BY <1>7, <1>8

\* What a step of r has to show: it takes only directories that were not there,
\* it removes none that another run holds, and its files are where it may write.
LEMMA StepKeepsApart ==
    ASSUME IInv, NEW r \in Run, OthersRest(r), TypeOK', Checked',
           Held(r)' \subseteq dirs',
           \A p \in Held(r)' : p \in Held(r) \/ p \notin dirs,
           \A q \in Run \ {r} : Held(q) \subseteq dirs',
           \A f \in files' : f \in files \/ f.by = r,
           \A f \in files' : f.by = r => Placed(f)'
    PROVE  IInv'
<1>1. \A q \in Run \ {r} : Held(q)' = Held(q)
  BY OthersKeepTheirs
<1>2. HeldThere'
  BY <1>1 DEF HeldThere
<1>3. HeldApart'
  <2> SUFFICES ASSUME NEW a \in Run, NEW b \in Run, a # b
               PROVE Held(a)' \cap Held(b)' = {}
    BY DEF HeldApart
  <2>1. \A q \in Run \ {r} : Held(r)' \cap Held(q)' = {}
    BY <1>1 DEF IInv, HeldApart, HeldThere
  <2>2. CASE a = r
    BY <2>1, <2>2
  <2>3. CASE b = r
    BY <2>1, <2>3
  <2>4. CASE a # r /\ b # r
    BY <1>1, <2>4 DEF IInv, HeldApart
  <2> QED BY <2>2, <2>3, <2>4
<1>4. FilesPlaced'
  <2> SUFFICES ASSUME NEW f \in files' PROVE Placed(f)'
    BY DEF FilesPlaced
  <2>1. CASE f.by = r
    BY <2>1
  <2>2. CASE f.by # r
    <3>1. f \in files /\ Placed(f)
      BY <2>2 DEF IInv, FilesPlaced
    <3>2. f.by \in Run
      BY <3>1 DEF IInv, TypeOK, File
    <3> QED BY <2>2, <3>1, <3>2, OthersKeepTheirs
  <2> QED BY <2>1, <2>2
<1> QED BY <1>2, <1>3, <1>4 DEF IInv

----------------------------------------------------------------------------
\* The initial state is typed, and holds nothing.
LEMMA InitIsTyped == ASSUME Init PROVE TypeOK
<1>1. \A x \in Root : RootPath(x) \in Path
  BY DEF RootPath, Path
<1>2. dirs = {RootPath(x) : x \in ExistingRoot}
  BY DEF Init
<1>3. attempt \in [Run -> 1..MaxRunAttempts]
  BY AttemptAssumption DEF Init
<1> QED BY <1>1, <1>2, <1>3, RootAssumption DEF Init, TypeOK

\* A run that has not begun holds nothing, and nothing is written.
LEMMA InitHolds == Init => IInv
<1> SUFFICES ASSUME Init PROVE IInv
  OBVIOUS
<1>1. TypeOK
  BY InitIsTyped
<1>2. \A r \in Run : Held(r) = {}
  BY DEF Init, Held, Results, Scratch
<1>3. Checked /\ FilesPlaced
  BY DEF Init, Checked, FilesPlaced
<1> QED BY <1>1, <1>2, <1>3 DEF IInv, HeldApart, HeldThere

\* The run's own names while its command line, stamp and attempt stay.
LEMMA NamesStay ==
    ASSUME NEW r \in Run, opt' = opt, stamp' = stamp, attempt' = attempt
    PROVE  /\ RunID(r)' = RunID(r) /\ Dir(r)' = Dir(r)
           /\ WorkingRoot(r)' = WorkingRoot(r) /\ TempDir(r)' = TempDir(r)
           /\ Separate(r)' = Separate(r)
BY DEF RunID, Dir, WorkingRoot, TempDir, Separate

\* Every step keeps the types, whatever the command lines.
LEMMA StepKeepsTypes ==
    ASSUME TypeOK, IdChecked, NEW r \in Run,
           NewStep(r) \/ RunStep(r) \/ Fail(r) \/ Crash(r)
    PROVE  TypeOK' /\ IdChecked'
<1>0. /\ opt[r] \in CommandLine
      /\ RootPath(opt[r].out) \in Path
      /\ opt[r].work # NoRoot => RootPath(opt[r].work) \in Path
  BY OptionAssumption DEF TypeOK, CommandLine, RootPath, Path
<1>1. CASE Begin(r)
  BY <1>0, <1>1, NameAssumption DEF Begin, At, Goto, End, TypeOK, IdChecked
<1>2. CASE MakeRoots(r)
  BY <1>0, <1>2 DEF MakeRoots, At, Goto, TypeOK, IdChecked
<1>p. pc[r] # "idle" => /\ Dir(r) \in Path /\ WorkingRoot(r) \in Path /\ TempDir(r) \in Path
                        /\ WithParents(TempDir(r)) \subseteq Path
  BY PathsAreTyped DEF IdChecked
<1>3. CASE ClaimDir(r)
  BY <1>p, <1>3, AttemptAssumption DEF ClaimDir, At, Goto, End, Taken, TypeOK, IdChecked
<1>4. CASE ClaimWork(r)
  BY <1>p, <1>4 DEF ClaimWork, At, Goto, TypeOK, IdChecked
<1>5. CASE GiveBack(r)
  BY <1>p, <1>5, AttemptAssumption DEF GiveBack, At, Goto, End, Taken, TypeOK, IdChecked
<1>6. CASE ClaimRoot(r)
  BY <1>p, <1>6 DEF ClaimRoot, At, Goto, TypeOK, IdChecked
<1>61. CASE ReadRoot(r)
  BY <1>p, <1>61 DEF ReadRoot, At, Goto, End, TypeOK, IdChecked
<1>62. CASE ClaimInPlaceWork(r)
  BY <1>p, <1>62 DEF ClaimInPlaceWork, At, Goto, End, TypeOK, IdChecked
<1>7. CASE MakeTemp(r)
  BY <1>p, <1>7 DEF MakeTemp, At, Goto, TypeOK, IdChecked
<1>8. CASE OpenCase(r)
  BY <1>p, <1>8 DEF OpenCase, Write, At, Goto, TypeOK, IdChecked, File
<1>9. CASE Recover(r)
  BY <1>p, <1>9 DEF Recover, Write, At, Goto, End, TypeOK, IdChecked, File
<1>10. CASE Cleanup(r)
  BY <1>p, <1>10 DEF Cleanup, At, Goto, TypeOK, IdChecked
<1>11. CASE WriteManifest(r)
  BY <1>p, <1>11 DEF WriteManifest, Write, At, Goto, TypeOK, IdChecked, File
<1>12. CASE DiscardScratch(r)
  BY <1>12 DEF DiscardScratch, At, TypeOK, IdChecked
<1>13. CASE Fail(r) \/ Crash(r)
  BY <1>13 DEF Fail, Crash, End, TypeOK, IdChecked
<1> QED BY <1>1, <1>2, <1>3, <1>4, <1>5, <1>6, <1>61, <1>62, <1>7, <1>8, <1>9, <1>10, <1>11,
           <1>12, <1>13
     DEF NewStep, RunStep

\* Where no command line is in place, no step enters newInPlace.
LEMMA StepKeepsChecked ==
    ASSUME TypeOK, Checked, NoneInPlace, NEW r \in Run,
           NewStep(r) \/ RunStep(r) \/ Fail(r) \/ Crash(r)
    PROVE  Checked'
<1>0. /\ opt[r] \in CommandLine /\ ~opt[r].inPlace
      /\ pc \in [Run -> {"idle", "makeRoots", "claimDir", "claimWork", "giveBack", "claimRoot",
                         "readRoot", "claimInPlaceWork", "makeTemp", "open", "read",
                         "recovered", "discard", "end"}]
  BY OptionAssumption DEF TypeOK, NoneInPlace, CommandLine
<1>1. CASE Begin(r)
  BY <1>0, <1>1, NameAssumption DEF Begin, At, Goto, End, Checked
<1>2. CASE MakeRoots(r) \/ ClaimDir(r) \/ ClaimWork(r) \/ GiveBack(r)
  BY <1>0, <1>2 DEF MakeRoots, ClaimDir, ClaimWork, GiveBack, Taken, At, Goto, End, Checked
<1>3. CASE ClaimRoot(r) \/ ReadRoot(r) \/ ClaimInPlaceWork(r)
  BY <1>3 DEF ClaimRoot, ReadRoot, ClaimInPlaceWork, At, Checked
<1>4. CASE MakeTemp(r) \/ OpenCase(r) \/ Recover(r) \/ Cleanup(r)
  BY <1>0, <1>4 DEF MakeTemp, OpenCase, Recover, Cleanup, At, Goto, End, Checked
<1>5. CASE WriteManifest(r) \/ DiscardScratch(r) \/ Fail(r) \/ Crash(r)
  BY <1>0, <1>5 DEF WriteManifest, DiscardScratch, Fail, Crash, At, Goto, End, Checked
<1> QED BY <1>1, <1>2, <1>3, <1>4, <1>5 DEF NewStep, RunStep

----------------------------------------------------------------------------
\* What DiscardScratch removes.
Target(r) == IF Separate(r) THEN WorkingRoot(r) ELSE TempDir(r)

\* Of all the directories held by any run, a run's target covers none but its
\* own scratch on a separate root.
LEMMA TargetIsOwn ==
    ASSUME IInv, NoneInPlace, NEW r \in Run, pc[r] = "discard", NEW q \in Run,
           NEW p \in Held(q), Within(p, Target(r))
    PROVE  Separate(r) /\ p = WorkingRoot(r)
<1>1. /\ TempDir(r) = [root |-> ScratchRoot(r), id |-> RunID(r), sub |-> TRUE]
      /\ WorkingRoot(r) = Named(ScratchRoot(r), RunID(r)) /\ RunID(r) # NoId
  BY PathsOfARun DEF IInv
<1>2. \E x, i : p = Named(x, i)
  <2>1. pc[q] # "idle" /\ (p = Dir(q) \/ p = WorkingRoot(q))
    BY DEF Held, Results, Scratch
  <2> QED BY <2>1, PathsOfARun DEF IInv
<1> QED BY <1>1, <1>2 DEF Target, Within, Named

----------------------------------------------------------------------------
\* The steps of one run, each shown to keep what StepKeepsApart asks for.  What
\* a step does not write is left to the lemma's hypotheses.
LEMMA RunKeepsApart ==
    ASSUME IInv, NoneInPlace, NEW r \in Run,
           NewStep(r) \/ RunStep(r) \/ Fail(r) \/ Crash(r)
    PROVE  IInv'
<1>0. OthersRest(r) /\ TypeOK' /\ Checked'
  BY StepsLeaveOthers, StepKeepsTypes, StepKeepsChecked DEF IInv, Checked, IdChecked
<1>1. opt' = opt /\ stamp' = stamp
  BY <1>0 DEF OthersRest
<1>2. /\ pc[r] \in {"idle", "makeRoots", "claimDir", "claimWork", "giveBack"} => \A f \in files : f.by # r
      /\ up[r] = "refused" => \A f \in files : f.by # r
  BY DEF IInv, FilesPlaced, Placed
<1>3. Held(r) \subseteq dirs /\ \A q \in Run \ {r} : Held(q) \subseteq dirs /\ Held(q) \cap Held(r) = {}
  BY DEF IInv, HeldThere, HeldApart
<1>t. pc \in [Run -> {"idle", "makeRoots", "claimDir", "claimWork", "giveBack",
                       "claimRoot", "readRoot", "claimInPlaceWork", "makeTemp",
                       "open", "read", "recovered", "discard", "end"}]
      /\ up \in [Run -> {"alive", "done", "refused", "error", "crashed"}]
  BY DEF IInv, TypeOK
\* Begin and MakeRoots take nothing.
<1>4. CASE Begin(r) \/ MakeRoots(r)
  <2>1. Held(r)' = {}
    BY <1>4, <1>t DEF Begin, MakeRoots, At, Goto, End, Held, Results, Scratch
  <2>2. dirs \subseteq dirs' /\ files' = files
    BY <1>4 DEF Begin, MakeRoots
  <2>3. \A f \in files : f.by # r
    BY <1>4, <1>2 DEF Begin, MakeRoots, At
  <2> QED BY <2>1, <2>2, <2>3, <1>0, <1>3, StepKeepsApart
<1>5. CASE ClaimDir(r)
  <2>1. files' = files /\ (\A f \in files : f.by # r) /\ dirs \subseteq dirs'
    BY <1>5, <1>2 DEF ClaimDir, At
  <2>2. CASE Dir(r) \in dirs
    <3>1. Held(r)' = {}
      BY <1>5, <2>2, <1>t DEF ClaimDir, Taken, At, Goto, End, Held, Results, Scratch
    <3> QED BY <3>1, <2>1, <1>0, <1>3, StepKeepsApart
  <2>3. CASE Dir(r) \notin dirs
    <3>1. attempt' = attempt /\ dirs' = dirs \union {Dir(r)}
          /\ pc'[r] \in {"claimWork", "makeTemp"} /\ (pc'[r] = "makeTemp" => ~Separate(r))
      BY <1>5, <2>3, <1>t DEF ClaimDir, Goto
    <3>2. Dir(r)' = Dir(r) /\ WorkingRoot(r)' = WorkingRoot(r)
      BY <3>1, <1>1, NamesStay
    <3>3. Held(r)' \subseteq {Dir(r)}
      BY <3>1, <3>2 DEF Held, Results, Scratch, Separate
    <3> QED BY <3>1, <3>3, <2>1, <2>3, <1>0, <1>3, StepKeepsApart
  <2> QED BY <2>2, <2>3
<1>6. CASE ClaimWork(r)
  <2>1. files' = files /\ (\A f \in files : f.by # r) /\ dirs \subseteq dirs' /\ attempt' = attempt
        /\ pc[r] = "claimWork" /\ up[r] = "alive"
    BY <1>6, <1>2 DEF ClaimWork, At
  <2>2. Dir(r)' = Dir(r) /\ WorkingRoot(r)' = WorkingRoot(r)
    BY <2>1, <1>1, NamesStay
  <2>3. Dir(r) \in Held(r)
    BY <2>1 DEF Held, Results
  <2>4. Held(r)' \subseteq dirs' /\ \A p \in Held(r)' : p \in Held(r) \/ p \notin dirs
    <3>1. CASE WorkingRoot(r) \in dirs
      <4>1. pc'[r] = "giveBack"
        BY <1>6, <3>1, <1>t DEF ClaimWork, Goto
      <4>2. Held(r)' \subseteq {Dir(r)}
        BY <4>1, <2>2 DEF Held, Results, Scratch
      <4> QED BY <4>2, <2>1, <2>3, <1>3
    <3>2. CASE WorkingRoot(r) \notin dirs
      <4>1. pc'[r] = "makeTemp" /\ dirs' = dirs \union {WorkingRoot(r)}
        BY <1>6, <3>2, <1>t DEF ClaimWork, Goto
      <4>2. Held(r)' \subseteq {Dir(r), WorkingRoot(r)}
        BY <4>1, <2>2 DEF Held, Results, Scratch
      <4> QED BY <4>1, <4>2, <2>1, <2>3, <1>3, <3>2
    <3> QED BY <3>1, <3>2
  <2> QED BY <2>1, <2>4, <1>0, <1>3, StepKeepsApart
\* GiveBack removes the one directory the run holds.
<1>7. CASE GiveBack(r)
  <2>1. files' = files /\ (\A f \in files : f.by # r) /\ pc[r] = "giveBack" /\ up[r] = "alive"
        /\ dirs \ {Dir(r)} \subseteq dirs'
    BY <1>7, <1>2 DEF GiveBack, At
  <2>2. Dir(r) \in Held(r)
    BY <2>1 DEF Held, Results
  <2>3. Held(r)' = {}
    BY <1>7, <1>t DEF GiveBack, Taken, At, Goto, End, Held, Results, Scratch
  <2>4. \A q \in Run \ {r} : Held(q) \subseteq dirs'
    BY <2>1, <2>2, <1>3
  <2> QED BY <2>1, <2>3, <2>4, <1>0, StepKeepsApart
<1>8. CASE ClaimRoot(r) \/ ReadRoot(r) \/ ClaimInPlaceWork(r)
  BY <1>8 DEF ClaimRoot, ReadRoot, ClaimInPlaceWork, At, IInv, Checked
\* From here on the run keeps its names, what it holds and the files it has.
<1>9. ASSUME attempt' = attempt, pc[r] # "idle", up'[r] # "refused",
             Held(r)' = Held(r), dirs \subseteq dirs',
             \A f \in files : f.by = r /\ f \in files' => Placed(f)',
             \A f \in files' : f \in files \/ (f.by = r /\ Placed(f)')
      PROVE  IInv'
  BY <1>9, <1>0, <1>3, StepKeepsApart
<1>10. CASE MakeTemp(r)
  <2>1. /\ attempt' = attempt /\ files' = files /\ dirs \subseteq dirs'
        /\ pc[r] = "makeTemp" /\ pc'[r] = "open" /\ up[r] = "alive" /\ up'[r] = "alive"
    BY <1>10, <1>t DEF MakeTemp, At, Goto
  <2>2. Held(r)' = Held(r)
    BY <2>1, <1>1, NamesStay DEF Held, Results, Scratch
  <2>3. \A f \in files : f.by # r
    BY <2>1 DEF IInv, FilesPlaced, Placed
  <2> QED BY <2>1, <2>2, <2>3, <1>9
<1>11. CASE OpenCase(r)
  <2>1. /\ attempt' = attempt /\ dirs \subseteq dirs'
        /\ pc[r] = "open" /\ pc'[r] = "read" /\ up[r] = "alive" /\ up'[r] = "alive"
        /\ files' = files \union {[dir |-> Dir(r), by |-> r, kind |-> "case"]}
    BY <1>11, <1>t DEF OpenCase, Write, At, Goto
  <2>2. Held(r)' = Held(r)
    BY <2>1, <1>1, NamesStay DEF Held, Results, Scratch
  <2>3. \A f \in files : f.by # r
    BY <2>1 DEF IInv, FilesPlaced, Placed
  <2>4. \A f \in files' : f \in files \/ (f.by = r /\ Placed(f)')
    <3>1. SUFFICES ASSUME NEW f \in files', f \notin files PROVE f.by = r /\ Placed(f)'
      OBVIOUS
    <3>2. f.by = r /\ f.dir = Dir(r)
      BY <2>1, <3>1
    <3> QED BY <2>1, <3>2, <1>1, NamesStay DEF Placed
  <2> QED BY <2>1, <2>2, <2>3, <2>4, <1>9
<1>12. CASE Recover(r)
  <2>1. /\ attempt' = attempt /\ dirs' = dirs /\ pc[r] = "read" /\ up[r] = "alive"
        /\ \/ pc'[r] = "recovered" /\ up'[r] = "alive"
              /\ files' = files \union {[dir |-> TempDir(r), by |-> r, kind |-> "recovered"]}
           \/ pc'[r] = "read" /\ up'[r] = "error" /\ files' = files
    BY <1>12, <1>t DEF Recover, Write, At, Goto, End
  <2>2. Held(r)' = Held(r) /\ Scratch(r)' = Scratch(r)
    BY <2>1, <1>1, NamesStay DEF Held, Results, Scratch
  <2>3. \A f \in files : f.by = r => Placed(f)'
    BY <2>1, <2>2, <1>1, NamesStay DEF IInv, FilesPlaced, Placed
  <2>4. \A f \in files' : f \in files \/ (f.by = r /\ Placed(f)')
    <3>1. SUFFICES ASSUME NEW f \in files', f \notin files PROVE f.by = r /\ Placed(f)'
      OBVIOUS
    <3>2. f.by = r /\ f.dir = TempDir(r) /\ pc'[r] = "recovered" /\ up'[r] = "alive"
      BY <2>1, <3>1
    <3> QED BY <3>2, <1>1, <2>1, NamesStay DEF Placed, Scratch
  <2> QED BY <2>1, <2>2, <2>3, <2>4, <1>9
<1>13. CASE Cleanup(r)
  <2>1. /\ attempt' = attempt /\ dirs' = dirs /\ files' \subseteq files
        /\ pc[r] = "recovered" /\ pc'[r] = "read" /\ up[r] = "alive" /\ up'[r] = "alive"
    BY <1>13, <1>t DEF Cleanup, At, Goto
  <2>2. Held(r)' = Held(r) /\ Scratch(r)' = Scratch(r)
    BY <2>1, <1>1, NamesStay DEF Held, Results, Scratch
  <2>3. \A f \in files : f.by = r => Placed(f)'
    BY <2>1, <2>2, <1>1, NamesStay DEF IInv, FilesPlaced, Placed
  <2> QED BY <2>1, <2>2, <2>3, <1>9
<1>14. CASE WriteManifest(r)
  <2>1. /\ attempt' = attempt /\ dirs \subseteq dirs' /\ pc[r] = "read" /\ up[r] = "alive"
        /\ files' = files \union {[dir |-> Dir(r), by |-> r, kind |-> "manifest"]}
        /\ \/ opt[r].keep /\ pc'[r] = "end" /\ up'[r] = "done"
           \/ pc'[r] = "discard" /\ up'[r] = "alive"
    BY <1>14, <1>t DEF WriteManifest, Write, At, Goto
  <2>2. Held(r)' = Held(r) /\ Scratch(r)' = Scratch(r)
    BY <2>1, <1>1, NamesStay DEF Held, Results, Scratch
  <2>3. \A f \in files : f.by = r => Placed(f)'
    BY <2>1, <2>2, <1>1, NamesStay DEF IInv, FilesPlaced, Placed
  <2>4. \A f \in files' : f \in files \/ (f.by = r /\ Placed(f)')
    <3>1. SUFFICES ASSUME NEW f \in files', f \notin files PROVE f.by = r /\ Placed(f)'
      OBVIOUS
    <3>2. f.by = r /\ f.dir = Dir(r)
      BY <2>1, <3>1
    <3> QED BY <2>1, <3>2, <1>1, NamesStay DEF Placed
  <2> QED BY <2>1, <2>2, <2>3, <2>4, <1>9
\* DiscardScratch removes only what lies in the scratch this run holds.
<1>15. CASE DiscardScratch(r)
  <2>1. /\ attempt' = attempt /\ pc[r] = "discard" /\ pc'[r] = "end" /\ up[r] = "alive" /\ up'[r] = "done"
        /\ dirs' = {q \in dirs : ~Within(q, Target(r))}
        /\ files' = {f \in files : ~Within(f.dir, Target(r))}
    BY <1>15, <1>t DEF DiscardScratch, At, Target
  <2>2. /\ TempDir(r) = [root |-> ScratchRoot(r), id |-> RunID(r), sub |-> TRUE]
        /\ WorkingRoot(r) = Named(ScratchRoot(r), RunID(r)) /\ RunID(r) # NoId
    BY <2>1, PathsOfARun DEF IInv
  <2>4. \A q \in Run : \A p \in Held(q) : Within(p, Target(r)) => Separate(r) /\ p = WorkingRoot(r)
    BY <2>1, TargetIsOwn
  <2>5. Dir(r) \in Held(r) /\ WorkingRoot(r) \in Held(r)
    BY <2>1 DEF Held, Results, Scratch
  <2>6. \A q \in Run \ {r} : Held(q) \subseteq dirs'
    BY <2>1, <2>4, <2>5, <1>3
  <2>7. Held(r)' \subseteq {Dir(r)}
    BY <2>1, <1>1, NamesStay DEF Held, Results, Scratch, IInv, Checked
  <2>8. ~Within(Dir(r), Target(r))
    BY <2>4, <2>5 DEF Separate
  <2>9. Dir(r) \in dirs' /\ Dir(r) \in Held(r)
    BY <2>1, <2>5, <2>8, <1>3
  <2>10. Within(TempDir(r), Target(r))
    BY <2>2 DEF Within, Named, Target
  <2>11. \A f \in files' : f.by = r => Placed(f)'
    <3> SUFFICES ASSUME NEW f \in files', f.by = r PROVE Placed(f)'
      OBVIOUS
    <3>1. Placed(f) /\ f.dir # TempDir(r)
      BY <2>1, <2>10 DEF IInv, FilesPlaced
    <3>2. f.dir = Dir(r)
      BY <3>1 DEF Placed
    <3> QED BY <2>1, <3>2, <1>1, NamesStay DEF Placed
  <2> QED BY <2>1, <2>6, <2>7, <2>9, <2>11, <1>0, StepKeepsApart
<1>16. CASE Fail(r) \/ Crash(r)
  <2>1. /\ attempt' = attempt /\ dirs' = dirs /\ files' = files /\ pc[r] # "idle" /\ pc' = pc
        /\ up[r] = "alive" /\ up'[r] \in {"error", "crashed"}
    BY <1>16, <1>t DEF Fail, Crash, End
  <2>2. Held(r)' = Held(r) /\ Scratch(r)' = Scratch(r)
    BY <2>1, <1>1, NamesStay DEF Held, Results, Scratch
  <2>3. \A f \in files : f.by = r => Placed(f)'
    BY <2>1, <2>2, <1>1, NamesStay DEF IInv, FilesPlaced, Placed
  <2> QED BY <2>1, <2>2, <2>3, <1>9
<1> QED BY <1>4, <1>5, <1>6, <1>7, <1>8, <1>10, <1>11, <1>12, <1>13, <1>14, <1>15, <1>16
     DEF NewStep, RunStep

----------------------------------------------------------------------------
\* Every step keeps the invariant: one run's action, or none.
LEMMA NextKeeps == ASSUME NoneInPlace, IInv, [Next]_vars PROVE IInv'
<1>1. CASE UNCHANGED vars
  <2>1. dirs' = dirs /\ files' = files /\ pc' = pc /\ up' = up /\ opt' = opt /\ stamp' = stamp
        /\ attempt' = attempt
    BY <1>1 DEF vars
  <2>2. \A q \in Run : Held(q)' = Held(q) /\ Scratch(q)' = Scratch(q)
    BY <2>1, NamesStay DEF Held, Results, Scratch
  <2>3. TypeOK' /\ Checked' /\ HeldThere' /\ HeldApart'
    BY <2>1, <2>2 DEF IInv, TypeOK, Checked, HeldThere, HeldApart
  <2>4. \A f \in files : f.by \in Run
    BY DEF IInv, TypeOK, File
  <2>5. FilesPlaced'
    BY <2>1, <2>2, <2>4, NamesStay DEF IInv, FilesPlaced, Placed
  <2> QED BY <2>3, <2>5 DEF IInv
<1>2. CASE Next
  BY <1>2, RunKeepsApart DEF Next
<1> QED BY <1>1, <1>2

\* The variables keep their types under every command line, in place or not.
THEOREM TypesHold == Spec => []TypeOK
<1> DEFINE J == TypeOK /\ IdChecked
<1>1. Init => J
  BY InitIsTyped DEF Init, IdChecked
<1>2. J /\ [Next]_vars => J'
  <2> SUFFICES ASSUME J, [Next]_vars PROVE J'
    OBVIOUS
  <2>1. CASE UNCHANGED vars
    BY <2>1 DEF vars, TypeOK, IdChecked
  <2>2. CASE Next
    BY <2>2, StepKeepsTypes DEF Next
  <2> QED BY <2>1, <2>2
<1>3. J => TypeOK
  OBVIOUS
<1> HIDE DEF J
<1> QED BY <1>1, <1>2, <1>3, PTL DEF Spec

\* The command lines are constants.
LEMMA ConstantAlways == NoneInPlace => []NoneInPlace
<1>1. NoneInPlace => NoneInPlace'
  BY DEF NoneInPlace
<1> QED BY <1>1, PTL

\* Whatever the processes do and whenever they die, what runs hold is there and is held by one.
THEOREM Inductive == NoneInPlace => (Spec => []IInv)
<1> DEFINE J == NoneInPlace /\ IInv
<1>1. J /\ [Next]_vars => J'
  BY NextKeeps DEF NoneInPlace
<1>2. NoneInPlace /\ Init => J
  BY InitHolds
<1>3. J => IInv
  OBVIOUS
<1> HIDE DEF J
<1> QED BY <1>1, <1>2, <1>3, PTL DEF Spec

\* No two runs hold one directory, and what a run holds is there
\* (workspace.go:40-42, 136-137).
THEOREM RunsHoldApart == NoneInPlace => (Spec => []Exclusive)
<1>1. IInv => Exclusive
  BY DEF IInv, HeldThere, HeldApart, Held, Exclusive
<1> QED BY <1>1, Inductive, PTL

\* No directory ever holds files of two runs: a second run never writes into the
\* first one's results (workspace.go:40-42, 61-64).
THEOREM OneAuthor == NoneInPlace => (Spec => []SingleAuthor)
<1>1. ASSUME NoneInPlace, IInv PROVE SingleAuthor
  <2> SUFFICES ASSUME NEW f \in files, NEW g \in files, f.dir = g.dir, f.by # g.by PROVE FALSE
    BY DEF SingleAuthor
  <2>1. f.by \in Run /\ g.by \in Run /\ Placed(f) /\ Placed(g)
    BY <1>1 DEF IInv, TypeOK, File, FilesPlaced
  <2>2. Dir(f.by) \in Held(f.by) /\ Dir(g.by) \in Held(g.by)
    BY <2>1 DEF Placed, Held, Results
  <2>3. Held(f.by) \cap Held(g.by) = {}
    BY <2>1, <1>1 DEF IInv, HeldApart
  <2>4. \A q \in {f.by, g.by} :
           /\ Dir(q) = Named(opt[q].out, RunID(q))
           /\ WorkingRoot(q) = Named(ScratchRoot(q), RunID(q))
           /\ TempDir(q) = [root |-> ScratchRoot(q), id |-> RunID(q), sub |-> TRUE]
    BY <2>1, <1>1, PathsOfARun DEF IInv, Placed
  <2>5. CASE f.dir = Dir(f.by)
    BY <2>1, <2>2, <2>3, <2>4, <2>5 DEF Placed, Named
  <2>6. CASE f.dir = TempDir(f.by) /\ WorkingRoot(f.by) \in Scratch(f.by)
    <3>1. g.dir = TempDir(g.by) /\ WorkingRoot(g.by) \in Scratch(g.by)
      BY <2>1, <2>4, <2>6 DEF Placed, Named
    <3>2. WorkingRoot(f.by) = WorkingRoot(g.by)
      <4>1. TempDir(f.by).root = TempDir(g.by).root /\ TempDir(f.by).id = TempDir(g.by).id
        BY <2>6, <3>1
      <4>2. ScratchRoot(f.by) = ScratchRoot(g.by) /\ RunID(f.by) = RunID(g.by)
        BY <2>4, <4>1
      <4> QED BY <2>4, <4>2
    <3> QED BY <2>3, <2>6, <3>1, <3>2 DEF Held
  <2> QED BY <2>1, <2>5, <2>6 DEF Placed
<1>2. NoneInPlace /\ IInv => SingleAuthor
  BY <1>1
<1> QED BY <1>2, Inductive, ConstantAlways, PTL

----------------------------------------------------------------------------
\* Results lie in the directory their run claimed, and nowhere else.
ResultsPlaced == \A f \in files : f.kind # "recovered" => f.dir = Dir(f.by)

\* No action puts a result elsewhere.
LEMMA StepKeepsResultsPlaced ==
    ASSUME IInv, NoneInPlace, ResultsPlaced, NEW r \in Run,
           NewStep(r) \/ RunStep(r) \/ Fail(r) \/ Crash(r)
    PROVE  ResultsPlaced'
<1>1. \A f \in files : Dir(f.by)' = Dir(f.by)
  <2> SUFFICES ASSUME NEW f \in files PROVE Dir(f.by)' = Dir(f.by)
    OBVIOUS
  <2>1. f.by \in Run /\ pc[f.by] \in {"read", "recovered", "discard", "end"}
    BY DEF IInv, TypeOK, File, FilesPlaced, Placed
  <2>2. OthersRest(r)
    BY StepsLeaveOthers DEF IInv
  <2>3. attempt'[f.by] = attempt[f.by]
    <3>1. CASE f.by # r
      BY <2>1, <2>2, <3>1 DEF OthersRest
    <3>2. CASE f.by = r
      BY <2>1, <3>2 DEF NewStep, RunStep, Begin, MakeRoots, ClaimDir, ClaimWork, GiveBack,
         ClaimRoot, ReadRoot, ClaimInPlaceWork, MakeTemp, OpenCase, Recover, Cleanup,
         WriteManifest, DiscardScratch, Fail, Crash, At
    <3> QED BY <3>1, <3>2
  <2> QED BY <2>2, <2>3 DEF OthersRest, Dir, RunID
<1>2. \A f \in files' \ files : f.kind = "recovered" \/ (f.by = r /\ f.dir = Dir(r) /\ attempt' = attempt)
  BY DEF NewStep, RunStep, Begin, MakeRoots, ClaimDir, ClaimWork, GiveBack,
     ClaimRoot, ReadRoot, ClaimInPlaceWork, MakeTemp, OpenCase, Recover, Cleanup,
     WriteManifest, DiscardScratch, Fail, Crash, Write
<1>3. opt' = opt /\ stamp' = stamp
  BY StepsLeaveOthers DEF IInv, OthersRest
<1> QED BY <1>1, <1>2, <1>3, NamesStay DEF ResultsPlaced

\* No step takes a result away: a discarded target covers no directory that holds
\* one.
LEMMA StepKeepsResults ==
    ASSUME IInv, NoneInPlace, ResultsPlaced, NEW r \in Run,
           NewStep(r) \/ RunStep(r) \/ Fail(r) \/ Crash(r),
           NEW f \in files, f.kind # "recovered"
    PROVE  f \in files'
<1>1. CASE DiscardScratch(r)
  <2>1. pc[r] = "discard" /\ files' = {g \in files : ~Within(g.dir, Target(r))}
    BY <1>1 DEF DiscardScratch, At, Target
  <2>2. f.by \in Run /\ f.dir = Dir(f.by) /\ f.dir \in Held(f.by)
    BY DEF IInv, TypeOK, File, FilesPlaced, Placed, ResultsPlaced, Held, Results
  <2>3. SUFFICES ASSUME Within(f.dir, Target(r)) PROVE FALSE
    BY <2>1
  <2>4. Separate(r) /\ f.dir = WorkingRoot(r)
    BY <2>1, <2>2, <2>3, TargetIsOwn
  <2>5. WorkingRoot(r) \in Held(r)
    BY <2>1 DEF Held, Scratch
  <2>6. f.by = r
    BY <2>2, <2>4, <2>5 DEF IInv, HeldApart
  <2> QED BY <2>2, <2>4, <2>6 DEF Separate
<1>2. CASE Cleanup(r)
  BY <1>2 DEF Cleanup
<1>3. CASE NewStep(r) \/ OpenCase(r) \/ Recover(r) \/ WriteManifest(r) \/ Fail(r) \/ Crash(r)
  BY <1>3 DEF NewStep, Begin, MakeRoots, ClaimDir, ClaimWork, GiveBack, ClaimRoot, ReadRoot,
     ClaimInPlaceWork, MakeTemp, OpenCase, Recover, WriteManifest, Fail, Crash, Write
<1> QED BY <1>1, <1>2, <1>3 DEF RunStep

\* What a run has written as a result stays: no hand-back and no discarded
\* scratch, its own or another's, ever takes it (workspace.go:378-405).
THEOREM ResultsLast == NoneInPlace => (Spec => ResultsSurvive)
<1> DEFINE Kept == \A f \in files : f.kind # "recovered" => f \in files'
           J == NoneInPlace /\ IInv /\ ResultsPlaced
<1>1. NoneInPlace /\ Init => J
  BY InitHolds DEF Init, ResultsPlaced
<1>2. ASSUME J, [Next]_vars PROVE J' /\ [Kept]_vars
  <2>1. IInv' /\ NoneInPlace'
    BY <1>2, NextKeeps DEF NoneInPlace
  <2>2. CASE UNCHANGED vars
    <3>1. files' = files /\ opt' = opt /\ stamp' = stamp /\ attempt' = attempt
      BY <2>2 DEF vars
    <3>2. \A f \in files : f.by \in Run
      BY <1>2 DEF IInv, TypeOK, File
    <3>3. ResultsPlaced'
      BY <1>2, <3>1, <3>2, NamesStay DEF ResultsPlaced
    <3> QED BY <2>1, <2>2, <3>3
  <2>3. CASE Next
    <3>1. PICK r \in Run : NewStep(r) \/ RunStep(r) \/ Fail(r) \/ Crash(r)
      BY <2>3 DEF Next
    <3>2. ResultsPlaced'
      BY <1>2, <3>1, StepKeepsResultsPlaced
    <3>3. Kept
      BY <1>2, <3>1, StepKeepsResults
    <3> QED BY <2>1, <3>2, <3>3
  <2> QED BY <1>2, <2>2, <2>3
<1>3. J /\ [Next]_vars => J' /\ [Kept]_vars
  BY <1>2
<1> HIDE DEF J
<1> QED BY <1>1, <1>3, PTL DEF Spec, ResultsSurvive

----------------------------------------------------------------------------
(***************************************************************************)
(* What is left behind.                                                    *)
(***************************************************************************)

\* A directory is r's own: claimed and not handed back, or the scratch inside one.
Owns(r, p) ==
    /\ up[r] # "refused"
    /\ \/ p \in Held(r)
       \/ /\ p = TempDir(r) /\ WorkingRoot(r) \in Scratch(r)
          /\ pc[r] \in {"open", "read", "recovered", "discard", "end"}

\* No directory under a root is anybody's leftover.
Owned == \A p \in dirs : p.id # NoId => \E r \in Run : Owns(r, p)

\* What others own they go on owning.
LEMMA OthersOwn ==
    ASSUME NEW r \in Run, OthersRest(r), NEW q \in Run, q # r, NEW p, Owns(q, p)
    PROVE  Owns(q, p)'
<1>1. pc'[q] = pc[q] /\ up'[q] = up[q] /\ attempt'[q] = attempt[q]
      /\ opt'[q] = opt[q] /\ stamp'[q] = stamp[q]
  BY DEF OthersRest
<1>2. Dir(q)' = Dir(q)
  BY <1>1 DEF Dir, RunID
<1>3. WorkingRoot(q)' = WorkingRoot(q)
  BY <1>1, <1>2 DEF WorkingRoot, RunID
<1>4. TempDir(q)' = TempDir(q)
  BY <1>3 DEF TempDir
<1>5. Results(q)' = Results(q) /\ Scratch(q)' = Scratch(q)
  BY <1>1, <1>2, <1>3 DEF Results, Scratch
<1> QED BY <1>1, <1>3, <1>4, <1>5 DEF Owns, Held

\* What a step of r has to show: what it makes under a root it owns, and what it owned and
\* did not remove it still does.
LEMMA StepKeepsOwn ==
    ASSUME Owned, NEW r \in Run, OthersRest(r),
           \A p \in dirs' \ dirs : p.id = NoId \/ Owns(r, p)',
           \A p \in dirs \cap dirs' : Owns(r, p) => Owns(r, p)'
    PROVE  Owned'
<1> SUFFICES ASSUME NEW p \in dirs', p.id # NoId PROVE \E q \in Run : Owns(q, p)'
  BY DEF Owned
<1>1. CASE p \notin dirs
  BY <1>1
<1>2. CASE p \in dirs
  <2>1. PICK q \in Run : Owns(q, p)
    BY <1>2 DEF Owned
  <2>2. CASE q = r
    BY <1>2, <2>1, <2>2
  <2>3. CASE q # r
    BY <2>1, <2>3, OthersOwn
  <2> QED BY <2>2, <2>3
<1> QED BY <1>1, <1>2

\* The directory that is handed back is empty: whatever lay in it would be another run's, and
\* that run would hold it (workspace.go:163-177).
LEMMA HandedBackEmpty ==
    ASSUME IInv, NoneInPlace, Owned, NEW r \in Run, pc[r] = "giveBack", up[r] = "alive"
    PROVE  ~Occupied(Dir(r))
<1>1. /\ Dir(r) = Named(opt[r].out, RunID(r)) /\ RunID(r) # NoId /\ Dir(r) \in Held(r)
      /\ Scratch(r) = {} /\ Results(r) = {Dir(r)}
  BY PathsOfARun DEF IInv, Held, Results, Scratch
<1>2. ASSUME NEW q \in Run, pc[q] # "idle"
      PROVE  /\ Dir(q) = Named(opt[q].out, RunID(q))
             /\ WorkingRoot(q) = Named(ScratchRoot(q), RunID(q))
             /\ TempDir(q) = [root |-> ScratchRoot(q), id |-> RunID(q), sub |-> TRUE]
  BY <1>2, PathsOfARun DEF IInv
<1>3. ASSUME NEW p \in dirs, p # Dir(r), Within(p, Dir(r)) PROVE FALSE
  <2>1. /\ p.root = opt[r].out /\ p.id = RunID(r) /\ p.id # NoId
    BY <1>1, <1>3 DEF Within, Named
  <2>2. PICK q \in Run : Owns(q, p)
    BY <1>3, <2>1 DEF Owned
  <2>3. pc[q] # "idle"
    BY <2>2 DEF Owns, Held, Results, Scratch
  <2>4. CASE p \in Held(q)
    <3>1. p = Dir(q) \/ p = WorkingRoot(q)
      BY <2>4 DEF Held, Results, Scratch
    <3>2. p = Named(p.root, p.id)
      BY <1>2, <2>3, <3>1 DEF Named
    <3> QED BY <1>1, <1>3, <2>1, <3>2
  <2>5. CASE p = TempDir(q) /\ WorkingRoot(q) \in Scratch(q)
    <3>1. q # r
      BY <1>1, <2>5
    <3>2. WorkingRoot(q) = Dir(r)
      BY <1>1, <1>2, <2>1, <2>3, <2>5
    <3> QED BY <1>1, <2>5, <3>1, <3>2 DEF IInv, HeldApart, Held
  <2> QED BY <2>2, <2>4, <2>5 DEF Owns
<1>4. ASSUME NEW f \in files, f.dir = Dir(r) PROVE FALSE
  <2>1. f.by \in Run /\ Placed(f) /\ f.by # r /\ pc[f.by] # "idle"
    BY <1>4 DEF IInv, TypeOK, File, FilesPlaced, Placed
  <2>2. Dir(f.by) \in Held(f.by)
    BY <2>1 DEF Placed, Held, Results
  <2>3. CASE f.dir = Dir(f.by)
    BY <1>1, <1>4, <2>1, <2>2, <2>3 DEF IInv, HeldApart
  <2>4. CASE f.dir = TempDir(f.by)
    BY <1>1, <1>2, <1>4, <2>1, <2>4 DEF Named
  <2> QED BY <2>1, <2>3, <2>4 DEF Placed
<1> QED BY <1>3, <1>4 DEF Occupied

\* Every action leaves each directory to a run that has it or still may give it back.
LEMMA StepKeepsOwned ==
    ASSUME IInv, NoneInPlace, Owned, NEW r \in Run,
           NewStep(r) \/ RunStep(r) \/ Fail(r) \/ Crash(r)
    PROVE  Owned'
<1>0. OthersRest(r) /\ opt' = opt /\ stamp' = stamp
  BY StepsLeaveOthers DEF IInv, OthersRest
<1>t. pc \in [Run -> {"idle", "makeRoots", "claimDir", "claimWork", "giveBack", "claimRoot",
                      "readRoot", "claimInPlaceWork", "makeTemp", "open", "read",
                      "recovered", "discard", "end"}]
      /\ up \in [Run -> {"alive", "done", "refused", "error", "crashed"}]
  BY DEF IInv, TypeOK
<1>1. CASE Begin(r) \/ MakeRoots(r)
  <2>1. /\ \A p \in dirs' \ dirs : p.id = NoId
        /\ pc[r] \in {"idle", "makeRoots"}
    BY <1>1 DEF Begin, MakeRoots, At, RootPath
  <2>2. \A p : ~Owns(r, p)
    BY <2>1 DEF Owns, Held, Results, Scratch
  <2> QED BY <1>0, <2>1, <2>2, StepKeepsOwn
<1>2. CASE ClaimDir(r)
  <2>1. \A p : ~Owns(r, p)
    BY <1>2 DEF ClaimDir, At, Owns, Held, Results, Scratch
  <2>2. CASE Dir(r) \in dirs
    BY <1>0, <1>2, <2>1, <2>2, StepKeepsOwn DEF ClaimDir
  <2>3. CASE Dir(r) \notin dirs
    <3>1. /\ dirs' = dirs \union {Dir(r)} /\ attempt' = attempt
          /\ pc'[r] \in {"claimWork", "makeTemp"} /\ up'[r] = "alive"
      BY <1>2, <1>t, <2>3 DEF ClaimDir, At, Goto
    <3>2. Owns(r, Dir(r))'
      BY <1>0, <3>1, NamesStay DEF Owns, Held, Results
    <3> QED BY <1>0, <2>1, <3>1, <3>2, NamesStay, StepKeepsOwn
  <2> QED BY <2>2, <2>3
<1>3. CASE ClaimWork(r)
  <2>1. /\ attempt' = attempt /\ up' = up /\ up[r] = "alive" /\ pc[r] = "claimWork"
        /\ \/ dirs' = dirs /\ pc'[r] = "giveBack"
           \/ dirs' = dirs \union {WorkingRoot(r)} /\ pc'[r] = "makeTemp"
    BY <1>3, <1>t DEF ClaimWork, At, Goto
  <2>2. \A p : Owns(r, p) => p = Dir(r)
    BY <2>1 DEF Owns, Held, Results, Scratch
  <2>3. Owns(r, Dir(r))' /\ (dirs' # dirs => Owns(r, WorkingRoot(r))')
    BY <1>0, <2>1, NamesStay DEF Owns, Held, Results, Scratch
  <2>4. Dir(r)' = Dir(r) /\ WorkingRoot(r)' = WorkingRoot(r)
    BY <1>0, <2>1, NamesStay
  <2>5. \A p : (p = Dir(r) => Owns(r, p)') /\ (p = WorkingRoot(r) /\ dirs' # dirs => Owns(r, p)')
    BY <1>0, <2>1, <2>4 DEF Owns, Held, Results, Scratch
  <2> QED BY <1>0, <2>1, <2>2, <2>5, StepKeepsOwn
<1>4. CASE GiveBack(r)
  <2>1. pc[r] = "giveBack" /\ up[r] = "alive"
    BY <1>4 DEF GiveBack, At
  <2>2. dirs' = dirs \ {Dir(r)}
    BY <1>4, <2>1, HandedBackEmpty DEF GiveBack
  <2>3. \A p : Owns(r, p) => p = Dir(r)
    BY <2>1 DEF Owns, Held, Results, Scratch
  <2> QED BY <1>0, <2>2, <2>3, StepKeepsOwn
<1>5. CASE ClaimRoot(r) \/ ReadRoot(r) \/ ClaimInPlaceWork(r)
  BY <1>5 DEF ClaimRoot, ReadRoot, ClaimInPlaceWork, At, IInv, Checked
<1>6. CASE MakeTemp(r)
  <2>1. /\ attempt' = attempt /\ up'[r] = "alive" /\ pc[r] = "makeTemp" /\ pc'[r] = "open"
        /\ dirs' = dirs \union WithParents(TempDir(r))
    BY <1>6, <1>t DEF MakeTemp, At, Goto
  <2>2. /\ WorkingRoot(r) = Named(TempDir(r).root, TempDir(r).id)
    BY <2>1, PathsOfARun DEF IInv, Named
  <2>3. /\ Dir(r)' = Dir(r) /\ WorkingRoot(r)' = WorkingRoot(r) /\ TempDir(r)' = TempDir(r)
    BY <1>0, <2>1, NamesStay
  <2>4. \A p \in {Dir(r), WorkingRoot(r), TempDir(r)} : Owns(r, p)'
    BY <2>1, <2>3 DEF Owns, Held, Results, Scratch
  <2>5. \A p : Owns(r, p) => p \in {Dir(r), WorkingRoot(r)}
    BY <2>1 DEF Owns, Held, Results, Scratch
  <2> QED BY <1>0, <2>1, <2>2, <2>4, <2>5, StepKeepsOwn DEF WithParents, RootPath
<1>7. CASE OpenCase(r) \/ Recover(r) \/ Cleanup(r) \/ WriteManifest(r) \/ Fail(r) \/ Crash(r)
  <2>1. /\ attempt' = attempt /\ dirs' \in {dirs, dirs \union {Dir(r)}}
        /\ up[r] = "alive" /\ up'[r] # "refused"
        /\ \/ pc'[r] = pc[r] /\ dirs' = dirs
           \/ /\ pc[r] \in {"open", "read", "recovered"} /\ pc'[r] \in {"read", "recovered", "discard", "end"}
              /\ pc'[r] = "end" => opt[r].keep
    BY <1>7, <1>t DEF OpenCase, Recover, Cleanup, WriteManifest, Fail, Crash, At, Goto, End
  <2>2. /\ Dir(r)' = Dir(r) /\ WorkingRoot(r)' = WorkingRoot(r) /\ TempDir(r)' = TempDir(r)
    BY <1>0, <2>1, NamesStay
  <2>3. \A p \in dirs' \ dirs : Owns(r, p)'
    BY <2>1, <2>2 DEF Owns, Held, Results
  <2>4. \A p : Owns(r, p) => Owns(r, p)'
    <3>1. CASE pc'[r] = pc[r]
      BY <1>0, <2>1, <2>2, <3>1 DEF Owns, Held, Results, Scratch
    <3>2. CASE pc'[r] # pc[r]
      BY <1>0, <2>1, <2>2, <3>2 DEF Owns, Held, Results, Scratch
    <3> QED BY <3>1, <3>2
  <2> QED BY <1>0, <2>3, <2>4, StepKeepsOwn
<1>8. CASE DiscardScratch(r)
  <2>1. /\ attempt' = attempt /\ pc[r] = "discard" /\ pc'[r] = "end" /\ up'[r] = "done"
        /\ dirs' = {p \in dirs : ~Within(p, Target(r))}
    BY <1>8, <1>t DEF DiscardScratch, At, Target
  <2>2. /\ WorkingRoot(r) = Named(ScratchRoot(r), RunID(r))
        /\ TempDir(r) = [root |-> ScratchRoot(r), id |-> RunID(r), sub |-> TRUE]
    BY <2>1, PathsOfARun DEF IInv
  <2>3. TempDir(r) \notin dirs' /\ (Separate(r) => WorkingRoot(r) \notin dirs')
    BY <2>1, <2>2 DEF Target, Within, Named
  <2>4. \A p \in dirs \cap dirs' : Owns(r, p) => p = Dir(r)
    BY <2>1, <2>3 DEF Owns, Held, Results, Scratch, Separate
  <2>5. \A p : p = Dir(r) => Owns(r, p)'
    BY <1>0, <2>1, NamesStay DEF Owns, Held, Results
  <2> QED BY <1>0, <2>1, <2>4, <2>5, StepKeepsOwn
<1> QED BY <1>1, <1>2, <1>3, <1>4, <1>5, <1>6, <1>7, <1>8 DEF NewStep, RunStep

\* However the claims, the hand-backs and the deaths of the runs fall, a directory under a
\* root belongs to a run that was not refused: a name refused leaves no shell behind
\* (workspace.go:169-172).
THEOREM NothingLeftBehind == NoneInPlace => (Spec => []NoShells)
<1> DEFINE J == NoneInPlace /\ IInv /\ Owned
<1>1. NoneInPlace /\ Init => J
  BY InitHolds DEF Init, Owned, RootPath
<1>2. ASSUME J, [Next]_vars PROVE J'
  <2>1. IInv' /\ NoneInPlace'
    BY <1>2, NextKeeps DEF NoneInPlace
  <2>2. CASE UNCHANGED vars
    <3>1. dirs' = dirs /\ pc' = pc /\ up' = up /\ opt' = opt /\ stamp' = stamp /\ attempt' = attempt
      BY <2>2 DEF vars
    <3>2. \A p : \A r \in Run : Owns(r, p) => Owns(r, p)'
      BY <3>1, NamesStay DEF Owns, Held, Results, Scratch
    <3>3. Owned'
      BY <1>2, <3>1, <3>2 DEF Owned
    <3> QED BY <2>1, <3>3
  <2>3. CASE Next
    BY <1>2, <2>1, <2>3, StepKeepsOwned DEF Next
  <2> QED BY <1>2, <2>2, <2>3
<1>3. J => NoShells
  <2>1. \A p : \A r \in Run : Owns(r, p) => \/ p \in Results(r) \union Scratch(r)
                                        \/ (p = TempDir(r) /\ pc[r] \in {"open", "read", "recovered", "discard", "end"})
    BY DEF Owns, Held
  <2>2. \A p : \A r \in Run : Owns(r, p) => up[r] # "refused"
    BY DEF Owns
  <2> QED BY <2>1, <2>2 DEF Owned, NoShells
<1>4. J /\ [Next]_vars => J'
  BY <1>2
<1> HIDE DEF J
<1> QED BY <1>1, <1>3, <1>4, PTL DEF Spec
=============================================================================
