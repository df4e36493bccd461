------------------------------- MODULE Console -------------------------------
(***************************************************************************)
(* What a run says and where: the one progress line on the terminal, which  *)
(* the caller, the event log workers and each phase's ticker redraw and     *)
(* every message erases (internal/progress), and the standard output, which *)
(* carries the manifest path alone although the hive recovery prints to it  *)
(* (recoverQuietly in internal/registry/devnodes.go).                       *)
(*                                                                          *)
(* One text on a row of the terminal is a step.  The reporter's mutex is    *)
(* held from the first step of an operation to its last.                    *)
(***************************************************************************)
EXTENDS Integers, FiniteSets

CONSTANTS Phases,     \* how many phases the run has
          PoolPhase,  \* the one that reads with a pool of workers
          HivePhase,  \* the one that recovers hives
          Workers,    \* that pool
          PipeSize,   \* what a pipe holds before a write to it blocks
          MaxPrints,  \* bound on what one recovery prints
          MaxSteps    \* bound on what the caller says and does in a phase

ASSUME ConsoleAssumption ==
  /\ Phases \in Nat \ {0} /\ PoolPhase \in 1..Phases /\ HivePhase \in 1..Phases
  /\ PipeSize \in Nat \ {0} /\ MaxPrints \in Nat /\ MaxSteps \in Nat

Phase == 1..Phases
\* The goroutines that draw, as numbers; a ticker's is that of its phase.
Caller == 0
Drawers == {Caller} \cup Workers \cup Phase
None == 0
Free == -1

ASSUME DrawersAssumption == Workers \subseteq Nat /\ Workers \cap (Phase \cup {Caller}) = {}

VARIABLES quiet, live,     \* what the reporter was made with
          pc,              \* where run() is
          begun, steps,    \* phases begun; what is left of MaxSteps
          worker,          \* each worker: todo, busy, done
          ticker,          \* each phase's: none, waiting, drawing, gone
          stopped,         \* the phases whose stop channel is closed
          at,              \* a draw in hand: none, asked, writing
          mu, phase, drawn, recent,   \* the Reporter; None is no phase
          row,             \* the phase whose line is on the terminal's row
          spoken, overwritten,        \* text was written; over a progress line
          os_stdout, pipe, drainer, toPrint, printed, took, undiverted,
          stdout           \* what has reached the real standard output

options == <<quiet, live>>
flow == <<pc, begun, steps>>
goroutines == <<worker, ticker, stopped, at>>
reporter == <<mu, phase, drawn, recent>>
terminal == <<row, spoken, overwritten>>
recovery == <<os_stdout, pipe, drainer, toPrint, printed, took, undiverted>>
vars == <<options, flow, goroutines, reporter, terminal, recovery, stdout>>

Init ==
  /\ quiet \in BOOLEAN /\ live \in BOOLEAN /\ (live => ~quiet)
  /\ pc = "between" /\ begun = 0 /\ steps = MaxSteps
  /\ worker = [w \in Workers |-> "done"]
  /\ ticker = [p \in Phase |-> "none"] /\ stopped = {}
  /\ at = [d \in Drawers |-> "none"]
  /\ mu = Free /\ phase = None /\ drawn = FALSE /\ recent = FALSE
  /\ row = None /\ spoken = FALSE /\ overwritten = FALSE
  /\ os_stdout = "real" /\ pipe = 0 /\ drainer = "none"
  /\ toPrint = 0 /\ printed = 0 /\ took = 0 /\ undiverted = FALSE
  /\ stdout = {}

-----------------------------------------------------------------------------
(* Reporter.draw, by whoever announces something of phase p.                *)

PhaseOf(d) == IF d \in Phase THEN d ELSE begun

Settled(d) ==
  /\ at' = [at EXCEPT ![d] = "none"]
  /\ ticker' = IF d \in Phase THEN [ticker EXCEPT ![d] = "waiting"] ELSE ticker
  /\ worker' = IF d \in Workers THEN [worker EXCEPT ![d] = "done"] ELSE worker

\* Mutant: the phase a ticker draws for is not compared with the reporter's.
MayDrawAny(p) == live /\ ~recent

MayDraw(p) == live /\ phase = p /\ ~recent

\* Mutant: the progress line is written without holding the mutex.
DrawUnlocked(d) ==
  /\ at[d] = "asked" /\ mu = Free
  /\ IF MayDraw(PhaseOf(d))
     THEN at' = [at EXCEPT ![d] = "writing"] /\ UNCHANGED <<mu, ticker, worker>>
     ELSE Settled(d) /\ UNCHANGED mu
  /\ UNCHANGED <<options, flow, stopped, phase, drawn, recent, terminal, recovery, stdout>>

Draw(d) ==
  /\ at[d] = "asked" /\ mu = Free
  /\ IF MayDraw(PhaseOf(d))
     THEN at' = [at EXCEPT ![d] = "writing"] /\ mu' = d /\ UNCHANGED <<ticker, worker>>
     ELSE Settled(d) /\ UNCHANGED mu
  /\ UNCHANGED <<options, flow, stopped, phase, drawn, recent, terminal, recovery, stdout>>

DrawWrite(d) ==
  /\ at[d] = "writing"
  /\ row' = PhaseOf(d) /\ drawn' = TRUE /\ recent' = TRUE /\ mu' = Free
  /\ Settled(d)
  /\ UNCHANGED <<options, flow, stopped, phase, spoken, overwritten, recovery, stdout>>

\* A tenth of a second goes by.
Throttled ==
  /\ recent /\ recent' = FALSE
  /\ UNCHANGED <<options, flow, goroutines, mu, phase, drawn, terminal, recovery, stdout>>

-----------------------------------------------------------------------------
(* The ticker of a live phase.  With its stop channel closed and a tick due, *)
(* the select takes either.                                                 *)

Tick(p) ==
  /\ ticker[p] = "waiting"
  /\ ticker' = [ticker EXCEPT ![p] = "drawing"] /\ at' = [at EXCEPT ![p] = "asked"]
  /\ UNCHANGED <<options, flow, worker, stopped, reporter, terminal, recovery, stdout>>

TickerReturns(p) ==
  /\ ticker[p] = "waiting" /\ p \in stopped
  /\ ticker' = [ticker EXCEPT ![p] = "gone"]
  /\ UNCHANGED <<options, flow, worker, stopped, at, reporter, terminal, recovery, stdout>>

-----------------------------------------------------------------------------
(* Messages: Reporter.Printf, also for what a dependency logs, Phase.Finish  *)
(* and Reporter.Close erase the line, and the first two write.               *)

Saying == [between |-> "sayBetween", within |-> "sayWithin", recovering |-> "sayRecovering"]
Says == {"sayBetween", "sayWithin", "sayRecovering", "finish"}

\* Mutant: that the line is gone is not noted.
EraseForgets == IF drawn THEN row' = None /\ UNCHANGED drawn ELSE UNCHANGED <<row, drawn>>

Erase == IF drawn THEN row' = None /\ drawn' = FALSE ELSE UNCHANGED <<row, drawn>>

\* Mutant: a message is written although the run was asked to be quiet.
PrintfLoud ==
  /\ pc \in DOMAIN Saying /\ at[Caller] = "none" /\ steps > 0
  /\ mu = Free
  /\ mu' = Caller /\ Erase
  /\ pc' = Saying[pc] /\ steps' = steps - 1
  /\ UNCHANGED <<options, begun, goroutines, phase, recent, spoken, overwritten, recovery, stdout>>

Printf ==
  /\ pc \in DOMAIN Saying /\ at[Caller] = "none" /\ steps > 0
  /\ ~quiet /\ mu = Free
  /\ mu' = Caller /\ Erase
  /\ pc' = Saying[pc] /\ steps' = steps - 1
  /\ UNCHANGED <<options, begun, goroutines, phase, recent, spoken, overwritten, recovery, stdout>>

\* Finish stops the ticker, then takes the mutex, erases and lets the phase go.
Finish ==
  /\ pc = "within" /\ at[Caller] = "none"
  /\ stopped' = IF live THEN stopped \cup {begun} ELSE stopped
  /\ pc' = IF quiet THEN "between" ELSE "finishing"
  /\ steps' = MaxSteps
  /\ UNCHANGED <<options, begun, worker, ticker, at, reporter, terminal, recovery, stdout>>

FinishErases ==
  /\ pc = "finishing" /\ mu = Free
  /\ mu' = Caller /\ Erase /\ phase' = None /\ pc' = "finish"
  /\ UNCHANGED <<options, begun, steps, goroutines, recent, spoken, overwritten, recovery, stdout>>

Write ==
  /\ pc \in Says
  /\ spoken' = TRUE /\ overwritten' = (overwritten \/ row # None)
  /\ mu' = Free
  /\ pc' = CASE pc = "sayWithin" -> "within" [] pc = "sayRecovering" -> "recovering"
             [] OTHER -> "between"
  /\ UNCHANGED <<options, begun, steps, goroutines, phase, drawn, recent, row, recovery, stdout>>

-----------------------------------------------------------------------------
(* The caller: phases one after another, and in them announcements, the pool *)
(* and the recoveries.                                                      *)

Begin ==
  /\ pc = "between" /\ begun < Phases /\ mu = Free
  /\ begun' = begun + 1 /\ pc' = "within" /\ steps' = MaxSteps
  /\ phase' = IF quiet THEN None ELSE begun + 1
  /\ ticker' = IF live THEN [ticker EXCEPT ![begun + 1] = "waiting"] ELSE ticker
  /\ worker' = IF begun + 1 = PoolPhase THEN [w \in Workers |-> "todo"] ELSE worker
  /\ UNCHANGED <<options, stopped, at, mu, drawn, recent, terminal, recovery, stdout>>

\* Item, Read, Advance and the like: the counters under the mutex, then draw.
Announce ==
  /\ pc = "within" /\ at[Caller] = "none" /\ steps > 0 /\ ~quiet /\ mu = Free
  /\ at' = [at EXCEPT ![Caller] = "asked"] /\ steps' = steps - 1
  /\ UNCHANGED <<options, pc, begun, worker, ticker, stopped, reporter, terminal, recovery, stdout>>

EnterPool ==
  /\ pc = "within" /\ at[Caller] = "none" /\ begun = PoolPhase
  /\ \E w \in Workers : worker[w] = "todo"
  /\ pc' = "pool"
  /\ UNCHANGED <<options, begun, steps, goroutines, reporter, terminal, recovery, stdout>>

WorkerAnnounces(w) ==
  /\ pc = "pool" /\ worker[w] = "todo" /\ mu = Free
  /\ worker' = [worker EXCEPT ![w] = IF quiet THEN "done" ELSE "busy"]
  /\ at' = IF quiet THEN at ELSE [at EXCEPT ![w] = "asked"]
  /\ UNCHANGED <<options, flow, ticker, stopped, reporter, terminal, recovery, stdout>>

LeavePool ==
  /\ pc = "pool" /\ \A w \in Workers : worker[w] = "done"
  /\ pc' = "within"
  /\ UNCHANGED <<options, begun, steps, goroutines, reporter, terminal, recovery, stdout>>

-----------------------------------------------------------------------------
(* recoverQuietly.  The pipe is drained in the background.                  *)

RecoverHive ==
  /\ pc = "within" /\ begun = HivePhase /\ at[Caller] = "none" /\ steps > 0
  /\ pc' = "recovering" /\ steps' = steps - 1
  /\ toPrint' \in 0..MaxPrints /\ printed' = 0 /\ took' = 0
  /\ \/ os_stdout' = "pipe" /\ drainer' = "copying" /\ UNCHANGED undiverted
     \/ UNCHANGED <<os_stdout, drainer>> /\ undiverted' = TRUE    \* os.Pipe failed
  /\ UNCHANGED <<options, begun, goroutines, reporter, terminal, pipe, stdout>>

\* regparser prints to whatever os.Stdout is now; a full pipe blocks it.
PrintChatter ==
  /\ pc = "recovering" /\ toPrint > 0
  /\ toPrint' = toPrint - 1 /\ printed' = printed + 1
  /\ IF os_stdout = "pipe"
     THEN pipe < PipeSize /\ pipe' = pipe + 1 /\ UNCHANGED stdout
     ELSE stdout' = stdout \cup {"warning"} /\ UNCHANGED pipe
  /\ UNCHANGED <<options, flow, goroutines, reporter, terminal, os_stdout, drainer, took, undiverted>>

\* Mutant: the pipe is read once the recovery has returned.
DrainAfterwards ==
  /\ drainer = "copying" /\ pipe > 0 /\ pc = "restored"
  /\ pipe' = pipe - 1 /\ took' = took + 1
  /\ UNCHANGED <<options, flow, goroutines, reporter, terminal, os_stdout, drainer, toPrint,
                 printed, undiverted, stdout>>

Drain ==
  /\ drainer = "copying" /\ pipe > 0
  /\ pipe' = pipe - 1 /\ took' = took + 1
  /\ UNCHANGED <<options, flow, goroutines, reporter, terminal, os_stdout, drainer, toPrint,
                 printed, undiverted, stdout>>

\* Mutant: the standard output is put back where the recovery succeeded.
RecoveredKeepsPipe ==
  /\ pc = "recovering" /\ toPrint = 0
  /\ os_stdout' \in {os_stdout, "real"}
  /\ pc' = IF os_stdout = "pipe" THEN "restored" ELSE "within"
  /\ UNCHANGED <<options, begun, steps, goroutines, reporter, terminal, pipe, drainer, toPrint,
                 printed, took, undiverted, stdout>>

\* RecoverHive returns, with an error or without: os.Stdout is restored and the
\* pipe's write end closed.
Recovered ==
  /\ pc = "recovering" /\ toPrint = 0
  /\ os_stdout' = "real"
  /\ pc' = IF os_stdout = "pipe" THEN "restored" ELSE "within"
  /\ UNCHANGED <<options, begun, steps, goroutines, reporter, terminal, pipe, drainer, toPrint,
                 printed, took, undiverted, stdout>>

\* Mutant: the drainer hands over what it has when it finds the pipe empty.
DrainedEarly ==
  /\ drainer = "copying" /\ pipe = 0
  /\ drainer' = "sent"
  /\ UNCHANGED <<options, flow, goroutines, reporter, terminal, os_stdout, pipe, toPrint,
                 printed, took, undiverted, stdout>>

\* io.Copy returns at the end of the pipe: empty, and its write end closed.
Drained ==
  /\ drainer = "copying" /\ pipe = 0 /\ pc = "restored"
  /\ drainer' = "sent"
  /\ UNCHANGED <<options, flow, goroutines, reporter, terminal, os_stdout, pipe, toPrint,
                 printed, took, undiverted, stdout>>

\* text := <-captured
Captured ==
  /\ pc = "restored" /\ drainer = "sent"
  /\ drainer' = "none" /\ pc' = "within"
  /\ UNCHANGED <<options, begun, steps, goroutines, reporter, terminal, os_stdout, pipe,
                 toPrint, printed, took, undiverted, stdout>>

-----------------------------------------------------------------------------
(* The end of the run: the manifest path, or an error, and the deferred Close. *)

Fail ==
  /\ pc \in {"between", "within"} /\ at[Caller] = "none" /\ pc' = "failing"
  /\ UNCHANGED <<options, begun, steps, goroutines, reporter, terminal, recovery, stdout>>

\* fmt.Println to whatever os.Stdout is now.
PrintManifest ==
  /\ pc = "between" /\ begun = Phases /\ pc' = "returning"
  /\ IF os_stdout = "real"
     THEN stdout' = stdout \cup {"manifest"} /\ overwritten' = (overwritten \/ row # None)
     ELSE UNCHANGED <<stdout, overwritten>>
  /\ UNCHANGED <<options, begun, steps, goroutines, reporter, row, spoken, recovery>>

Close ==
  /\ pc \in {"returning", "failing"} /\ mu = Free
  /\ Erase
  /\ pc' = IF pc = "returning" THEN "succeeded" ELSE "failed"
  /\ UNCHANGED <<options, begun, steps, goroutines, mu, phase, recent, spoken, overwritten,
                 recovery, stdout>>

Draws(d) == Draw(d) \/ DrawWrite(d)
CallerStep == \/ Printf \/ Finish \/ FinishErases \/ Write \/ Begin \/ Announce
              \/ EnterPool \/ LeavePool \/ RecoverHive \/ PrintChatter \/ Recovered \/ Captured
              \/ Fail \/ PrintManifest \/ Close \/ Draws(Caller)
PoolStep == \E w \in Workers : WorkerAnnounces(w) \/ Draws(w)
TickerStep == \E p \in Phase : Tick(p) \/ TickerReturns(p) \/ Draws(p)
DrainerStep == Drain \/ Drained

Next == CallerStep \/ PoolStep \/ TickerStep \/ DrainerStep \/ Throttled

\* The goroutines the run waits for are scheduled and get the mutex in the end,
\* whatever the tickers do; who holds it lets it go.
Spec == /\ Init /\ [][Next]_vars
        /\ SF_vars(CallerStep) /\ SF_vars(PoolStep) /\ WF_vars(DrainerStep)
        /\ WF_vars(\E p \in Phase : DrawWrite(p))

-----------------------------------------------------------------------------
(* Properties.                                                              *)

\* The reporter knows what is on the terminal whenever nobody holds its mutex.
TypeOK ==
  /\ pc \in {"between", "sayBetween", "within", "sayWithin", "pool", "recovering",
             "sayRecovering", "restored", "finishing", "finish", "returning", "succeeded",
             "failing", "failed"}
  /\ begun \in 0..Phases /\ steps \in 0..MaxSteps
  /\ mu \in Drawers \cup {Free} /\ phase \in 0..Phases /\ row \in 0..Phases
  /\ pipe \in 0..PipeSize /\ took + pipe <= MaxPrints
  /\ mu = Free => (drawn <=> row # None)

\* No message, summary or manifest path is written over a progress line, whoever
\* was drawing when it was asked for.
NothingOverwritten == ~overwritten

\* The line on the terminal is that of the phase at work: a ticker that had a
\* tick in hand when its phase finished does not put the line back.
LineIsCurrent == row # None /\ pc \notin {"failing", "failed"} => row = phase

\* The standard output carries the manifest path and nothing else, of a run that
\* succeeded; only a recovery whose pipe could not be made may print to it.
StdoutIsManifest ==
  /\ ~undiverted => stdout \subseteq {"manifest"}
  /\ pc = "succeeded" => "manifest" \in stdout
  /\ pc = "failed" => "manifest" \notin stdout

\* What recoverQuietly returns is all that the recovery printed.
ChatterWhole == drainer = "sent" => took = printed

\* Under -quiet, nothing but an undiverted recovery and the manifest path is seen.
QuietIsSilent == quiet => ~spoken /\ row = None

\* The run comes to an end: no goroutine waits for the mutex, the pipe or the pool
\* for ever.
RunEnds == <>(pc \in {"succeeded", "failed"})

\* The terminal's one line: nothing is written over it, and it is the current phase's.
TerminalHolds == TypeOK /\ NothingOverwritten /\ LineIsCurrent

\* What is written where: the standard output has the manifest path, the recovery's own
\* output is returned whole, and a quiet run says nothing.
OutputHolds == StdoutIsManifest /\ ChatterWhole /\ QuietIsSilent
=============================================================================
