---------------------------- MODULE ConsoleProofs ----------------------------
(***************************************************************************)
(* For any number of phases, workers and messages, and any pipe: the        *)
(* progress line is never written over and never out of date, and the       *)
(* standard output carries the manifest path, whatever a recovery prints.   *)
(***************************************************************************)
EXTENDS Console, TLAPS

States == {"between", "sayBetween", "within", "sayWithin", "pool", "recovering", "sayRecovering",
           "restored", "finishing", "finish", "returning", "succeeded", "failing", "failed"}
WithinPhase == {"within", "sayWithin", "pool", "recovering", "sayRecovering", "restored", "finishing"}
Between == {"between", "sayBetween", "finish", "returning", "succeeded"}

\* Every goroutine, and the reporter, is somewhere.
Typed ==
  /\ quiet \in BOOLEAN /\ live \in BOOLEAN /\ (live => ~quiet)
  /\ pc \in States /\ begun \in 0..Phases /\ steps \in 0..MaxSteps
  /\ worker \in [Workers -> {"todo", "busy", "done"}]
  /\ ticker \in [Phase -> {"none", "waiting", "drawing", "gone"}]
  /\ at \in [Drawers -> {"none", "asked", "writing"}]
  /\ mu \in Drawers \cup {Free} /\ phase \in 0..Phases /\ row \in 0..Phases
  /\ drawn \in BOOLEAN /\ spoken \in BOOLEAN /\ overwritten \in BOOLEAN /\ undiverted \in BOOLEAN

\* A draw in hand is the caller's within a phase, a busy worker's in the pool, or a ticker's
\* with a tick.
Drawing ==
  /\ at[Caller] # "none" => pc = "within"
  /\ \A w \in Workers : at[w] # "none" => worker[w] = "busy" /\ pc = "pool"
  /\ \A p \in Phase : /\ at[p] # "none" => ticker[p] = "drawing"
                      /\ ticker[p] # "none" => p <= begun

\* Who writes to the terminal holds the mutex, and a line is that of the reporter's phase.
Holding ==
  /\ \A d \in Drawers : at[d] = "writing" => mu = d /\ live /\ phase = PhaseOf(d)
  /\ pc \in Says => mu = Caller

\* Which phase the reporter is in, by where the run is.
PhaseKnown ==
  /\ pc \in WithinPhase => begun > 0 /\ phase = IF quiet THEN None ELSE begun
  /\ pc \in Between => phase = None

\* What the reporter knows of the terminal's row is so, and it is clear while a message is written.
RowKnown ==
  /\ drawn <=> row # None
  /\ row # None => row = phase
  /\ pc \in Says => row = None
  /\ ~overwritten

\* A quiet run has nothing to draw and nothing to say.
Silent == quiet => row = None /\ ~spoken /\ pc \notin Says \cup {"finishing"}

\* Where the standard output goes, and what a recovery's pipe holds, by where the run is.
Diverted ==
  /\ os_stdout \in {"real", "pipe"} /\ drainer \in {"none", "copying", "sent"}
  /\ os_stdout = "pipe" => pc \in {"recovering", "sayRecovering"} /\ drainer = "copying"
  /\ pc \in {"recovering", "sayRecovering"} => os_stdout = "pipe" \/ undiverted
  /\ drainer # "none" => pc \in {"recovering", "sayRecovering", "restored"}
  /\ drainer = "copying" /\ pc # "restored" => os_stdout = "pipe"
  /\ drainer = "sent" => pc = "restored"

\* Nothing a recovery printed is lost on its way through the pipe.
Piped ==
  /\ pipe \in 0..PipeSize /\ took \in Nat /\ printed \in Nat /\ toPrint \in Nat
  /\ printed + toPrint <= MaxPrints /\ took + pipe <= printed
  /\ drainer # "copying" => pipe = 0
  /\ drainer = "copying" => took + pipe = printed
  /\ drainer = "sent" => took = printed

\* What has reached the real standard output.
Outcome ==
  /\ stdout \subseteq {"manifest", "warning"}
  /\ "warning" \in stdout => undiverted
  /\ "manifest" \in stdout <=> pc \in {"returning", "succeeded"}

\* What is on the terminal, and what is on the standard output.
Screen == Holding /\ PhaseKnown /\ RowKnown /\ Silent
Output == Diverted /\ Piped /\ Outcome

IInv == Typed /\ Drawing /\ Screen /\ Output

-----------------------------------------------------------------------------
(* What a step leaves alone.                                                *)

\* The goroutines are told apart, and nobody is free or no phase.
LEMMA Apart ==
    /\ Caller \in Drawers /\ Workers \subseteq Drawers /\ Phase \subseteq Drawers
    /\ Caller \notin Phase /\ Caller \notin Workers /\ Workers \cap Phase = {}
    /\ Free \notin Drawers /\ \A p \in Phase : p \in Nat /\ p > 0 /\ p <= Phases
    /\ Phases \in Nat /\ Phases > 0 /\ PipeSize \in Nat /\ MaxPrints \in Nat /\ MaxSteps \in Nat
BY ConsoleAssumption, DrawersAssumption DEF Drawers, Phase, Caller, Free

Recovering == {"recovering", "sayRecovering"}
Ending == {"returning", "succeeded"}

\* Outside the recoveries, and before its end, the run writes nothing to the standard output.
LEMMA OutputAside ==
    ASSUME Output, UNCHANGED <<recovery, stdout>>, pc' \in Recovering <=> pc \in Recovering,
           pc' = "restored" <=> pc = "restored", pc' \in Ending <=> pc \in Ending
    PROVE  Output'
<1>1. UNCHANGED <<os_stdout, pipe, drainer, toPrint, printed, took, undiverted, stdout>>
  BY DEF recovery
<1> QED BY <1>1 DEF Output, Diverted, Piped, Outcome, Recovering, Ending

\* Where nothing is drawn or said, and nobody new is writing, the terminal is as it was.
LEMMA ScreenAside ==
    ASSUME Screen, UNCHANGED <<quiet, live, pc, begun, mu, phase, drawn, row, spoken, overwritten>>,
           \A d \in Drawers : at'[d] = "writing" => at[d] = "writing"
    PROVE  Screen'
<1>1. Holding'
  BY DEF Screen, Holding, PhaseOf
<1>2. PhaseKnown' /\ RowKnown' /\ Silent'
  BY DEF Screen, PhaseKnown, RowKnown, Silent
<1> QED BY <1>1, <1>2 DEF Screen

\* The caller goes on to something else, with no draw in hand.
LEMMA MovesKeep ==
    ASSUME IInv, Output', undiverted' \in BOOLEAN, steps' \in 0..MaxSteps, pc' \in States,
           UNCHANGED <<quiet, live, begun, worker, ticker, at, mu, phase, drawn, row, spoken, overwritten>>,
           pc' # pc => /\ at[Caller] = "none" /\ \A w \in Workers : at[w] = "none"
                       /\ pc' \in WithinPhase => pc \in WithinPhase
                       /\ pc' \in Between => pc \in Between \/ (pc = "within" /\ quiet)
                       /\ pc' \notin Says /\ (pc' = "finishing" => ~quiet)
    PROVE  IInv'
<1>1. Typed' /\ Drawing'
  BY DEF IInv, Typed, Drawing
<1>2. Holding'
  BY DEF IInv, Screen, Holding, PhaseOf
<1>3. PhaseKnown'
  BY DEF IInv, Screen, PhaseKnown, WithinPhase
<1>4. RowKnown' /\ Silent'
  BY DEF IInv, Screen, RowKnown, Silent
<1> QED BY <1>1, <1>2, <1>3, <1>4 DEF IInv, Screen

-----------------------------------------------------------------------------
(* The goroutines that draw.                                                *)

\* A tenth of a second goes by.
LEMMA ThrottledKeeps == ASSUME IInv, Throttled PROVE IInv'
<1>1. UNCHANGED <<quiet, live, pc, begun, steps, worker, ticker, at, mu, phase, drawn, row, spoken,
                  overwritten, undiverted, recovery, stdout>>
  BY DEF Throttled, options, flow, goroutines, terminal, recovery
<1>2. Output'
  BY <1>1, OutputAside DEF IInv
<1> QED BY <1>1, <1>2, MovesKeep DEF IInv, Typed

\* A ticker has a tick.
LEMMA TickKeeps == ASSUME IInv, NEW p \in Phase, Tick(p) PROVE IInv'
<1>1. /\ ticker[p] = "waiting" /\ ticker' = [ticker EXCEPT ![p] = "drawing"]
      /\ at' = [at EXCEPT ![p] = "asked"]
      /\ UNCHANGED <<quiet, live, pc, begun, steps, worker, mu, phase, drawn, row, spoken,
                     overwritten, undiverted, recovery, stdout>>
  BY DEF Tick, options, flow, reporter, terminal, recovery
<1>2. at \in [Drawers -> {"none", "asked", "writing"}] /\ p \in Drawers
  BY Apart DEF IInv, Typed
<1>3. Typed' /\ Drawing'
  BY <1>1, <1>2, Apart DEF IInv, Typed, Drawing
<1>4. Screen'
  BY <1>1, <1>2, ScreenAside DEF IInv
<1>5. Output'
  BY <1>1, OutputAside DEF IInv
<1> QED BY <1>3, <1>4, <1>5 DEF IInv

\* A ticker finds its stop channel closed.
LEMMA TickerReturnsKeeps == ASSUME IInv, NEW p \in Phase, TickerReturns(p) PROVE IInv'
<1>1. /\ ticker[p] = "waiting" /\ ticker' = [ticker EXCEPT ![p] = "gone"]
      /\ UNCHANGED <<quiet, live, pc, begun, steps, worker, at, mu, phase, drawn, row, spoken,
                     overwritten, undiverted, recovery, stdout>>
  BY DEF TickerReturns, options, flow, reporter, terminal, recovery
<1>2. Typed' /\ Drawing'
  BY <1>1, Apart DEF IInv, Typed, Drawing
<1>3. Screen'
  BY <1>1, ScreenAside DEF IInv
<1>4. Output'
  BY <1>1, OutputAside DEF IInv
<1> QED BY <1>2, <1>3, <1>4 DEF IInv

\* Whoever is done with a draw is as it was before it, and the others are as they are.
LEMMA SettledKeeps ==
    ASSUME Typed, Drawing, NEW d \in Drawers, Settled(d), mu' \in Drawers \cup {Free},
           row' \in 0..Phases, drawn' \in BOOLEAN, at[d] # "none",
           UNCHANGED <<quiet, live, pc, begun, steps, phase, spoken, overwritten, undiverted>>
    PROVE  Typed' /\ Drawing' /\ at' = [at EXCEPT ![d] = "none"]
<1>1. /\ at' = [at EXCEPT ![d] = "none"]
      /\ ticker' = IF d \in Phase THEN [ticker EXCEPT ![d] = "waiting"] ELSE ticker
      /\ worker' = IF d \in Workers THEN [worker EXCEPT ![d] = "done"] ELSE worker
  BY DEF Settled
<1>2. Typed'
  BY <1>1 DEF Typed
<1>3. ASSUME NEW e \in Drawers PROVE at'[e] = IF e = d THEN "none" ELSE at[e]
  BY <1>1 DEF Typed
<1>4. Drawing'
  <2>1. at'[Caller] # "none" => pc' = "within"
    BY <1>3, Apart DEF Drawing
  <2>2. ASSUME NEW w \in Workers, at'[w] # "none" PROVE worker'[w] = "busy" /\ pc' = "pool"
    BY <1>1, <1>3, <2>2, Apart DEF Typed, Drawing
  <2>3. ASSUME NEW p \in Phase
        PROVE  /\ at'[p] # "none" => ticker'[p] = "drawing"
               /\ ticker'[p] # "none" => p <= begun'
    <3>1. CASE d = p
      BY <1>1, <1>3, <3>1, Apart DEF Typed, Drawing
    <3>2. CASE d # p
      BY <1>1, <1>3, <3>2, Apart DEF Typed, Drawing
    <3> QED BY <3>1, <3>2
  <2> QED BY <2>1, <2>2, <2>3 DEF Drawing
<1> QED BY <1>1, <1>2, <1>4

\* draw takes the mutex to write, or finds nothing to draw.
LEMMA DrawKeeps == ASSUME IInv, NEW d \in Drawers, Draw(d) PROVE IInv'
<1>1. /\ at[d] = "asked" /\ mu = Free
      /\ UNCHANGED <<quiet, live, pc, begun, steps, phase, drawn, row, spoken, overwritten,
                     undiverted, recovery, stdout>>
  BY DEF Draw, options, flow, terminal, recovery
<1>2. Output'
  BY <1>1, OutputAside DEF IInv
<1>3. CASE live /\ phase = PhaseOf(d) /\ ~recent
  <2>1. at' = [at EXCEPT ![d] = "writing"] /\ mu' = d /\ UNCHANGED <<ticker, worker>>
    BY <1>3 DEF Draw, MayDraw
  <2>2. \A e \in Drawers : at'[e] = IF e = d THEN "writing" ELSE at[e]
    BY <2>1 DEF IInv, Typed
  <2>3. Typed'
    BY <1>1, <2>1 DEF IInv, Typed
  <2>4. Drawing'
    BY <1>1, <2>1, <2>2, Apart DEF IInv, Drawing
  <2>5. Holding'
    BY <1>1, <1>3, <2>1, <2>2, Apart DEF IInv, Screen, Holding, PhaseOf
  <2>6. PhaseKnown' /\ RowKnown' /\ Silent'
    BY <1>1 DEF IInv, Screen, PhaseKnown, RowKnown, Silent
  <2> QED BY <1>2, <2>3, <2>4, <2>5, <2>6 DEF IInv, Screen
<1>4. CASE ~(live /\ phase = PhaseOf(d) /\ ~recent)
  <2>1. Settled(d) /\ UNCHANGED mu
    BY <1>4 DEF Draw, MayDraw
  <2>2. Typed' /\ Drawing' /\ at' = [at EXCEPT ![d] = "none"]
    BY <1>1, <2>1, SettledKeeps DEF IInv, Typed
  <2>3. Screen'
    BY <1>1, <2>1, <2>2, ScreenAside DEF IInv, Typed
  <2> QED BY <1>2, <2>2, <2>3 DEF IInv
<1> QED BY <1>3, <1>4

\* The line is written, and is its phase's.
LEMMA DrawWriteKeeps == ASSUME IInv, NEW d \in Drawers, DrawWrite(d) PROVE IInv'
<1>1. /\ at[d] = "writing" /\ row' = PhaseOf(d) /\ drawn' = TRUE /\ mu' = Free /\ Settled(d)
      /\ UNCHANGED <<quiet, live, pc, begun, steps, phase, spoken, overwritten, undiverted, recovery, stdout>>
  BY DEF DrawWrite, options, flow, recovery
<1>2. mu = d /\ live /\ phase = PhaseOf(d) /\ phase \in 0..Phases
  BY <1>1 DEF IInv, Typed, Screen, Holding
<1>3. pc \notin Says /\ row' # None
  <2>1. pc \notin Says
    BY <1>1, <1>2, Apart DEF IInv, Screen, Holding, Drawing, Says
  <2>2. PhaseOf(d) # None
    <3>1. CASE d \in Phase
      BY <3>1, Apart DEF PhaseOf, None
    <3>2. CASE d \notin Phase
      <4>1. pc \in WithinPhase
        BY <1>1, <3>2 DEF IInv, Drawing, Drawers, WithinPhase
      <4> QED BY <3>2, <4>1 DEF IInv, Typed, Screen, PhaseKnown, PhaseOf, None
    <3> QED BY <3>1, <3>2
  <2> QED BY <1>1, <2>1, <2>2
<1>4. Typed' /\ Drawing' /\ at' = [at EXCEPT ![d] = "none"]
  BY <1>1, <1>2, SettledKeeps DEF IInv
<1>5. Holding'
  <2>1. \A e \in Drawers : at'[e] # "writing"
    BY <1>2, <1>4 DEF IInv, Typed, Screen, Holding
  <2> QED BY <1>1, <1>3, <2>1 DEF Holding
<1>6. PhaseKnown' /\ RowKnown' /\ Silent'
  BY <1>1, <1>2, <1>3 DEF IInv, Typed, Screen, PhaseKnown, RowKnown, Silent
<1>7. Output'
  BY <1>1, OutputAside DEF IInv
<1> QED BY <1>4, <1>5, <1>6, <1>7 DEF IInv, Screen

\* Something is announced: the caller's, or that of a worker in the pool.
LEMMA AnnounceKeeps == ASSUME IInv, Announce PROVE IInv'
<1>1. /\ pc = "within" /\ at' = [at EXCEPT ![Caller] = "asked"] /\ steps' = steps - 1 /\ steps > 0
      /\ UNCHANGED <<quiet, live, pc, begun, worker, ticker, mu, phase, drawn, row, spoken,
                     overwritten, undiverted, recovery, stdout>>
  BY DEF Announce, options, reporter, terminal, recovery
<1>2. \A e \in Drawers : at'[e] = IF e = Caller THEN "asked" ELSE at[e]
  BY <1>1, Apart DEF IInv, Typed
<1>3. Typed' /\ Drawing'
  BY <1>1, <1>2, Apart DEF IInv, Typed, Drawing
<1>4. Screen'
  BY <1>1, <1>2, ScreenAside DEF IInv
<1>5. Output'
  BY <1>1, OutputAside DEF IInv
<1> QED BY <1>3, <1>4, <1>5 DEF IInv

\* A worker of the pool announces its log, or says nothing of a quiet run.
LEMMA WorkerAnnouncesKeeps == ASSUME IInv, NEW w \in Workers, WorkerAnnounces(w) PROVE IInv'
<1>1. /\ pc = "pool" /\ worker[w] = "todo"
      /\ worker' = [worker EXCEPT ![w] = IF quiet THEN "done" ELSE "busy"]
      /\ at' = IF quiet THEN at ELSE [at EXCEPT ![w] = "asked"]
      /\ UNCHANGED <<quiet, live, pc, begun, steps, ticker, mu, phase, drawn, row, spoken,
                     overwritten, undiverted, recovery, stdout>>
  BY DEF WorkerAnnounces, options, flow, reporter, terminal, recovery
<1>2. \A e \in Drawers : at'[e] = IF e = w /\ ~quiet THEN "asked" ELSE at[e]
  BY <1>1, Apart DEF IInv, Typed
<1>3. Typed'
  BY <1>1, Apart DEF IInv, Typed
<1>4. Drawing'
  BY <1>1, <1>2, Apart DEF IInv, Typed, Drawing
<1>5. Screen'
  BY <1>1, <1>2, ScreenAside DEF IInv
<1>6. Output'
  BY <1>1, OutputAside DEF IInv
<1> QED BY <1>3, <1>4, <1>5, <1>6 DEF IInv

-----------------------------------------------------------------------------
(* Messages.                                                                *)

\* Whoever erases the line leaves the row clear, whether there was a line or not.
LEMMA Erases == ASSUME Typed, RowKnown, Erase PROVE row' = None /\ drawn' = FALSE
BY DEF Typed, RowKnown, Erase

\* Printf takes the mutex, and clears the row for its text.
LEMMA PrintfKeeps == ASSUME IInv, Printf PROVE IInv'
<1>1. /\ pc \in {"between", "within", "recovering"} /\ at[Caller] = "none" /\ steps > 0 /\ ~quiet /\ mu = Free
      /\ mu' = Caller /\ Erase /\ steps' = steps - 1
      /\ pc' = CASE pc = "between" -> "sayBetween" [] pc = "within" -> "sayWithin"
                 [] OTHER -> "sayRecovering"
      /\ UNCHANGED <<quiet, live, begun, worker, ticker, at, phase, spoken, overwritten,
                     undiverted, recovery, stdout>>
  BY DEF Printf, Saying, options, goroutines, recovery
<1>2. row' = None /\ drawn' = FALSE
  BY <1>1, Erases DEF IInv, Screen
<1>3. Typed' /\ Drawing'
  <2>1. Typed'
    <3>1. row' \in 0..Phases /\ phase' \in 0..Phases /\ mu' \in Drawers \cup {Free}
      BY <1>1, <1>2, Apart DEF IInv, Typed, None
    <3>2. steps' \in 0..MaxSteps /\ pc' \in States
      BY <1>1, Apart DEF IInv, Typed, States
    <3>3. drawn' \in BOOLEAN
      BY <1>2
    <3> QED BY <1>1, <3>1, <3>2, <3>3 DEF IInv, Typed
  <2>2. Drawing'
    BY <1>1, Apart DEF IInv, Drawing
  <2> QED BY <2>1, <2>2
<1>4. Holding'
  BY <1>1, Apart DEF IInv, Screen, Holding
<1>5. PhaseKnown' /\ RowKnown' /\ Silent'
  BY <1>1, <1>2 DEF IInv, Screen, PhaseKnown, WithinPhase, Between, RowKnown, Silent
<1>6. Output'
  BY <1>1, OutputAside DEF IInv, Recovering, Ending
<1> QED BY <1>3, <1>4, <1>5, <1>6 DEF IInv, Screen

\* Finish clears it too, and lets the phase go.
LEMMA FinishErasesKeeps == ASSUME IInv, FinishErases PROVE IInv'
<1>1. /\ pc = "finishing" /\ mu = Free /\ mu' = Caller /\ Erase /\ phase' = None /\ pc' = "finish"
      /\ UNCHANGED <<quiet, live, begun, steps, worker, ticker, at, spoken, overwritten,
                     undiverted, recovery, stdout>>
  BY DEF FinishErases, options, goroutines, recovery
<1>2. row' = None /\ drawn' = FALSE
  BY <1>1, Erases DEF IInv, Screen
<1>3. Typed' /\ Drawing'
  <2>1. Typed'
    <3>1. row' \in 0..Phases /\ phase' \in 0..Phases /\ mu' \in Drawers \cup {Free}
      BY <1>1, <1>2, Apart DEF IInv, Typed, None
    <3>2. steps' \in 0..MaxSteps /\ pc' \in States
      BY <1>1, Apart DEF IInv, Typed, States
    <3>3. drawn' \in BOOLEAN
      BY <1>2
    <3> QED BY <1>1, <3>1, <3>2, <3>3 DEF IInv, Typed
  <2>2. Drawing'
    BY <1>1, Apart DEF IInv, Drawing
  <2> QED BY <2>1, <2>2
<1>4. Holding'
  BY <1>1, Apart DEF IInv, Screen, Holding
<1>5. PhaseKnown' /\ RowKnown' /\ Silent'
  BY <1>1, <1>2 DEF IInv, Screen, PhaseKnown, WithinPhase, Between, RowKnown, Silent
<1>6. Output'
  BY <1>1, OutputAside DEF IInv, Recovering, Ending
<1> QED BY <1>3, <1>4, <1>5, <1>6 DEF IInv, Screen

\* The text is written on a clear row, and the mutex let go.
LEMMA WriteKeeps == ASSUME IInv, Write PROVE IInv'
<1>1. /\ pc \in Says /\ spoken' = TRUE /\ overwritten' = (overwritten \/ row # None) /\ mu' = Free
      /\ pc' = CASE pc = "sayWithin" -> "within" [] pc = "sayRecovering" -> "recovering" [] OTHER -> "between"
      /\ UNCHANGED <<quiet, live, begun, steps, worker, ticker, at, phase, drawn, row,
                     undiverted, recovery, stdout>>
  BY DEF Write, options, goroutines, recovery
<1>2. row = None /\ mu = Caller /\ ~overwritten' /\ ~quiet
  BY <1>1 DEF IInv, Screen, RowKnown, Holding, Silent, Typed
<1>3. \A d \in Drawers : at[d] # "writing"
  BY <1>1, <1>2, Apart DEF IInv, Screen, Holding, Drawing, Says
<1>4. Typed' /\ Drawing'
  BY <1>1, <1>2, Apart DEF IInv, Typed, Drawing, States, Says
<1>5. Holding'
  BY <1>1, <1>3 DEF Holding, Says
<1>6. PhaseKnown' /\ RowKnown' /\ Silent'
  BY <1>1, <1>2 DEF IInv, Screen, PhaseKnown, WithinPhase, Between, Says, RowKnown, Silent
<1>7. Output'
  BY <1>1, OutputAside DEF IInv, Recovering, Ending, Says
<1> QED BY <1>4, <1>5, <1>6, <1>7 DEF IInv, Screen

\* Close clears the row for whoever writes next.
LEMMA CloseKeeps == ASSUME IInv, Close PROVE IInv'
<1>1. /\ pc \in {"returning", "failing"} /\ Erase /\ pc' = IF pc = "returning" THEN "succeeded" ELSE "failed"
      /\ UNCHANGED <<quiet, live, begun, steps, worker, ticker, at, mu, phase, spoken, overwritten,
                     undiverted, recovery, stdout>>
  BY DEF Close, options, goroutines, recovery
<1>2. row' = None /\ drawn' = FALSE
  BY <1>1, Erases DEF IInv, Screen
<1>3. Typed' /\ Drawing'
  <2>1. Typed'
    <3>1. row' \in 0..Phases /\ phase' \in 0..Phases /\ mu' \in Drawers \cup {Free}
      BY <1>1, <1>2, Apart DEF IInv, Typed, None
    <3>2. steps' \in 0..MaxSteps /\ pc' \in States
      BY <1>1, Apart DEF IInv, Typed, States
    <3>3. drawn' \in BOOLEAN
      BY <1>2
    <3> QED BY <1>1, <3>1, <3>2, <3>3 DEF IInv, Typed
  <2>2. Drawing'
    BY <1>1, Apart DEF IInv, Drawing
  <2> QED BY <2>1, <2>2
<1>4. Holding'
  BY <1>1 DEF IInv, Screen, Holding, PhaseOf, Says
<1>5. PhaseKnown' /\ RowKnown' /\ Silent'
  BY <1>1, <1>2 DEF IInv, Screen, PhaseKnown, WithinPhase, Between, RowKnown, Silent, Says
<1>6. Output'
  BY <1>1, OutputAside DEF IInv, Recovering, Ending
<1> QED BY <1>3, <1>4, <1>5, <1>6 DEF IInv, Screen

-----------------------------------------------------------------------------
(* The caller.                                                              *)

\* A phase begins with the row clear and the mutex free.
LEMMA BeginKeeps == ASSUME IInv, Begin PROVE IInv'
<1>1. /\ pc = "between" /\ begun < Phases /\ mu = Free /\ begun' = begun + 1 /\ pc' = "within" /\ steps' = MaxSteps
      /\ phase' = IF quiet THEN None ELSE begun + 1
      /\ ticker' = IF live THEN [ticker EXCEPT ![begun + 1] = "waiting"] ELSE ticker
      /\ worker' = IF begun + 1 = PoolPhase THEN [w \in Workers |-> "todo"] ELSE worker
      /\ UNCHANGED <<quiet, live, at, mu, drawn, row, spoken, overwritten, undiverted, recovery, stdout>>
  BY DEF Begin, options, terminal, recovery
<1>2. begun + 1 \in Phase /\ begun \in Nat /\ row = None
  BY <1>1, Apart DEF IInv, Typed, Screen, PhaseKnown, RowKnown, Between, Phase
<1>3. Typed'
  BY <1>1, <1>2, Apart DEF IInv, Typed, States, None, Phase
<1>4. Drawing'
  BY <1>1, <1>2, Apart DEF IInv, Typed, Drawing
<1>5. Holding'
  BY <1>1, Apart DEF IInv, Screen, Holding, Says
<1>6. PhaseKnown' /\ RowKnown' /\ Silent'
  BY <1>1, <1>2 DEF IInv, Screen, PhaseKnown, WithinPhase, Between, RowKnown, Silent, Says
<1>7. Output'
  BY <1>1, OutputAside DEF IInv, Recovering, Ending
<1> QED BY <1>3, <1>4, <1>5, <1>6, <1>7 DEF IInv, Screen

\* Finish, up to the mutex; a quiet reporter has none to take.
LEMMA FinishKeeps == ASSUME IInv, Finish PROVE IInv'
<1>1. /\ pc = "within" /\ at[Caller] = "none" /\ pc' = IF quiet THEN "between" ELSE "finishing"
      /\ steps' = MaxSteps
      /\ UNCHANGED <<quiet, live, begun, worker, ticker, at, mu, phase, drawn, row, spoken, overwritten,
                     undiverted, recovery, stdout>>
  BY DEF Finish, options, reporter, terminal, recovery
<1>2. Output'
  BY <1>1, OutputAside DEF IInv, Recovering, Ending
<1>3. \A w \in Workers : at[w] = "none"
  BY <1>1, Apart DEF IInv, Typed, Drawing
<1> QED BY <1>1, <1>2, <1>3, Apart, MovesKeep DEF IInv, Typed, States, WithinPhase, Between, Says

\* The pool is entered and left, and the run gives up, with nothing in hand.
LEMMA PoolAndFailKeep == ASSUME IInv, EnterPool \/ LeavePool \/ Fail PROVE IInv'
<1>1. /\ UNCHANGED <<quiet, live, begun, steps, worker, ticker, at, mu, phase, drawn, row, spoken, overwritten,
                     undiverted, recovery, stdout>>
      /\ \/ pc = "within" /\ at[Caller] = "none" /\ pc' \in {"pool", "failing"}
         \/ pc = "pool" /\ pc' = "within" /\ \A w \in Workers : worker[w] = "done"
         \/ pc = "between" /\ pc' = "failing"
  BY DEF EnterPool, LeavePool, Fail, options, goroutines, reporter, terminal, recovery
<1>2. Output'
  BY <1>1, OutputAside DEF IInv, Recovering, Ending
<1>3. at[Caller] = "none" /\ \A w \in Workers : at[w] = "none"
  BY <1>1, Apart DEF IInv, Typed, Drawing
<1> QED BY <1>1, <1>2, <1>3, MovesKeep DEF IInv, Typed, States, WithinPhase, Between, Says

-----------------------------------------------------------------------------
(* The recoveries.                                                          *)

\* A step of a recovery: the run stays in its phase, and the reporter is as it was.
RecoveryMoves ==
  /\ UNCHANGED <<quiet, live, begun, worker, ticker, at, mu, phase, drawn, row, spoken, overwritten>>
  /\ pc' # pc => pc \in {"within", "recovering", "restored"} /\ pc' \in {"within", "recovering", "restored"}
  /\ pc' # pc => at[Caller] = "none"
  /\ steps' \in 0..MaxSteps /\ undiverted' \in BOOLEAN

\* What a recovery does is the output's affair alone.
LEMMA RecoveryMovesKeep == ASSUME IInv, RecoveryMoves, Output' PROVE IInv'
<1>1. pc' # pc => \A w \in Workers : at[w] = "none"
  BY Apart DEF RecoveryMoves, IInv, Typed, Drawing
<1>2. pc' \in States
  BY DEF RecoveryMoves, IInv, Typed, States
<1> QED BY <1>1, <1>2, MovesKeep DEF RecoveryMoves, WithinPhase, Between, Says

\* Standard output is diverted, or the pipe could not be made.
LEMMA RecoverHiveKeeps == ASSUME IInv, RecoverHive PROVE IInv'
<1>1. /\ pc = "within" /\ pc' = "recovering" /\ steps' = steps - 1 /\ steps > 0 /\ at[Caller] = "none"
      /\ toPrint' \in 0..MaxPrints /\ printed' = 0 /\ took' = 0 /\ pipe' = pipe /\ stdout' = stdout
      /\ \/ os_stdout' = "pipe" /\ drainer' = "copying" /\ undiverted' = undiverted
         \/ os_stdout' = os_stdout /\ drainer' = drainer /\ undiverted' = TRUE
      /\ UNCHANGED <<quiet, live, begun, worker, ticker, at, mu, phase, drawn, row, spoken, overwritten>>
  BY DEF RecoverHive, options, goroutines, reporter, terminal
<1>2. RecoveryMoves
  <2>1. steps' \in 0..MaxSteps
    BY <1>1, Apart DEF IInv, Typed
  <2>2. undiverted' \in BOOLEAN
    BY <1>1 DEF IInv, Typed
  <2> QED BY <1>1, <2>1, <2>2 DEF RecoveryMoves
<1>3. os_stdout = "real" /\ drainer = "none" /\ pipe = 0
  BY <1>1 DEF IInv, Output, Diverted, Piped
<1>4. Diverted'
  BY <1>1, <1>3 DEF IInv, Output, Diverted
<1>5. Piped'
  <2>1. drainer' # "sent" /\ pipe' = 0 /\ took' = 0 /\ printed' = 0 /\ toPrint' \in 0..MaxPrints
    BY <1>1, <1>3
  <2>2. PipeSize \in Nat /\ MaxPrints \in Nat
    BY Apart
  <2>3. pipe' \in 0..PipeSize /\ took' \in Nat /\ printed' \in Nat /\ toPrint' \in Nat
    BY <2>1, <2>2
  <2>4. \A m \in Nat, n \in 0..MaxPrints : m = 0 => m + n <= MaxPrints
    BY <2>2
  <2>5. printed' + toPrint' <= MaxPrints /\ took' + pipe' <= printed' /\ took' + pipe' = printed'
    BY <2>1, <2>3, <2>4
  <2> QED BY <2>1, <2>3, <2>5 DEF Piped
<1>6. Outcome'
  BY <1>1 DEF IInv, Output, Outcome
<1> QED BY <1>2, <1>4, <1>5, <1>6, RecoveryMovesKeep DEF Output

\* regparser prints.
LEMMA PrintChatterKeeps == ASSUME IInv, PrintChatter PROVE IInv'
<1>1. /\ pc = "recovering" /\ toPrint > 0 /\ toPrint' = toPrint - 1 /\ printed' = printed + 1
      /\ IF os_stdout = "pipe" THEN pipe < PipeSize /\ pipe' = pipe + 1 /\ stdout' = stdout
         ELSE stdout' = stdout \cup {"warning"} /\ pipe' = pipe
      /\ UNCHANGED <<quiet, live, pc, begun, steps, worker, ticker, at, mu, phase, drawn, row, spoken, overwritten,
                     os_stdout, drainer, took, undiverted>>
  BY DEF PrintChatter, options, flow, goroutines, reporter, terminal
<1>2. RecoveryMoves
  BY <1>1 DEF RecoveryMoves, IInv, Typed
<1>3. Diverted' /\ Outcome'
  <2>1. os_stdout = "pipe" \/ undiverted
    BY <1>1 DEF IInv, Output, Diverted
  <2>2. stdout' \subseteq {"manifest", "warning"} /\ ("warning" \in stdout' => undiverted)
        /\ ("manifest" \in stdout' <=> "manifest" \in stdout)
    BY <1>1, <2>1 DEF IInv, Output, Outcome
  <2> QED BY <1>1, <2>2 DEF IInv, Output, Diverted, Outcome
<1>4. Piped'
  <2>1. drainer # "sent" /\ (drainer = "copying" <=> os_stdout = "pipe")
    BY <1>1 DEF IInv, Output, Diverted
  <2>2. CASE os_stdout = "pipe"
    BY <1>1, <2>1, <2>2, Apart DEF IInv, Output, Piped
  <2>3. CASE os_stdout # "pipe"
    BY <1>1, <2>1, <2>3 DEF IInv, Output, Piped
  <2> QED BY <2>2, <2>3
<1> QED BY <1>2, <1>3, <1>4, RecoveryMovesKeep DEF Output

\* The drainer takes what is in the pipe, and returns at its end.
LEMMA DrainKeeps == ASSUME IInv, Drain \/ Drained PROVE IInv'
<1>1. /\ drainer = "copying"
      /\ \/ pipe > 0 /\ pipe' = pipe - 1 /\ took' = took + 1 /\ drainer' = drainer
         \/ pipe = 0 /\ pc = "restored" /\ drainer' = "sent" /\ pipe' = pipe /\ took' = took
      /\ UNCHANGED <<quiet, live, pc, begun, steps, worker, ticker, at, mu, phase, drawn, row, spoken, overwritten,
                     os_stdout, toPrint, printed, undiverted, stdout>>
  BY DEF Drain, Drained, options, flow, goroutines, reporter, terminal
<1>2. RecoveryMoves
  BY <1>1 DEF RecoveryMoves, IInv, Typed
<1>3. Diverted' /\ Outcome'
  BY <1>1 DEF IInv, Output, Diverted, Outcome
<1>4. Piped'
  BY <1>1, Apart DEF IInv, Output, Piped
<1> QED BY <1>2, <1>3, <1>4, RecoveryMovesKeep DEF Output

\* RecoverHive has returned, and then its output is taken.
LEMMA RecoveredKeeps == ASSUME IInv, Recovered \/ Captured PROVE IInv'
<1>1. /\ \/ /\ pc = "recovering" /\ os_stdout' = "real" /\ drainer' = drainer
            /\ pc' = IF os_stdout = "pipe" THEN "restored" ELSE "within"
         \/ pc = "restored" /\ drainer = "sent" /\ drainer' = "none" /\ pc' = "within" /\ os_stdout' = os_stdout
      /\ UNCHANGED <<quiet, live, begun, steps, worker, ticker, at, mu, phase, drawn, row, spoken, overwritten,
                     pipe, toPrint, printed, took, undiverted, stdout>>
  BY DEF Recovered, Captured, options, goroutines, reporter, terminal
<1>2. RecoveryMoves
  BY <1>1 DEF RecoveryMoves, IInv, Typed, Drawing
<1>3. Diverted' /\ Outcome'
  BY <1>1 DEF IInv, Output, Diverted, Outcome
<1>4. Piped'
  BY <1>1 DEF IInv, Output, Diverted, Piped
<1> QED BY <1>2, <1>3, <1>4, RecoveryMovesKeep DEF Output

\* The manifest path is printed, on the real standard output and a clear row.
LEMMA PrintManifestKeeps == ASSUME IInv, PrintManifest PROVE IInv'
<1>1. /\ pc = "between" /\ pc' = "returning" /\ os_stdout = "real" /\ row = None
      /\ at[Caller] = "none" /\ \A w \in Workers : at[w] = "none"
  BY Apart DEF PrintManifest, IInv, Typed, Drawing, Output, Diverted, Screen, PhaseKnown, RowKnown, Between
<1>2. /\ stdout' = stdout \cup {"manifest"}
      /\ UNCHANGED <<quiet, live, begun, steps, worker, ticker, at, mu, phase, drawn, row, spoken,
                     os_stdout, pipe, drainer, toPrint, printed, took, undiverted>>
      /\ overwritten' = (overwritten \/ row # None)
  BY <1>1 DEF PrintManifest, options, goroutines, reporter, recovery
<1>3. overwritten' = overwritten
  BY <1>1, <1>2 DEF IInv, Typed
<1>4. Output'
  BY <1>1, <1>2 DEF IInv, Output, Diverted, Piped, Outcome
<1> QED BY <1>1, <1>2, <1>3, <1>4, MovesKeep DEF IInv, Typed, States, WithinPhase, Between, Says

-----------------------------------------------------------------------------
(* The invariant holds.                                                     *)

\* A run begins with nothing on the terminal and nothing diverted.
LEMMA InitHolds == Init => IInv
<1> SUFFICES ASSUME Init PROVE IInv
  OBVIOUS
<1>1. Typed
  <2>1. /\ begun \in 0..Phases /\ steps \in 0..MaxSteps /\ phase \in 0..Phases /\ row \in 0..Phases
        /\ mu \in Drawers \cup {Free}
    BY Apart DEF Init, None
  <2>2. drawn \in BOOLEAN /\ spoken \in BOOLEAN /\ overwritten \in BOOLEAN /\ undiverted \in BOOLEAN
    BY DEF Init
  <2> QED BY <2>1, <2>2 DEF Init, Typed, States
<1>2. Drawing /\ Holding /\ PhaseKnown /\ RowKnown /\ Silent
  BY Apart DEF Init, Drawing, Holding, PhaseKnown, WithinPhase, RowKnown, Silent, Says
<1>3. Output
  BY Apart DEF Init, Output, Diverted, Piped, Outcome
<1> QED BY <1>1, <1>2, <1>3 DEF IInv, Screen

\* Every step of the caller, the pool, the tickers and the drainer keeps it.
LEMMA NextHolds == IInv /\ [Next]_vars => IInv'
<1> SUFFICES ASSUME IInv, [Next]_vars PROVE IInv'
  OBVIOUS
<1>1. CASE \E d \in Drawers : Draws(d)
  BY <1>1, DrawKeeps, DrawWriteKeeps DEF Draws
<1>2. CASE CallerStep
  BY <1>1, <1>2, Apart, PrintfKeeps, FinishKeeps, FinishErasesKeeps, WriteKeeps, BeginKeeps, AnnounceKeeps,
     PoolAndFailKeep, RecoverHiveKeeps, PrintChatterKeeps, RecoveredKeeps, PrintManifestKeeps, CloseKeeps
     DEF CallerStep
<1>3. CASE PoolStep
  BY <1>1, <1>3, Apart, WorkerAnnouncesKeeps DEF PoolStep
<1>4. CASE TickerStep
  BY <1>1, <1>4, Apart, TickKeeps, TickerReturnsKeeps DEF TickerStep
<1>5. CASE DrainerStep \/ Throttled
  BY <1>5, DrainKeeps, ThrottledKeeps DEF DrainerStep
<1>6. CASE UNCHANGED vars
  <2>1. UNCHANGED <<quiet, live, pc, begun, steps, worker, ticker, at, mu, phase, drawn, row, spoken, overwritten,
                    undiverted, recovery, stdout>>
    BY <1>6 DEF vars, options, flow, goroutines, reporter, terminal, recovery
  <2>2. Output'
    BY <2>1, OutputAside DEF IInv
  <2> QED BY <2>1, <2>2, MovesKeep DEF IInv, Typed
<1> QED BY <1>2, <1>3, <1>4, <1>5, <1>6 DEF Next

\* Whoever the scheduler picks, one goroutine at most is writing to the terminal, on a row
\* the reporter knows, and the pipe loses nothing.
THEOREM Inductive == Spec => []IInv
BY InitHolds, NextHolds, PTL DEF Spec

\* The terminal's one line is never written over, and is that of the phase at work, whichever
\* ticker had a tick in hand when its phase finished.
THEOREM TerminalIsCurrent == Spec => []TerminalHolds
<1>1. IInv => TerminalHolds
  <2> SUFFICES ASSUME IInv PROVE TerminalHolds
    OBVIOUS
  <2>1. took + pipe <= MaxPrints
    BY Apart DEF IInv, Output, Piped
  <2>2. TypeOK
    BY <2>1 DEF IInv, Typed, States, Screen, RowKnown, Output, Piped, TypeOK
  <2>3. NothingOverwritten /\ LineIsCurrent
    BY DEF IInv, Screen, RowKnown, NothingOverwritten, LineIsCurrent
  <2> QED BY <2>2, <2>3 DEF TerminalHolds
<1> QED BY <1>1, Inductive, PTL

\* The standard output carries the manifest path of a run that succeeded and nothing else,
\* what a recovery printed is returned whole, and a quiet run says nothing.
THEOREM OutputIsManifest == Spec => []OutputHolds
<1>1. IInv => OutputHolds
  BY DEF IInv, Output, Diverted, Piped, Outcome, Screen, Silent, OutputHolds, StdoutIsManifest,
         ChatterWhole, QuietIsSilent
<1> QED BY <1>1, Inductive, PTL
=============================================================================
