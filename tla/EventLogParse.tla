---------------------------- MODULE EventLogParse ----------------------------
(***************************************************************************)
(* ParseTreeWith of internal/eventlog/parse.go: the selected logs are       *)
(* enumerated, cut into batches of chunks, and handed one at a time over an  *)
(* unbuffered channel to a pool of workers, which append what they retained  *)
(* and fold their counts into the file's under one mutex.                    *)
(*                                                                          *)
(* A batch opens its file again.  Where "parse" is in MayVanish that open    *)
(* may fail although the enumeration's succeeded, and merge leaves the       *)
(* batch's error behind: neither the file nor its chunks count as failed.    *)
(***************************************************************************)
EXTENDS EventLogAccounting, Functions

CONSTANTS CPUs,             \* runtime.NumCPU
          ChunksPerBatch,
          MayVanish         \* the opens that may fail: a subset of {"plan", "parse"}

ASSUME PoolAssumption ==
  CPUs \in Nat \ {0} /\ ChunksPerBatch \in Nat \ {0} /\ MayVanish \subseteq {"plan", "parse"}

VARIABLES main,       \* the goroutine that calls: plan, send, closed, done
          plans,      \* each selected log's filePlan
          batches,    \* batches not yet handed out
          worker,     \* each worker's place, its batch, and what it holds of it
          lock,       \* who holds the mutex
          records,    \* the records appended so far
          outcome,    \* what is returned
          missed      \* history: the batches parseBatch could not open their file for

vars == <<main, plans, batches, worker, lock, records, outcome, missed>>

Workers == 1..CPUs
Free == 0
Pending == <<>>

NoPlan == [done |-> FALSE, failed |-> FALSE, chunks |-> 0, counts |-> NoCounts]
NoBatch == [file |-> -1, from |-> 1, to |-> 0]
NoWork == [records |-> <<>>, counts |-> NoCounts]
Idle(at) == [at |-> at, batch |-> NoBatch, mine |-> NoWork, seen |-> NoWork]

Init ==
  /\ main = "plan" /\ plans = [f \in Selected |-> NoPlan]
  /\ batches = <<>> /\ worker = [w \in Workers |-> Idle("notStarted")]
  /\ lock = Free /\ records = <<>> /\ outcome = Pending /\ missed = {}

-----------------------------------------------------------------------------
(* planFiles: every file's chunks enumerated, in any order.                 *)

PlanFile(f, opens) ==
  /\ main = "plan" /\ ~plans[f].done
  /\ opens \/ "plan" \in MayVanish
  /\ plans' = [plans EXCEPT ![f].done = TRUE, ![f].failed = ~opens,
                            ![f].chunks = IF opens THEN Len(Logs[f]) ELSE 0]
  /\ UNCHANGED <<main, batches, worker, lock, records, outcome, missed>>

\* Mutant: a last batch shorter than the others is not handed out.
WholeBatches(f) ==
  {[file |-> f, from |-> start + 1, to |-> start + ChunksPerBatch] :
     start \in {s \in 0..(plans[f].chunks - ChunksPerBatch) : s % ChunksPerBatch = 0}}

BatchesOf(f) ==
  {[file |-> f, from |-> start + 1,
    to |-> IF start + ChunksPerBatch < plans[f].chunks THEN start + ChunksPerBatch
           ELSE plans[f].chunks] :
     start \in {s \in 0..(plans[f].chunks - 1) : s % ChunksPerBatch = 0}}

Batches == UNION {BatchesOf(f) : f \in Selected}

\* Longest file first, those of one length in path order, each from its first chunk on.
LongestFirst(b, c) ==
  \/ plans[b.file].chunks > plans[c.file].chunks
  \/ plans[b.file].chunks = plans[c.file].chunks /\ b.file < c.file
  \/ b.file = c.file /\ b.from < c.from

WorkerCount(items) == CHOOSE n \in Workers :
  IF items < 1 THEN n = 1 ELSE IF items < CPUs THEN n = items ELSE n = CPUs

Start ==
  /\ main = "plan" /\ \A f \in Selected : plans[f].done
  /\ batches' = Ordered(Batches, LongestFirst)
  /\ worker' = [w \in Workers |-> IF w <= WorkerCount(Len(batches')) THEN Idle("receive")
                                  ELSE Idle("exited")]
  /\ main' = "send"
  /\ UNCHANGED <<plans, lock, records, outcome, missed>>

-----------------------------------------------------------------------------
(* The workers.                                                             *)

\* The channel is unbuffered: a batch goes from the sender to a waiting receiver.
Receive(w) ==
  /\ main = "send" /\ batches # <<>> /\ worker[w].at = "receive"
  /\ worker' = [worker EXCEPT ![w].at = "parse", ![w].batch = Head(batches)]
  /\ batches' = Tail(batches)
  /\ UNCHANGED <<main, plans, lock, records, outcome, missed>>

\* A batch's records in the order of its file, and its counts.
ParsedBatch(b) == [records |-> Ordered(RetainedOf(b.file, b.from..b.to), InLog),
                   counts |-> CountsOf(b.file, b.from..b.to)]

\* A batch whose file will not open has nothing, and an error merge leaves behind.
ParseBatch(w, opens) ==
  /\ worker[w].at = "parse"
  /\ opens \/ "parse" \in MayVanish
  /\ worker' = [worker EXCEPT ![w].at = "lock",
                              ![w].mine = IF opens THEN ParsedBatch(worker[w].batch) ELSE NoWork]
  /\ missed' = IF opens THEN missed ELSE missed \cup {worker[w].batch}
  /\ UNCHANGED <<main, plans, batches, lock, records, outcome>>

\* Mutant: the shared slice and counts are read and written without the mutex.
TakeUnlocked(w) ==
  /\ worker[w].at = "lock"
  /\ lock' = w
  /\ worker' = [worker EXCEPT ![w].at = "merge",
       ![w].seen = [records |-> records, counts |-> plans[worker[w].batch.file].counts]]
  /\ UNCHANGED <<main, plans, batches, records, outcome, missed>>

Take(w) ==
  /\ worker[w].at = "lock" /\ lock = Free
  /\ lock' = w
  /\ worker' = [worker EXCEPT ![w].at = "merge",
       ![w].seen = [records |-> records, counts |-> plans[worker[w].batch.file].counts]]
  /\ UNCHANGED <<main, plans, batches, records, outcome, missed>>

\* Mutant: a batch's exclusions are not folded into the file's.
FoldRetainedOnly(a, b) == [Plus(a, b) EXCEPT !["excluded"] = a["excluded"]]

\* filePlan.merge: the counts are folded; the batch's error is not.
Fold(a, b) == Plus(a, b)

\* Mutant: a worker returns once it has merged a batch.
MergeAndReturn(w) ==
  /\ worker[w].at = "merge"
  /\ records' = worker[w].seen.records \o worker[w].mine.records
  /\ plans' = [plans EXCEPT ![worker[w].batch.file].counts =
                 Fold(worker[w].seen.counts, worker[w].mine.counts)]
  /\ lock' = Free
  /\ worker' = [worker EXCEPT ![w] = Idle("exited")]
  /\ UNCHANGED <<main, batches, outcome, missed>>

Merge(w) ==
  /\ worker[w].at = "merge"
  /\ records' = worker[w].seen.records \o worker[w].mine.records
  /\ plans' = [plans EXCEPT ![worker[w].batch.file].counts =
                 Fold(worker[w].seen.counts, worker[w].mine.counts)]
  /\ lock' = Free
  /\ worker' = [worker EXCEPT ![w] = Idle("receive")]
  /\ UNCHANGED <<main, batches, outcome, missed>>

Exit(w) ==
  /\ main = "closed" /\ worker[w].at = "receive"
  /\ worker' = [worker EXCEPT ![w] = Idle("exited")]
  /\ UNCHANGED <<main, plans, batches, lock, records, outcome, missed>>

-----------------------------------------------------------------------------
(* The caller.                                                              *)

Close ==
  /\ main = "send" /\ batches = <<>> /\ main' = "closed"
  /\ UNCHANGED <<plans, batches, worker, lock, records, outcome, missed>>

\* wg.Wait, then the files' counts are summed and the records sorted.
Assemble ==
  /\ main = "closed" /\ \A w \in Workers : worker[w].at = "exited"
  /\ outcome' = [files |-> [f \in Selected |-> [failed |-> plans[f].failed,
                              chunks |-> plans[f].chunks, counts |-> plans[f].counts]],
                 skipped |-> Paths \ Selected,
                 total |-> Total([f \in Selected |-> plans[f].counts]),
                 records |-> InOrder(records)]
  /\ main' = "done"
  /\ UNCHANGED <<plans, batches, worker, lock, records, missed>>

Caller == (\E f \in Selected, opens \in BOOLEAN : PlanFile(f, opens)) \/ Start \/ Close \/ Assemble
Work(w) == Receive(w) \/ (\E opens \in BOOLEAN : ParseBatch(w, opens)) \/ Take(w) \/ Merge(w) \/ Exit(w)

Next == Caller \/ \E w \in Workers : Work(w)

\* The caller and every worker are goroutines the scheduler keeps running.
Spec == Init /\ [][Next]_vars /\ WF_vars(Caller) /\ \A w \in Workers : WF_vars(Work(w))

-----------------------------------------------------------------------------
(* Properties.                                                              *)

\* Every goroutine is somewhere, and a worker between its two steps on what the
\* workers share is the one that holds the mutex.
TypeOK ==
  /\ main \in {"plan", "send", "closed", "done"}
  /\ lock \in Workers \cup {Free}
  /\ \A w \in Workers :
       /\ worker[w].at \in {"notStarted", "receive", "parse", "lock", "merge", "exited"}
       /\ worker[w].at = "merge" <=> lock = w
  /\ \A f \in Selected : plans[f].chunks \in 0..Len(Logs[f])

\* The chunks of f in the batches whose file would not open again.
Unopened(f) == UNION {b.from..b.to : b \in {c \in missed : c.file = f}}

\* Whatever the number of workers and the order their batches finish in, the pool
\* returns what reading the logs one after another returns where the same opens fail, and
\* returns.
AsIfSequential == INSTANCE SequentialParse
  WITH result <- outcome, unread <- [f \in Selected |-> Unopened(f)]

SequentialSpec == AsIfSequential!Spec

\* No count is lost between two workers or taken twice: at every moment what is counted in
\* a file and what there is in its batches still to merge are the file's, but for the
\* batches whose file would not open.
NothingLostInHand ==
  main \in {"send", "closed", "done"} =>
    \A f \in Selected : ~plans[f].failed =>
      LET unmerged == UNION {b.from..b.to : b \in {c \in Range(batches) \cup
                               {worker[w].batch : w \in Workers} : c.file = f}}
      IN  Plus(plans[f].counts, CountsOf(f, unmerged \ Unopened(f)))
            = CountsOf(f, (1..Len(Logs[f])) \ Unopened(f))

\* Every record read is retained or excluded for a reason, file by file and in
\* total, and what is returned is exactly what was counted as retained.
AccountsBalance ==
  outcome # Pending =>
    /\ \A f \in Selected : LET c == outcome.files[f].counts IN
         c.read = c.retained + c.excluded
    /\ outcome.total.read = outcome.total.retained + outcome.total.excluded
    /\ Len(outcome.records) = outcome.total.retained

\* What the result leaves unsaid is what could not be opened a second time and nothing
\* else: a file not reported as failed was counted whole, but for exactly the batches
\* parseBatch could not open it for.
UnreadIsUnopened ==
  outcome # Pending =>
    \A f \in Selected :
      outcome.files[f].failed
        \/ outcome.files[f].counts = CountsOf(f, (1..Len(Logs[f])) \ Unopened(f))

\* The claim of parse.go, which one batch's failed open contradicts, so that no run checks it:
\* a chunk enumerated is read, or counted as failed, or its file is reported as failed, so
\* that its records are never taken for absent.
NothingUnsaid ==
  outcome # Pending =>
    \A f \in Selected :
      LET whole == CountsOf(f, 1..Len(Logs[f])) IN
      \/ outcome.files[f].failed
      \/ outcome.files[f].counts.read = whole.read /\ outcome.files[f].counts.failed = whole.failed

\* The accounts balance, in the result and at every moment on the way to it.
CountsBalance == TypeOK /\ AccountsBalance /\ NothingLostInHand
=============================================================================
