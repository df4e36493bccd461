------------------------- MODULE EventLogAccounting -------------------------
(***************************************************************************)
(* What internal/eventlog makes of an event log's chunks: the counts every  *)
(* record read falls under, the records retained, and the order they are    *)
(* reported in.  Shared by SequentialParse, which says what parsing the     *)
(* logs gives, and EventLogParse, which is how the pool of workers does it. *)
(*                                                                          *)
(* A path is a number, in the order the paths' text sorts in.  A chunk is   *)
(* Damaged, or a sequence of records; a record says when it was written,    *)
(* whether a rule selects it and its gate keeps it, and whether it names    *)
(* another channel than its file does.                                      *)
(***************************************************************************)
EXTENDS Integers, Sequences, FiniteSets

CONSTANTS Paths,      \* the event logs found
          Logs,       \* what each of those that are read holds: its chunks
          Damaged     \* a chunk that does not parse

Selected == DOMAIN Logs
Entry == [time : Nat, kept : BOOLEAN, elsewhere : BOOLEAN]

ASSUME LogsAssumption ==
  /\ IsFiniteSet(Paths) /\ Paths \subseteq Nat /\ Selected \subseteq Paths
  /\ Damaged \notin Seq(Entry)
  /\ \A f \in Selected : Logs[f] \in Seq(Seq(Entry) \cup {Damaged})

\* The records of those of a log's chunks that parse, an id being a record's place in its log.
Parsed(f, chunks) == {i \in chunks : Logs[f][i] # Damaged}
ReadOf(f, chunks) ==
  UNION {{[file |-> f, id |-> <<i, j>>, holds |-> Logs[f][i][j]] : j \in DOMAIN Logs[f][i]} :
           i \in Parsed(f, chunks)}

\* Those that are retained.
RetainedOf(f, chunks) == {r \in ReadOf(f, chunks) : r.holds.kept}

Counted == {"read", "retained", "excluded", "mismatched", "failed"}
NoCounts == [c \in Counted |-> 0]
Plus(a, b) == [c \in Counted |-> a[c] + b[c]]

\* What is counted of a log's chunks.
CountsOf(f, chunks) ==
  LET having(Test(_)) == Cardinality({r \in ReadOf(f, chunks) : Test(r.holds)}) IN
  [read       |-> having(LAMBDA e : TRUE),
   retained   |-> having(LAMBDA e : e.kept),
   excluded   |-> having(LAMBDA e : ~e.kept),
   mismatched |-> having(LAMBDA e : e.elsewhere),
   failed     |-> Cardinality(chunks \ Parsed(f, chunks))]

\* Mutant: records are ordered by their time alone.
BeforeByTime(r, s) == r.holds.time < s.holds.time

\* The order records are reported in: time, then file, then record id.
InLog(r, s) == r.id[1] < s.id[1] \/ (r.id[1] = s.id[1] /\ r.id[2] < s.id[2])
OneLogAfterAnother(r, s) == r.file < s.file \/ (r.file = s.file /\ InLog(r, s))
Before(r, s) ==
  \/ r.holds.time < s.holds.time
  \/ r.holds.time = s.holds.time /\ OneLogAfterAnother(r, s)

\* The elements of S in the order op, which tells any two of them apart.
Ordered(S, op(_, _)) ==
  [n \in 1..Cardinality(S) |-> CHOOSE x \in S : Cardinality({y \in S : op(y, x)}) = n - 1]

\* s sorted by Before; what it does not tell apart stays as it stands.
InOrder(s) ==
  LET place(i) == Cardinality({j \in DOMAIN s :
                    Before(s[j], s[i]) \/ (j <= i /\ ~Before(s[i], s[j]))})
  IN  [n \in DOMAIN s |-> s[CHOOSE i \in DOMAIN s : place(i) = n]]

\* The selected paths, in order, and what their counts add up to.
InPathOrder == Ordered(Selected, <)

Total(counts) ==
  LET upTo[n \in 0..Cardinality(Selected)] ==
        IF n = 0 THEN NoCounts ELSE Plus(upTo[n - 1], counts[InPathOrder[n]])
  IN  upTo[Cardinality(Selected)]
=============================================================================
