--------------------------- MODULE SequentialParse ---------------------------
(***************************************************************************)
(* What ParseTreeWith gives: the records and the accounting of reading the   *)
(* selected event logs one after another.  A file that will not open is     *)
(* reported as failed and the others are not disturbed.  A part of a file   *)
(* that will not open again is not read and not accounted for, and nothing  *)
(* else is left out with it.                                                *)
(***************************************************************************)
EXTENDS EventLogAccounting

CONSTANT MayVanish   \* as in EventLogParse

VARIABLES result,    \* what the parse returned
          unread     \* of each log, the chunks for which it would not open again

Pending == <<>>

\* What is returned where the files of unopened could not be opened: the records of the
\* others but for what was not read of them, one log after another, and sorted.
Sequential(unopened) ==
  LET chunks(f) == IF f \in unopened THEN 0 ELSE Len(Logs[f])
      counts == [f \in Selected |-> CountsOf(f, (1..chunks(f)) \ unread[f])]
      records == UNION {RetainedOf(f, (1..chunks(f)) \ unread[f]) : f \in Selected}
  IN  [files |-> [f \in Selected |-> [failed |-> f \in unopened, chunks |-> chunks(f),
                                      counts |-> counts[f]]],
       skipped |-> Paths \ Selected,
       total |-> Total(counts),
       records |-> InOrder(Ordered(records, OneLogAfterAnother))]

Init == result = Pending /\ unread = [f \in Selected |-> {}]

Parse ==
  /\ result = Pending /\ result' # Pending
  /\ \E unopened \in IF "plan" \in MayVanish THEN SUBSET Selected ELSE {{}} :
       result' = Sequential(unopened)
  /\ UNCHANGED unread

\* A file that opened before does not open for a part of it.
Vanish ==
  /\ "parse" \in MayVanish /\ result = Pending
  /\ \E f \in Selected : \E part \in SUBSET (1..Len(Logs[f])) :
       unread' = [unread EXCEPT ![f] = @ \cup part]
  /\ UNCHANGED result

Next == Parse \/ Vanish

\* A parse that starts returns.
Spec == Init /\ [][Next]_<<result, unread>> /\ <>(result # Pending)
=============================================================================
