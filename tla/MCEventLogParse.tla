-------------------------- MODULE MCEventLogParse --------------------------
(* Three logs read of four found, of five, two and one chunks, one chunk    *)
(* damaged, with records of every log tied on their time.                   *)
EXTENDS EventLogParse

Kept(t) == [time |-> t, kept |-> TRUE, elsewhere |-> FALSE]
Stray(t) == [time |-> t, kept |-> TRUE, elsewhere |-> TRUE]
Passed(t) == [time |-> t, kept |-> FALSE, elsewhere |-> FALSE]

FourPaths == 1..4
ThreeLogs ==
  [f \in 2..4 |->
     CASE f = 2 -> <<<<Passed(1), Kept(2)>>, Damaged, <<Kept(1), Kept(1)>>, <<Passed(1)>>, <<Kept(2), Stray(1)>>>>
       [] f = 3 -> <<<<Kept(1)>>, <<Stray(2), Passed(2)>>>>
       [] f = 4 -> <<<<Kept(1)>>>>]

\* The opens that may fail: the enumeration's, and a batch's own.
AnyOpen == {"plan", "parse"}
=============================================================================
