---------------------------- MODULE MCAttribution ----------------------------
(***************************************************************************)
(* The hosts considered: one stick or two, and what becomes of the records *)
(* and the files of each.                                                  *)
(***************************************************************************)
EXTENDS Attribution, TLC

CONSTANTS stick, other

\* A host that records every change it sees, through whatever shutdowns, crashes and
\* sleeps; the same without further records, for longer; one whose boots may report
\* late, and whose departures and starts go unrecorded.
Recording ==
    [twoStarts |-> TRUE, lateReport |-> FALSE, lostStart |-> FALSE, lostDeparture |-> FALSE,
     quietCrash |-> FALSE, chatter |-> TRUE, sticks |-> {stick}, files |-> 0, room |-> 4]
Terse == [Recording EXCEPT !.chatter = FALSE, !.room = 5]
Lossy ==
    [Recording EXCEPT !.twoStarts = FALSE, !.lateReport = TRUE, !.lostStart = TRUE, !.lostDeparture = TRUE]

\* Two sticks that share the letters, and two files opened on them; the same with one
\* file, on a host that is shut down and started again.
Sharing == [Terse EXCEPT !.twoStarts = FALSE, !.sticks = {stick, other}, !.files = 2, !.room = 3]
Restarted == [Sharing EXCEPT !.files = 1, !.room = 5]
ReportingLate == [Recording EXCEPT !.lateReport = TRUE, !.room = 5]

AllHosts == {Recording, Terse, Lossy, Sharing}
HostsRestarted == {Restarted}
HostsReportingLate == {ReportingLate}

MCSerial == stick :> "4A1F-0001" @@ other :> "4A1F-0002"
MCLabel == stick :> "PATRIOT" @@ other :> "TEST"
MCPortable == {[dev |-> stick, name |-> "PATRIOT", storage |-> TRUE]}
MCEMDMgmt == {<<other, "4A1F-0002">>}
=============================================================================
