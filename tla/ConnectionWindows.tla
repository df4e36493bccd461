-------------------------- MODULE ConnectionWindows --------------------------
(***************************************************************************)
(* internal/store/views.sql: the views that turn the records of a host     *)
(* into the intervals a device was connected, and that say how far an      *)
(* interval no removal closed may reach.  Each view is an operator over    *)
(* the log; a row is a record.  Every state is a moment the evidence may   *)
(* have been collected at.                                                 *)
(*                                                                         *)
(* Null stands for SQL's NULL.  Times are the host's, with Tolerance for   *)
(* the fifteen seconds of one cluster.                                     *)
(***************************************************************************)
EXTENDS HostLog, FiniteSetsExt

Null == -1      \* no record is written before 0

MinOf(S) == IF S = {} THEN Null ELSE Min(S)
MaxOf(S) == IF S = {} THEN Null ELSE Max(S)

Time(i) == log[i].t

Cover(lo, hi, t) == lo <= t /\ (hi = Null \/ t <= hi)

----------------------------------------------------------------------------
\* Mutant: every Kernel-PnP 420 read as a removal.
FaultsAreDepartures(d) == {i \in DOMAIN log : log[i].dev = d}

\* v_device_state_change: the records that say a device arrived or went away.
\* A 420 with a problem code other than 45 is a fault and is not one of them.
StateChange(d) == {i \in DOMAIN log : log[i].dev = d /\ log[i].kind # "fault"}

State(i) == IF log[i].kind = "connect" THEN "arrival" ELSE "departure"

\* Mutants: the row before, and the last row, read as the next one.
LeadBackwards(S, i) == MaxOf({j \in S : j < i})
LeadLast(S, i) == MaxOf({j \in S : j > i})

\* lag() and lead() over (time_utc, record_id): the log is in that order.
Lag(S, i) == MaxOf({j \in S : j < i})
Lead(S, i) == MinOf({j \in S : j > i})

\* Mutant: a run of like records is one cluster however long.
Unbounded(S) == {i \in S : LET p == Lag(S, i) IN p # Null => State(p) # State(i)}

\* The first record of each cluster of like records.
Transitions(S) ==
    {i \in S : LET p == Lag(S, i) IN
                 p # Null => State(p) # State(i) \/ Time(i) - Time(p) > Tolerance}

\* The moments of clean stops: v_host_stopped.
HostStopped == {Time(i) : i \in {j \in DOMAIN log : log[j].kind = "stopped"}}

\* v_host_unclean_stop.  The nearest start or resume at or before the report is
\* the reporting boot only where no clean stop lies between the two.
CandidateBoot(i) ==
    MaxOf({Time(j) : j \in {k \in DOMAIN log : /\ log[k].kind \in {"started", "woke"}
                                                /\ Time(k) <= Time(i)}})

BootAssociated(i) ==
    /\ CandidateBoot(i) # Null
    /\ ~\E j \in DOMAIN log : /\ log[j].kind = "stopped"
                              /\ Time(j) > CandidateBoot(i) /\ Time(j) < Time(i)

\* Mutant: the record's own time read as the moment of the stop.
StoppedWhenReported ==
    { [id |-> i, reported |-> Time(i), associated |-> TRUE, before |-> Time(i), after |-> Time(i)] :
        i \in {j \in DOMAIN log : log[j].kind = "unexpected"} }

UncleanStop ==
    { LET associated == BootAssociated(i) IN
      [ id |-> i, reported |-> Time(i), associated |-> associated,
        before |-> IF associated THEN CandidateBoot(i) ELSE Time(i),
        after |-> IF associated
                  THEN MaxOf({Time(j) : j \in {k \in DOMAIN log : Time(k) < CandidateBoot(i)}})
                  ELSE Null ] :
        i \in {j \in DOMAIN log : log[j].kind = "unexpected"} }

\* The unclean stop an open window that began at t is bounded by: of those dated
\* after it, the earliest, then the earliest reported.
BoundingStop(t) ==
    LET U == {u \in UncleanStop : u.after > t} IN
    {u \in U : \A v \in U : u.after < v.after \/ (u.after = v.after /\ u.id <= v.id)}

\* v_connection: the arrivals, each with what came next, and a first departure
\* whose arrival the evidence does not hold.
Opened(d, i) ==
    LET next == Lead(Transitions(StateChange(d)), i)
        ended == IF next # Null /\ State(next) = "departure" THEN Time(next) ELSE Null
        endedBefore == IF next # Null /\ State(next) = "arrival" THEN Time(next) ELSE Null
        unclosed == ended = Null /\ endedBefore = Null
        stop == IF unclosed THEN BoundingStop(Time(i)) ELSE {}
    IN  [ dev |-> d, started |-> Time(i), openedBy |-> i,
          ended |-> ended, closedBy |-> IF ended = Null THEN Null ELSE next,
          endedBefore |-> endedBefore,
          hostStopped |-> IF unclosed THEN MinOf({t \in HostStopped : t > Time(i)}) ELSE Null,
          stoppedAfter |-> MinOf({u.after : u \in stop}),
          stoppedBefore |-> MinOf({u.before : u \in stop}),
          undated |-> unclosed /\ \E u \in UncleanStop : ~u.associated /\ u.reported > Time(i) ]

Unopened(d, i) ==
    [ dev |-> d, started |-> Null, openedBy |-> Null, ended |-> Time(i), closedBy |-> i,
      endedBefore |-> Null, hostStopped |-> Null, stoppedAfter |-> Null,
      stoppedBefore |-> Null, undated |-> FALSE ]

Connection(d) ==
    LET S == StateChange(d) IN
    {Opened(d, i) : i \in {j \in Transitions(S) : State(j) = "arrival"}} \union
    {Unopened(d, i) : i \in {j \in Transitions(S) : State(j) = "departure" /\ Lag(S, j) = Null}}

\* Mutant: an open window goes on for ever.
PlacingForEver(d) ==
    { [dev |-> d, started |-> w.started, openedBy |-> w.openedBy, until |-> w.ended, undated |-> w.undated] :
        w \in {c \in Connection(d) : c.started # Null /\ c.endedBefore = Null} }

\* v_connection_placing: the windows that put a device on the machine at a
\* moment, and how far each reaches.
Placing(d) ==
    { [dev |-> d, started |-> w.started, openedBy |-> w.openedBy, undated |-> w.undated,
       until |-> IF w.ended # Null THEN w.ended
                 ELSE MinOf({w.hostStopped, w.stoppedAfter} \ {Null})] :
        w \in {c \in Connection(d) : c.started # Null /\ c.endedBefore = Null} }

----------------------------------------------------------------------------
\* A window has at most one kind of end, and no end or bound before its start.
WindowsInOrder ==
    /\ HostTypeOK
    /\ \A d \in Device : \A w \in Connection(d) :
          /\ {w.started, w.ended, w.endedBefore, w.hostStopped, w.stoppedAfter, w.stoppedBefore}
                \subseteq {Null} \union 0..MaxTime
          /\ w.ended = Null \/ w.endedBefore = Null
          /\ \A t \in {w.ended, w.endedBefore, w.hostStopped, w.stoppedAfter} \ {Null} : w.started <= t

\* No boot is half written: what a collection taken from the disk holds.
Settled == host # "booting"

\* The host records what happens to it, in the order it happens.
AllRecorded == ~habit.lateReport /\ ~habit.lostStart /\ ~habit.lostDeparture

\* A record the evidence places on a device was made while it was attached: of
\* every record made at a moment some window covers, the device was on the host
\* at that moment (views.sql:1368-1393), across shutdowns, power losses, sleep
\* and everything that changed while the host was off.  In the very instant of
\* the arrival or the removal the order of records says nothing.
PlacingSound ==
    Settled /\ AllRecorded =>
        \A d \in Device : \A w \in Placing(d) : \A i \in DOMAIN log :
            Cover(w.started, w.until, Time(i)) /\ Time(i) \notin {w.started, w.until}
                => d \in log[i].here

\* Each unclean stop was put to the first start of the session that reported it.
StartsOf(n) ==
    {Time(i) : i \in {j \in DOMAIN log : log[j].kind \in {"started", "woke"} /\ log[j].session = n}}
BootsKnown ==
    \A u \in UncleanStop : u.associated /\ u.before = MinOf(StartsOf(log[u.id].session))

\* "An open window stops placing the device once the host goes off" (views.sql:1377):
\* what a window covers that no removal closed was recorded by the boot that recorded
\* the arrival.
StaysInSession ==
    Settled =>
        \A d \in Device : \A w \in Placing(d) :
            (w.until = Null \/ \A i \in StateChange(d) : i > w.openedBy => State(i) = "arrival") =>
                \A i \in DOMAIN log :
                    Cover(w.started, w.until, Time(i)) => log[i].session = log[w.openedBy].session

\* And so it does even where departures and starts go unrecorded, wherever the boots
\* that reported its unclean stops are known.
OpenStaysInSession == BootsKnown => StaysInSession

\* A window is closed by a removal and by nothing else: at the record that closes
\* it the device is gone.
EndIsRemoval ==
    \A d \in Device : \A w \in Connection(d) :
        w.ended # Null => d \notin log[w.closedBy].here

\* Each connection is one window: the records that open windows are exactly the
\* first records of the device's arrivals, however many channels echo them.
OneWindowPerArrival ==
    AllRecorded => \A d \in Device :
        {w.openedBy : w \in {c \in Connection(d) : c.started # Null}} =
        {i \in StateChange(d) : State(i) = "arrival" /\ log[i].first}

\* The windows of one device follow each other: a window is over, or is known to
\* be over, by the time the next one starts, and only the last can be open.
WindowsApart ==
    \A d \in Device : \A v, w \in Connection(d) :
        v # w => \/ v.ended # Null /\ (w.started # Null /\ v.ended <= w.started)
                 \/ w.ended # Null /\ (v.started # Null /\ w.ended <= v.started)
                 \/ v.endedBefore # Null /\ w.started >= v.endedBefore
                 \/ w.endedBefore # Null /\ v.started >= w.endedBefore

\* The host went off inside the interval that is given for it: after the last
\* thing it recorded and before the boot that noticed (views.sql:1148-1150).
UncleanBounds ==
    AllRecorded => \A u \in UncleanStop :
        /\ log[u.id].stop <= u.before
        /\ u.after # Null => u.after <= log[u.id].stop

\* The claims of views.sql, which a stop without its boot contradicts, so that no run checks
\* it: "stopped_after_utc is NULL, so no window may reach through it" (views.sql:1178),
\* of an unclean stop whose boot is not established, and "An unclean stop reaches
\* it through host_stopped_after_utc" (views.sql:1391) of any other: a window that
\* places a device has an end where an unclean stop was reported after it began.
UncleanStopReaches ==
    Settled =>
        \A d \in Device : \A w \in Placing(d) :
            (\E i \in DOMAIN log : log[i].kind = "unexpected" /\ Time(i) > w.started)
            => w.until # Null

\* The windows of a device are well formed whatever was lost: closed by removals only, and
\* one after the other (views.sql:1236-1345).
WindowsWellFormed == WindowsInOrder /\ EndIsRemoval /\ WindowsApart
=============================================================================
