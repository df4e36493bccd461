------------------------------- MODULE HostLog -------------------------------
(***************************************************************************)
(* The examined Windows host and the event log it writes: what boobook has *)
(* to read connections out of, and what really happened.                   *)
(*                                                                         *)
(* The host is not part of boobook.  It is modelled from what the views of *)
(* internal/store/views.sql and the catalogue in internal/eventlog say of  *)
(* the records: which moments each is written at, by which boot, and which *)
(* are missing.  The log is in time order and a record's index is its      *)
(* record id.  A record carries, beside what boobook reads, four facts     *)
(* about the truth that no view looks at: whether it is the first record   *)
(* of a connection, the devices attached when it was written, the session  *)
(* that wrote it and, for the report of an unclean stop, when the host     *)
(* really stopped.                                                         *)
(***************************************************************************)
EXTENDS Integers, Sequences, FiniteSets

CONSTANTS
    Device,
    NoDevice,
    Tolerance,       \* the fifteen seconds within which channels echo a change
    MaxTime,         \* bound on the clock
    MaxLog,          \* bound on the number of records
    Habits           \* how the hosts considered record what happens to them

ASSUME HostAssumption ==
    /\ NoDevice \notin Device
    /\ Tolerance \in Nat /\ MaxTime \in Nat /\ MaxLog \in Nat
    /\ Habits \subseteq
          [twoStarts : BOOLEAN,      \* a boot may write EventLog 6005 too, after its report of a stop
           lateReport : BOOLEAN,     \* a boot may write its report after both of its starts
           lostStart : BOOLEAN,      \* a boot's start records may be missing from the collection
           lostDeparture : BOOLEAN,  \* a device may be pulled from a running host unrecorded
           quietCrash : BOOLEAN,     \* the host may die with an arrival as its last record
           chatter : BOOLEAN,        \* it records more than what comes and goes and its boots
           sticks : SUBSET Device,   \* the devices that are ever put into it
           files : Nat,              \* how many files are opened on them, from empty ports on
           room : 0..MaxLog]         \* how many records of it there can be

HostKind == {"started", "woke", "slept", "stopped", "unexpected", "running"}
DeviceKind == {"connect", "disconnect", "fault"}

VARIABLES
    habit,      \* which of them this host has
    now,        \* the clock
    host,       \* "on", "asleep", "off" or "booting"
    session,    \* how many times the host has booted
    attached,   \* the devices in its ports
    noticed,    \* the devices the running host has recorded as arrived
    died,       \* the moment of a stop no boot has reported, or -1
    pending,    \* what the boot in progress has still to write
    log         \* the records

hostVars == <<habit, now, host, session, attached, noticed, died, pending, log>>

Record == [t : 0..MaxTime, kind : HostKind \union DeviceKind,
           dev : Device \union {NoDevice}, first : BOOLEAN,
           here : SUBSET Device, session : Nat, stop : -1..MaxTime]

Entry(kind, d, first) ==
    [t |-> now, kind |-> kind, dev |-> d, first |-> first,
     here |-> IF kind = "disconnect" THEN attached \ {d} ELSE attached \union ({d} \cap Device),
     session |-> session, stop |-> died]

LastOf(S) == CHOOSE i \in S : \A j \in S : j <= i

Of(d) == {i \in DOMAIN log : log[i].dev = d /\ log[i].kind # "fault"}

Room(n) == Len(log) + n <= habit.room

HostInit ==
    /\ habit \in Habits
    /\ now = 0 /\ session = 1 /\ host = "on" /\ died = -1
    /\ pending = <<>> /\ log = <<>>
    /\ attached \in SUBSET habit.sticks /\ noticed = attached /\ (habit.files > 0 => attached = {})

\* Time passes on a host that records it, but a boot notices the ports in the
\* instant it looks at them.  How long a host is off does not matter, only that
\* it is longer than the tolerance: Boot sets the clock on.
Tick ==
    /\ now < MaxTime /\ host \in {"on", "booting"}
    /\ host = "booting" /\ pending = <<>> => noticed = attached
    /\ now' = now + 1
    /\ UNCHANGED <<habit, host, session, attached, noticed, died, pending, log>>

Write(kind, d, first) == Room(1) /\ log' = Append(log, Entry(kind, d, first))

Plug(d) ==
    /\ host = "on" /\ d \notin attached
    /\ attached' = attached \union {d} /\ noticed' = noticed \union {d}
    /\ Write("connect", d, TRUE)
    /\ UNCHANGED <<habit, now, host, session, died, pending>>

\* Another channel records the change it has just seen, within the tolerance of
\* the first record of it and before the next change.
Echo(d) ==
    /\ host = "on" /\ habit.chatter
    /\ \E i \in Of(d) :
          /\ log[i].first /\ now - log[i].t <= Tolerance
          /\ \A j \in Of(d) : j > i => log[j].kind = log[i].kind
          /\ (log[i].kind = "connect") = (d \in attached)
          /\ Write(log[i].kind, d, FALSE)
    /\ UNCHANGED <<habit, now, host, session, attached, noticed, died, pending>>

Unplug(d) ==
    /\ host = "on" /\ d \in attached
    /\ attached' = attached \ {d} /\ noticed' = noticed \ {d}
    /\ \/ Write("disconnect", d, TRUE)
       \/ habit.lostDeparture /\ UNCHANGED log
    /\ UNCHANGED <<habit, now, host, session, died, pending>>

\* A device pulled from, or put into, a host that is not running is recorded by
\* nothing until the host is.
MoveUnseen(d) ==
    /\ host \in {"off", "asleep"}
    /\ attached' = IF d \in attached THEN attached \ {d} ELSE attached \union {d}
    /\ UNCHANGED <<habit, now, host, session, noticed, died, pending, log>>

\* Kernel-PnP 420 with a problem code other than 45: a fault on a device that is
\* still there.
Fault(d) ==
    /\ host = "on" /\ habit.chatter /\ d \in attached
    /\ Write("fault", d, FALSE)
    /\ UNCHANGED <<habit, now, host, session, attached, noticed, died, pending>>

\* Anything else a running host records, the daily uptime report among them.
Activity ==
    /\ host = "on" /\ habit.chatter
    /\ Write("running", NoDevice, FALSE)
    /\ UNCHANGED <<habit, now, host, session, attached, noticed, died, pending>>

\* Not in the instant of another record.
Sleep ==
    /\ host = "on" /\ host' = "asleep"
    /\ log # <<>> => now > log[Len(log)].t
    /\ Write("slept", NoDevice, FALSE)
    /\ UNCHANGED <<habit, now, session, attached, noticed, died, pending>>

\* A resume, after which the host records the devices that went and came while it
\* slept.
Wake ==
    /\ host = "asleep" /\ host' = "booting"
    /\ Write("woke", NoDevice, FALSE)
    /\ UNCHANGED <<habit, now, session, attached, noticed, died, pending>>

\* A clean shutdown, with the devices still in their ports: no departure.  It
\* takes time, so it is dated after any arrival.
Shutdown ==
    /\ host = "on" /\ host' = "off"
    /\ \A i \in DOMAIN log : log[i].kind = "connect" => log[i].t < now
    /\ Write("stopped", NoDevice, FALSE)
    /\ noticed' = {}
    /\ UNCHANGED <<habit, now, session, attached, died, pending>>

\* Power is lost, awake or asleep, and nothing records it.
Crash ==
    /\ host \in {"on", "asleep"} /\ host' = "off"
    /\ ~habit.quietCrash =>
          \A d \in Device : Of(d) # {} =>
             LET l == LastOf(Of(d)) IN
             log[l].kind = "connect" => \E j \in DOMAIN log : log[j].t > log[l].t
    /\ died' = now /\ noticed' = {}
    /\ UNCHANGED <<habit, now, session, attached, pending, log>>

\* The next boot, later than the tolerance.  It writes its start, and the report
\* of the stop it found.
Boot ==
    /\ host = "off" /\ host' = "booting"
    /\ now' = now + Tolerance + 1 /\ now' <= MaxTime
    /\ session' = session + 1
    /\ LET report == IF died >= 0 THEN <<"unexpected">> ELSE <<>> IN
         \/ pending' = <<"started">> \o report
         \/ habit.twoStarts /\ pending' = <<"started">> \o report \o <<"started">>
         \/ habit.lateReport /\ pending' = <<"started", "started">> \o report
         \/ habit.lostStart /\ pending' = report
    /\ UNCHANGED <<habit, attached, noticed, died, log>>

\* The boot writes its next record, a second start later than what went before.
BootWrites ==
    /\ host = "booting" /\ pending # <<>>
    /\ log # <<>> /\ Head(pending) = "started" => now > log[Len(log)].t
    /\ Write(Head(pending), NoDevice, FALSE)
    /\ pending' = Tail(pending)
    /\ died' = IF Head(pending) = "unexpected" THEN -1 ELSE died
    /\ UNCHANGED <<habit, now, host, session, attached, noticed>>

\* Then it records each device it finds in a port, and, after a resume, each
\* that has gone.
BootNotices(d) ==
    /\ host = "booting" /\ pending = <<>>
    /\ \/ d \in attached \ noticed /\ noticed' = noticed \union {d} /\ Write("connect", d, TRUE)
       \/ d \in noticed \ attached /\ noticed' = noticed \ {d} /\ Write("disconnect", d, TRUE)
    /\ UNCHANGED <<habit, now, host, session, attached, died, pending>>

BootEnds ==
    /\ host = "booting" /\ pending = <<>> /\ noticed = attached
    /\ host' = "on"
    /\ UNCHANGED <<habit, now, session, attached, noticed, died, pending, log>>

HostNext ==
    \/ Tick \/ Activity \/ Sleep \/ Wake \/ Shutdown \/ Crash \/ Boot \/ BootWrites \/ BootEnds
    \/ \E d \in habit.sticks : Plug(d) \/ Echo(d) \/ Unplug(d) \/ MoveUnseen(d) \/ Fault(d) \/ BootNotices(d)

HostTypeOK ==
    /\ habit \in Habits
    /\ now \in 0..MaxTime /\ session \in Nat
    /\ host \in {"on", "asleep", "off", "booting"}
    /\ attached \subseteq Device /\ noticed \subseteq Device
    /\ died \in -1..MaxTime
    /\ log \in Seq(Record) /\ Len(log) <= MaxLog
=============================================================================
