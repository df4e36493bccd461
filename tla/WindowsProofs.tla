---------------------------- MODULE WindowsProofs ----------------------------
(***************************************************************************)
(* What holds of the windows read out of any log that any host may write:   *)
(* for every number of devices, every tolerance and every habit.            *)
(***************************************************************************)
EXTENDS Attribution, FiniteSetTheorems, WellFoundedInduction, TLAPS

-----------------------------------------------------------------------------
(* The least and the greatest of a set of numbers.                          *)

\* A finite set of numbers that is not empty has a least element: of the sets of what is at
\* or below one of them some is within no other, and holds only the one.
LEMMA LeastExists ==
  ASSUME NEW S \in SUBSET Int, IsFiniteSet(S), S # {}
  PROVE  \E x \in S : \A y \in S : x <= y
<1> DEFINE below(x) == {y \in S : y <= x}
           family == {below(x) : x \in S}
<1>1. \A x \in S : IsFiniteSet(below(x))
  BY FS_Subset
<1>2. family \subseteq FiniteSubsetsOf(S) /\ family # {}
  BY <1>1 DEF FiniteSubsetsOf
<1> HIDE DEF family
<1>3. PICK T \in family : \A U \in family : <<U, T>> \notin StrictSubsetOrdering(S)
  BY <1>2, FS_StrictSubsetOrderingWellFounded, WFMin
<1>4. PICK x \in S : T = below(x)
  BY <1>3 DEF family
<1>5. ASSUME NEW y \in S, y < x
      PROVE  FALSE
  <2>1. below(y) \in family
    BY DEF family
  <2>a. x \in Int /\ y \in Int /\ \A z \in S : z \in Int
    OBVIOUS
  <2>b. \A z \in S : z <= y => z <= x
    BY <1>5, <2>a
  <2>c. x <= x /\ ~(x <= y)
    BY <1>5, <2>a
  <2>2. below(y) \subseteq below(x) /\ x \in below(x) /\ x \notin below(y)
    BY <2>b, <2>c, Zenon
  <2>3. <<below(y), below(x)>> \in StrictSubsetOrdering(S)
    BY <2>2 DEF StrictSubsetOrdering
  <2> QED BY <1>3, <1>4, <2>1, <2>3
<1> QED BY <1>5

\* And a greatest, by the sets of what is at or above one.
LEMMA GreatestExists ==
  ASSUME NEW S \in SUBSET Int, IsFiniteSet(S), S # {}
  PROVE  \E x \in S : \A y \in S : x >= y
<1> DEFINE above(x) == {y \in S : y >= x}
           family == {above(x) : x \in S}
<1>1. \A x \in S : IsFiniteSet(above(x))
  BY FS_Subset
<1>2. family \subseteq FiniteSubsetsOf(S) /\ family # {}
  BY <1>1 DEF FiniteSubsetsOf
<1> HIDE DEF family
<1>3. PICK T \in family : \A U \in family : <<U, T>> \notin StrictSubsetOrdering(S)
  BY <1>2, FS_StrictSubsetOrderingWellFounded, WFMin
<1>4. PICK x \in S : T = above(x)
  BY <1>3 DEF family
<1>5. ASSUME NEW y \in S, y > x
      PROVE  FALSE
  <2>1. above(y) \in family
    BY DEF family
  <2>a. x \in Int /\ y \in Int /\ \A z \in S : z \in Int
    OBVIOUS
  <2>b. \A z \in S : z >= y => z >= x
    BY <1>5, <2>a
  <2>c. x >= x /\ ~(x >= y)
    BY <1>5, <2>a
  <2>2. above(y) \subseteq above(x) /\ x \in above(x) /\ x \notin above(y)
    BY <2>b, <2>c, Zenon
  <2>3. <<above(y), above(x)>> \in StrictSubsetOrdering(S)
    BY <2>2 DEF StrictSubsetOrdering
  <2> QED BY <1>3, <1>4, <2>1, <2>3
<1> QED BY <1>5

\* What MinOf picks.
LEMMA MinOfPicks ==
  ASSUME NEW S \in SUBSET Int, IsFiniteSet(S)
  PROVE  /\ S # {} => MinOf(S) \in S /\ \A y \in S : MinOf(S) <= y
         /\ S = {} => MinOf(S) = Null
<1>1. ASSUME S # {} PROVE \E x \in S : \A y \in S : x =< y
  BY <1>1, LeastExists
<1> QED BY <1>1 DEF MinOf, Min, Null

\* What MaxOf picks.
LEMMA MaxOfPicks ==
  ASSUME NEW S \in SUBSET Int, IsFiniteSet(S)
  PROVE  /\ S # {} => MaxOf(S) \in S /\ \A y \in S : MaxOf(S) >= y
         /\ S = {} => MaxOf(S) = Null
<1>1. ASSUME S # {} PROVE \E x \in S : \A y \in S : x >= y
  BY <1>1, GreatestExists
<1> QED BY <1>1 DEF MaxOf, Max, Null

-----------------------------------------------------------------------------
(* The invariant.  The parts of Host hold of every host; those of Recorded   *)
(* only of one that records every change it sees.                            *)

Kind(i) == log[i].kind
SessionOf(i) == log[i].session
FirstOf(i) == log[i].first
HereAt(i) == log[i].here
StopOf(i) == log[i].stop

Typed == HostTypeOK /\ pending \in Seq({"started", "unexpected"}) /\ session >= 1

\* What a host that is on, or off, knows of its ports, and when a boot has records to write.
Ports ==
  /\ host = "on" => noticed = attached
  /\ host = "off" => noticed = {}
  /\ host # "booting" => pending = <<>>
  /\ pending # <<>> => noticed = {}

\* A device is named by the records about devices; it is not in its port where it went.
Kinds ==
  \A i \in DOMAIN log :
    /\ log[i].dev \in Device <=> Kind(i) \in DeviceKind
    /\ Kind(i) = "disconnect" => log[i].dev \notin log[i].here

\* Records are in order, and those of two boots lie further apart than the tolerance.
Ordered ==
  \A i \in DOMAIN log :
    /\ Time(i) <= now /\ 1 <= SessionOf(i) /\ SessionOf(i) <= session
    /\ SessionOf(i) < session => Time(i) + Tolerance < now
    /\ \A j \in DOMAIN log : i <= j =>
         /\ Time(i) <= Time(j) /\ SessionOf(i) <= SessionOf(j)
         /\ SessionOf(i) < SessionOf(j) => Time(i) + Tolerance < Time(j)

\* A boot has one stop to report at most; before its report it has written nothing but starts.
Owed == \E m \in DOMAIN pending : pending[m] = "unexpected"
Boots ==
  /\ \A m, n \in DOMAIN pending : pending[m] = "unexpected" /\ pending[n] = "unexpected" => m = n
  /\ Owed => \A k \in DOMAIN log : SessionOf(k) = session => Kind(k) = "started"
  /\ \A u, k \in DOMAIN log :
       Kind(u) = "unexpected" /\ k < u /\ SessionOf(k) = SessionOf(u) => Kind(k) = "started"

\* A session was shut down after every arrival in it; or it stopped, after something later
\* than any arrival that nothing followed, and the next boot has the report to write.
ShutDown(s) ==
  \E j \in DOMAIN log :
    /\ Kind(j) = "stopped" /\ SessionOf(j) = s
    /\ \A i \in DOMAIN log : Kind(i) = "connect" /\ SessionOf(i) = s => Time(i) < Time(j)
Outlasted(s) ==
  \A i \in DOMAIN log : Kind(i) = "connect" /\ SessionOf(i) = s =>
    \/ \E n \in DOMAIN log : n > i /\ log[n].dev = log[i].dev /\ Kind(n) = "disconnect"
    \/ \E j \in DOMAIN log : SessionOf(j) <= s /\ Time(j) > Time(i)
Reported(s) ==
  \/ \E u \in DOMAIN log : Kind(u) = "unexpected" /\ SessionOf(u) = s + 1
  \/ s + 1 = session /\ host = "booting" /\ Owed
  \/ s = session /\ host = "off" /\ died >= 0
Over(s) == s < session \/ (s = session /\ host = "off")
SessionsEnd == \A s \in 1..session : Over(s) => ShutDown(s) \/ (Outlasted(s) /\ Reported(s))

\* The latest record of a device's comings and goings: it came, and in this session, where
\* the host knows the device to be in its port.
Latest(d, l) == l \in Of(d) /\ \A j \in Of(d) : j <= l
Noted ==
  \A d \in Device, l \in DOMAIN log : Latest(d, l) =>
    /\ d \in noticed => Kind(l) = "connect" /\ SessionOf(l) = session
    /\ d \notin noticed /\ host # "off" => Kind(l) = "disconnect" \/ SessionOf(l) < session

\* A record is the first of its change exactly where it opens a cluster, and a device goes
\* in the session it came in.
Precedes(d, p, i) == p \in Of(d) /\ p < i /\ \A q \in Of(d) : q < i => q <= p
Firsts ==
  \A d \in Device, i \in DOMAIN log : i \in Of(d) =>
    /\ FirstOf(i) <=>
         \A p \in DOMAIN log : Precedes(d, p, i) => Kind(p) # Kind(i) \/ Time(i) - Time(p) > Tolerance
    /\ Kind(i) = "disconnect" => \A p \in DOMAIN log : Precedes(d, p, i) => SessionOf(p) = SessionOf(i)

\* A report comes straight after the boot's start, which everything before it, the stop
\* included, is earlier than; and every later start is later than the report.
AfterStart(s, u) ==
  /\ u = s + 1 /\ StopOf(u) >= 0
  /\ Kind(s) = "started" /\ SessionOf(s) = SessionOf(u) /\ Time(s) > StopOf(u)
  /\ \A k \in DOMAIN log : k < s => Time(k) <= StopOf(u) /\ SessionOf(k) < SessionOf(u)
  /\ \A k \in DOMAIN log : k > u /\ Kind(k) \in {"started", "woke"} => Time(k) > Time(u)
Reports == \A u \in DOMAIN log : Kind(u) = "unexpected" => \E s \in DOMAIN log : AfterStart(s, u)

\* The stop nobody reported: everything recorded before it, and what the boot is to write,
\* after its start at first and then straight after the start it wrote.
StartToCome ==
  /\ Len(pending) >= 2 /\ pending[1] = "started" /\ pending[2] = "unexpected" /\ died < now
  /\ \A k \in DOMAIN log : Time(k) <= died /\ SessionOf(k) < session
StartWritten(n) ==
  /\ Kind(n) = "started" /\ SessionOf(n) = session /\ Time(n) > died
  /\ \A k \in DOMAIN log : k # n => k < n /\ Time(k) <= died /\ SessionOf(k) < session
Unreported ==
  /\ host \in {"on", "asleep"} => died = -1
  /\ died = -1 => ~Owed
  /\ died >= 0 /\ host = "off" => \A k \in DOMAIN log : Time(k) <= died
  /\ died >= 0 /\ host \in {"off", "booting"} => died <= now
  /\ died >= 0 /\ host = "booting" =>
       \/ StartToCome
       \/ Len(pending) >= 1 /\ pending[1] = "unexpected" /\ \E n \in DOMAIN log : StartWritten(n)

\* While the host sleeps it is later than its last record but the one of falling asleep.
Asleep ==
  host = "asleep" => \A u \in DOMAIN log : Kind(u) = "unexpected" => Time(u) < now

\* A record of the session a device came in was made with the device there, but for those
\* that a waking host writes before it notices that the device has gone.
Present(d, k) ==
  \/ d \in HereAt(k)
  \/ \E n \in Of(d) : n > k /\ Kind(n) = "disconnect" /\ Time(n) = Time(k)
  \/ host = "booting" /\ d \in noticed \ attached /\ Time(k) = now
Attended ==
  \A d \in Device, k, i \in DOMAIN log :
    /\ i \in Of(d) /\ i <= k /\ \A j \in Of(d) : j <= k => j <= i
    /\ Kind(i) = "connect" /\ SessionOf(i) = SessionOf(k)
    => Present(d, k)

Host == Typed /\ Ports /\ Kinds /\ Ordered /\ Boots
Recorded == Noted /\ Firsts /\ Reports /\ Unreported /\ Asleep /\ Attended
IInv == Host /\ (AllRecorded => Recorded)

-----------------------------------------------------------------------------
(* Steps.                                                                   *)

\* Opening files and handing out letters leaves the host as it is, or goes with a step of it.
LEMMA StepsOfTheHost ==
  ASSUME [Next]_vars
  PROVE  HostNext \/ UNCHANGED hostVars
<1>1. CASE Elsewhere /\ UNCHANGED filesVars
  BY <1>1 DEF Elsewhere, HostNext
<1>2. CASE ShutdownFlushes \/ CrashLoses
  BY <1>2 DEF ShutdownFlushes, CrashLoses, HostNext
<1>3. ASSUME NEW d \in habit.sticks, Arrive(d) \/ Notice(d) \/ Open(d)
      PROVE  HostNext \/ UNCHANGED hostVars
  BY <1>3 DEF Arrive, Notice, Open, HostNext
<1>4. CASE UNCHANGED vars
  BY <1>4 DEF vars
<1> QED BY <1>1, <1>2, <1>3, <1>4 DEF Next

\* The parts of a sequence that is not empty.
LEMMA HeadAndTail ==
  ASSUME NEW S, NEW s \in Seq(S), s # <<>>
  PROVE  /\ Head(s) = s[1] /\ Head(s) \in S /\ Tail(s) \in Seq(S) /\ Len(s) >= 1
         /\ Len(Tail(s)) = Len(s) - 1 /\ \A m \in DOMAIN Tail(s) : Tail(s)[m] = s[m + 1]
OBVIOUS

\* The record e is written as the n-th, behind those that are there.
Written(n, e) ==
  /\ n = Len(log) + 1 /\ n \in Nat /\ n >= 1
  /\ Len(log)' = n /\ DOMAIN log' = DOMAIN log \cup {n} /\ log'[n] = e
  /\ \A i \in DOMAIN log : i \in Nat /\ i >= 1 /\ i < n /\ log'[i] = log[i]

\* To append is to write behind what is there.
LEMMA AppendWrites ==
  ASSUME log \in Seq(Record), NEW e, log' = Append(log, e)
  PROVE  \E n : Written(n, e)
<1>1. Len(log) + 1 \in Nat
  OBVIOUS
<1>2. PICK n \in Nat : n = Len(log) + 1
  BY <1>1
<1>3. Written(n, e)
  BY <1>2 DEF Written
<1> QED BY <1>3

\* What any step does to the clock, the sessions and the log.
Named(kind, d) == (kind \in HostKind /\ d = NoDevice) \/ (kind \in DeviceKind /\ d \in Device)
Silent ==
  /\ log' = log
  /\ \/ session' = session
     \/ session' = session + 1 /\ host = "off" /\ host' = "booting" /\ now' = now + Tolerance + 1
Writing == now' = now /\ session' = session /\ habit' = habit /\
  \E kind, d, first : first \in BOOLEAN /\ Named(kind, d) /\ Write(kind, d, first)
Shape ==
  /\ habit' = habit /\ now' \in 0..MaxTime /\ now' >= now
  /\ Silent \/ Writing

\* A step that writes one record and moves neither the clock nor the session.
LEMMA WritesShape ==
  ASSUME NEW kind, NEW d, NEW first \in BOOLEAN, Named(kind, d), Write(kind, d, first),
         now \in 0..MaxTime, MaxTime \in Nat, now' = now, session' = session, habit' = habit
  PROVE  Shape
BY DEF Shape, Writing, Write

\* Every step of a host has this shape.
LEMMA Shapes ==
  ASSUME Typed, Kinds, HostNext
  PROVE  Shape
<1> USE HostAssumption
<1>a. now \in 0..MaxTime /\ session \in Nat /\ log \in Seq(Record) /\ MaxTime \in Nat /\ Tolerance \in Nat
  BY DEF Typed, HostTypeOK
<1>b. habit.sticks \subseteq Device
  BY DEF Typed, HostTypeOK
<1>1. CASE Tick
  BY <1>1, <1>a DEF Tick, Shape, Silent
<1>2. CASE Activity
  <2>1. Named("running", NoDevice)
    BY <1>b DEF Named, HostKind
  <2> QED BY <1>2, <2>1, <1>a, WritesShape DEF Activity
<1>3. CASE Sleep
  <2>1. Named("slept", NoDevice)
    BY <1>b DEF Named, HostKind
  <2> QED BY <1>3, <2>1, <1>a, WritesShape DEF Sleep
<1>4. CASE Wake
  <2>1. Named("woke", NoDevice)
    BY <1>b DEF Named, HostKind
  <2> QED BY <1>4, <2>1, <1>a, WritesShape DEF Wake
<1>5. CASE Shutdown
  <2>1. Named("stopped", NoDevice)
    BY <1>b DEF Named, HostKind
  <2> QED BY <1>5, <2>1, <1>a, WritesShape DEF Shutdown
<1>6. CASE Crash
  BY <1>6, <1>a DEF Crash, Shape, Silent
<1>7. CASE Boot
  <2>1. host = "off" /\ host' = "booting" /\ now' = now + Tolerance + 1 /\ now' <= MaxTime
        /\ session' = session + 1 /\ habit' = habit /\ log' = log
    BY <1>7 DEF Boot
  <2> QED BY <2>1, <1>a DEF Shape, Silent
<1>8. CASE BootWrites
  <2>1. Head(pending) \in HostKind
    BY <1>8, HeadAndTail DEF BootWrites, Typed, HostKind
  <2>2. Named(Head(pending), NoDevice)
    BY <2>1 DEF Named
  <2> QED BY <1>8, <2>2, <1>a, WritesShape DEF BootWrites
<1>9. CASE BootEnds
  BY <1>9, <1>a DEF BootEnds, Shape, Silent
<1>10. ASSUME NEW d \in habit.sticks, Plug(d) PROVE Shape
  <2>1. Named("connect", d)
    BY <1>b DEF Named, DeviceKind
  <2> QED BY <1>10, <2>1, <1>a, WritesShape DEF Plug
<1>11. ASSUME NEW d \in habit.sticks, Echo(d) PROVE Shape
  <2>1. PICK i \in Of(d) : Write(log[i].kind, d, FALSE)
    BY <1>11 DEF Echo
  <2>2. log[i].kind \in DeviceKind
    BY <1>b DEF Of, Kinds, Kind
  <2>3. Named(log[i].kind, d)
    BY <2>2, <1>b DEF Named
  <2> QED BY <1>11, <2>1, <2>3, <1>a, WritesShape DEF Echo
<1>12. ASSUME NEW d \in habit.sticks, Unplug(d) PROVE Shape
  <2>1. Named("disconnect", d)
    BY <1>b DEF Named, DeviceKind
  <2>2. CASE Write("disconnect", d, TRUE)
    BY <1>12, <2>1, <2>2, <1>a, WritesShape DEF Unplug
  <2>3. CASE UNCHANGED log
    BY <1>12, <2>3, <1>a DEF Unplug, Shape, Silent
  <2> QED BY <1>12, <2>2, <2>3 DEF Unplug
<1>13. ASSUME NEW d \in habit.sticks, MoveUnseen(d) PROVE Shape
  BY <1>13, <1>a DEF MoveUnseen, Shape, Silent
<1>14. ASSUME NEW d \in habit.sticks, Fault(d) PROVE Shape
  <2>1. Named("fault", d)
    BY <1>b DEF Named, DeviceKind
  <2> QED BY <1>14, <2>1, <1>a, WritesShape DEF Fault
<1>15. ASSUME NEW d \in habit.sticks, BootNotices(d) PROVE Shape
  <2>1. Named("connect", d) /\ Named("disconnect", d)
    BY <1>b DEF Named, DeviceKind
  <2>2. Write("connect", d, TRUE) \/ Write("disconnect", d, TRUE)
    BY <1>15 DEF BootNotices
  <2> QED BY <1>15, <2>1, <2>2, <1>a, WritesShape DEF BootNotices
<1> QED BY <1>1, <1>2, <1>3, <1>4, <1>5, <1>6, <1>7, <1>8, <1>9, <1>10, <1>11, <1>12, <1>13, <1>14,
           <1>15 DEF HostNext

\* The record a step writes: one more, of now and of this session.
Fit(e) ==
  /\ e \in Record /\ e.t = now /\ e.session = session
  /\ e.dev \in Device <=> e.kind \in DeviceKind
  /\ e.kind = "disconnect" => e.dev \notin e.here

\* A step that writes, writes one record that fits.
LEMMA WritesOne ==
  ASSUME Typed, Writing
  PROVE  \E n, e : log' = Append(log, e) /\ Written(n, e) /\ Fit(e)
<1> USE HostAssumption
<1>1. PICK kind, d, first : first \in BOOLEAN /\ Named(kind, d) /\ Write(kind, d, first)
  BY DEF Writing
<1> DEFINE e == Entry(kind, d, first)
<1>2. log \in Seq(Record) /\ log' = Append(log, e)
  BY <1>1 DEF Write, Typed, HostTypeOK
<1>3. PICK n : Written(n, e)
  BY <1>2, AppendWrites
<1>4. /\ now \in 0..MaxTime /\ session \in Nat /\ died \in -1..MaxTime /\ attached \subseteq Device
      /\ kind \in HostKind \cup DeviceKind /\ d \in Device \cup {NoDevice}
  BY <1>1 DEF Typed, HostTypeOK, Named
<1>5. /\ e.t = now /\ e.kind = kind /\ e.dev = d /\ e.session = session
      /\ e.here = IF kind = "disconnect" THEN attached \ {d} ELSE attached \cup ({d} \cap Device)
  BY DEF Entry
<1>6. e \in Record
  BY <1>1, <1>4 DEF Record, Entry
<1>7. d \in Device <=> kind \in DeviceKind
  BY <1>1 DEF Named, HostKind, DeviceKind
<1> HIDE DEF e
<1>8. Fit(e)
  BY <1>5, <1>6, <1>7 DEF Fit
<1> QED BY <1>2, <1>3, <1>8

-----------------------------------------------------------------------------
(* What holds of every host.                                                *)

\* The records and their times are finite in number.
LEMMA LogFacts ==
  ASSUME Typed
  PROVE  /\ DOMAIN log = 1..Len(log) /\ Len(log) \in Nat /\ IsFiniteSet(DOMAIN log)
         /\ MaxTime \in Nat /\ Tolerance \in Nat /\ now \in 0..MaxTime
         /\ \A i \in DOMAIN log : /\ log[i] \in Record /\ Time(i) \in 0..MaxTime
                                  /\ SessionOf(i) \in Nat /\ i \in Nat /\ i >= 1
         /\ \A S \in SUBSET DOMAIN log : S \in SUBSET Int /\ IsFiniteSet(S)
         /\ \A S \in SUBSET (-1..MaxTime) : S \in SUBSET Int /\ IsFiniteSet(S)
<1> USE HostAssumption
<1>1. log \in Seq(Record) /\ now \in 0..MaxTime
  BY DEF Typed, HostTypeOK
<1>2. DOMAIN log = 1..Len(log) /\ Len(log) \in Nat /\ IsFiniteSet(DOMAIN log)
  BY <1>1, FS_Interval
<1>3. \A i \in DOMAIN log : log[i] \in Record /\ i \in Nat /\ i >= 1
  BY <1>1
<1>4. \A i \in DOMAIN log : Time(i) \in 0..MaxTime /\ SessionOf(i) \in Nat
  BY <1>3 DEF Record, Time, SessionOf
<1>5. \A S \in SUBSET DOMAIN log : S \in SUBSET Int /\ IsFiniteSet(S)
  BY <1>2, FS_Subset
<1>6. IsFiniteSet(-1..MaxTime) /\ MaxTime \in Nat /\ Tolerance \in Nat
  BY FS_Interval
<1>7. ASSUME NEW S \in SUBSET (-1..MaxTime)
      PROVE  S \in SUBSET Int /\ IsFiniteSet(S)
  <2>1. IsFiniteSet(S)
    BY <1>6, FS_Subset
  <2>2. -1..MaxTime \subseteq Int
    BY <1>6
  <2> QED BY <2>1, <2>2
<1> QED BY <1>1, <1>2, <1>3, <1>4, <1>5, <1>6, <1>7

\* Two sequences one after the other.
LEMMA Concatenated ==
  ASSUME NEW S, NEW s \in Seq(S), NEW u \in Seq(S)
  PROVE  /\ s \o u \in Seq(S) /\ Len(s \o u) = Len(s) + Len(u)
         /\ \A i \in 1..Len(s) : (s \o u)[i] = s[i]
         /\ \A i \in 1..Len(u) : (s \o u)[Len(s) + i] = u[i]
OBVIOUS

\* A short sequence is the tuple of what it holds.
LEMMA Tuples ==
  ASSUME NEW S, NEW t \in Seq(S)
  PROVE  (Len(t) = 2 => t = <<t[1], t[2]>>) /\ (Len(t) = 3 => t = <<t[1], t[2], t[3]>>)
OBVIOUS

\* A state, then an event.
LEMMA OneAndOne ==
  ASSUME NEW S, NEW a \in S, NEW b \in S
  PROVE  <<a>> \o <<b>> = <<a, b>>
<1> DEFINE s == <<a>>  u == <<b>>  t == s \o u
<1>1. s \in Seq(S) /\ u \in Seq(S) /\ Len(s) = 1 /\ Len(u) = 1 /\ s[1] = a /\ u[1] = b
  OBVIOUS
<1> HIDE DEF s, u
<1>2. t \in Seq(S) /\ Len(t) = 2 /\ t[1] = a /\ t[2] = b
  BY <1>1, Concatenated
<1> HIDE DEF t
<1>3. t = <<a, b>>
  BY <1>2, Tuples
<1> QED BY <1>3 DEF s, u, t

\* Two states, then an event.
LEMMA TwoAndOne ==
  ASSUME NEW S, NEW a \in S, NEW b \in S, NEW c \in S
  PROVE  <<a, b>> \o <<c>> = <<a, b, c>>
<1> DEFINE s == <<a, b>>  u == <<c>>  t == s \o u
<1>1. s \in Seq(S) /\ u \in Seq(S) /\ Len(s) = 2 /\ Len(u) = 1 /\ s[1] = a /\ s[2] = b /\ u[1] = c
  OBVIOUS
<1> HIDE DEF s, u
<1>a. /\ t \in Seq(S) /\ Len(t) = Len(s) + Len(u)
      /\ \A i \in 1..Len(s) : t[i] = s[i]
      /\ \A i \in 1..Len(u) : t[Len(s) + i] = u[i]
  <2>1. s \in Seq(S) /\ u \in Seq(S)
    BY <1>1
  <2> QED BY <2>1, Concatenated
<1>2. t \in Seq(S) /\ Len(t) = 3 /\ t[1] = a /\ t[2] = b /\ t[3] = c
  <2> HIDE DEF t
  <2> QED BY <1>1, <1>a
<1> HIDE DEF t
<1>3. t = <<a, b, c>>
  BY <1>2, Tuples
<1> QED BY <1>3 DEF s, u, t

\* The records a boot has to write, put together.
LEMMA Joined ==
  /\ <<"started">> \o <<"unexpected">> = <<"started", "unexpected">>
  /\ <<"started", "unexpected">> \o <<"started">> = <<"started", "unexpected", "started">>
  /\ <<"started", "started">> \o <<"unexpected">> = <<"started", "started", "unexpected">>
  /\ <<"started">> \o <<>> = <<"started">>
  /\ <<"started">> \o <<"started">> = <<"started", "started">>
  /\ <<"started", "started">> \o <<>> = <<"started", "started">>
<1> DEFINE S == {"started", "unexpected"}
<1>1. "started" \in S /\ "unexpected" \in S
  OBVIOUS
<1>2. <<"started">> \o <<>> = <<"started">>
  OBVIOUS
<1>3. <<"started", "started">> \o <<>> = <<"started", "started">>
  OBVIOUS
<1> HIDE DEF S
<1>4. <<"started">> \o <<"unexpected">> = <<"started", "unexpected">>
  BY <1>1, OneAndOne
<1>5. <<"started">> \o <<"started">> = <<"started", "started">>
  BY <1>1, OneAndOne
<1>6. <<"started", "unexpected">> \o <<"started">> = <<"started", "unexpected", "started">>
  BY <1>1, TwoAndOne
<1>7. <<"started", "started">> \o <<"unexpected">> = <<"started", "started", "unexpected">>
  BY <1>1, TwoAndOne
<1> QED BY <1>2, <1>3, <1>4, <1>5, <1>6, <1>7

\* They are starts and reports.
LEMMA JoinedType ==
  ASSUME NEW p \in {<<"started", "unexpected">>, <<"started", "unexpected", "started">>,
                    <<"started", "started", "unexpected">>, <<"unexpected">>, <<"started">>,
                    <<"started", "started">>, <<>>}
  PROVE  p \in Seq({"started", "unexpected"})
<1>1. <<"started", "unexpected">> \in Seq({"started", "unexpected"})
  OBVIOUS
<1>2. <<"started", "unexpected", "started">> \in Seq({"started", "unexpected"})
  OBVIOUS
<1>3. <<"started", "started", "unexpected">> \in Seq({"started", "unexpected"})
  OBVIOUS
<1>4. <<"unexpected">> \in Seq({"started", "unexpected"})
  OBVIOUS
<1>5. <<"started">> \in Seq({"started", "unexpected"})
  OBVIOUS
<1>6. <<"started", "started">> \in Seq({"started", "unexpected"})
  OBVIOUS
<1>7. <<>> \in Seq({"started", "unexpected"})
  OBVIOUS
<1> QED BY <1>1, <1>2, <1>3, <1>4, <1>5, <1>6, <1>7, Zenon

\* What a boot has to write: the report exactly where a stop was not reported.
LEMMA BootOwes ==
  ASSUME Boot, habit \in [twoStarts : BOOLEAN, lateReport : BOOLEAN, lostStart : BOOLEAN,
                          lostDeparture : BOOLEAN, quietCrash : BOOLEAN, chatter : BOOLEAN,
                          sticks : SUBSET Device, files : Nat, room : 0..MaxLog]
  PROVE  /\ died >= 0 =>
              \/ pending' \in {<<"started", "unexpected">>, <<"started", "unexpected", "started">>}
              \/ habit.lateReport /\ pending' = <<"started", "started", "unexpected">>
              \/ habit.lostStart /\ pending' = <<"unexpected">>
         /\ ~(died >= 0) =>
              \/ pending' \in {<<"started">>, <<"started", "started">>}
              \/ habit.lostStart /\ pending' = <<>>
<1>1. CASE died >= 0
  <2>1. \/ pending' = <<"started">> \o <<"unexpected">>
        \/ pending' = <<"started">> \o <<"unexpected">> \o <<"started">>
        \/ habit.lateReport /\ pending' = <<"started", "started">> \o <<"unexpected">>
        \/ habit.lostStart /\ pending' = <<"unexpected">>
    BY <1>1, Zenon DEF Boot
  <2> QED BY <1>1, <2>1, Joined
<1>2. CASE ~(died >= 0)
  <2>1. \/ pending' = <<"started">> \o <<>>
        \/ pending' = <<"started">> \o <<>> \o <<"started">>
        \/ habit.lateReport /\ pending' = <<"started", "started">> \o <<>>
        \/ habit.lostStart /\ pending' = <<>>
    BY <1>2, Zenon DEF Boot
  <2> QED BY <1>2, <2>1, Joined
<1> QED BY <1>1, <1>2

\* Types.
LEMMA TypedKeeps ==
  ASSUME Typed, Ports, Shape, HostNext
  PROVE  Typed'
<1> USE HostAssumption
<1>1. habit' \in Habits /\ now' \in 0..MaxTime
  BY DEF Shape, Typed, HostTypeOK
<1>2. session' \in Nat /\ session' >= 1
  <2>1. session' = session \/ session' = session + 1
    BY DEF Shape, Silent, Writing
  <2> QED BY <2>1 DEF Typed, HostTypeOK
<1>3. log' \in Seq(Record) /\ Len(log') <= MaxLog
  <2>1. CASE Silent
    BY <2>1 DEF Silent, Typed, HostTypeOK
  <2>2. CASE Writing
    <3>1. PICK n, e : log' = Append(log, e) /\ Written(n, e) /\ Fit(e)
      BY <2>2, WritesOne
    <3>2. Len(log) + 1 <= habit.room
      BY <2>2 DEF Writing, Write, Room
    <3>3. habit.room \in 0..MaxLog /\ log \in Seq(Record) /\ e \in Record
      BY <3>1 DEF Fit, Typed, HostTypeOK
    <3> QED BY <3>1, <3>2, <3>3
  <2> QED BY <2>1, <2>2 DEF Shape
<1>4. /\ host' \in {"on", "asleep", "off", "booting"} /\ attached' \subseteq Device
      /\ noticed' \subseteq Device /\ died' \in -1..MaxTime /\ pending' \in Seq({"started", "unexpected"})
  <2>a. /\ host \in {"on", "asleep", "off", "booting"} /\ attached \subseteq Device
        /\ noticed \subseteq Device /\ died \in -1..MaxTime /\ now \in 0..MaxTime
        /\ pending \in Seq({"started", "unexpected"}) /\ habit.sticks \subseteq Device
    BY DEF Typed, HostTypeOK
  <2>1. CASE Tick
    BY <2>1, <2>a DEF Tick
  <2>2. CASE Activity
    BY <2>2, <2>a DEF Activity
  <2>3. CASE Sleep
    BY <2>3, <2>a DEF Sleep
  <2>4. CASE Wake
    BY <2>4, <2>a DEF Wake
  <2>5. CASE Shutdown
    BY <2>5, <2>a DEF Shutdown
  <2>6. CASE Crash
    BY <2>6, <2>a DEF Crash
  <2>7. CASE Boot
    <3>1. /\ host' = "booting" /\ attached' = attached /\ noticed' = noticed /\ died' = died
      BY <2>7 DEF Boot
    <3>2. pending' \in {<<"started", "unexpected">>, <<"started", "unexpected", "started">>,
                        <<"started", "started", "unexpected">>, <<"unexpected">>, <<"started">>,
                        <<"started", "started">>, <<>>}
      BY <2>7, BootOwes DEF Typed, HostTypeOK
    <3>3. pending' \in Seq({"started", "unexpected"})
      BY <3>2, JoinedType
    <3> QED BY <3>1, <3>3, <2>a
  <2>8. CASE BootWrites
    <3>1. Tail(pending) \in Seq({"started", "unexpected"})
      BY <2>8, <2>a, HeadAndTail DEF BootWrites
    <3> QED BY <2>8, <3>1, <2>a DEF BootWrites
  <2>9. CASE BootEnds
    BY <2>9, <2>a DEF BootEnds
  <2>10. ASSUME NEW d \in habit.sticks, Plug(d) \/ Echo(d) \/ Unplug(d) \/ MoveUnseen(d) \/ Fault(d)
         PROVE  <1>4!:
    BY <2>10, <2>a DEF Plug, Echo, Unplug, MoveUnseen, Fault
  <2>11. ASSUME NEW d \in habit.sticks, BootNotices(d)
         PROVE  <1>4!:
    BY <2>11, <2>a DEF BootNotices
  <2> QED BY <2>1, <2>2, <2>3, <2>4, <2>5, <2>6, <2>7, <2>8, <2>9, <2>10, <2>11 DEF HostNext
<1> QED BY <1>1, <1>2, <1>3, <1>4 DEF Typed, HostTypeOK

\* What a host knows of its ports.
LEMMA PortsKeep ==
  ASSUME Typed, Ports, HostNext
  PROVE  Ports'
<1>a. host \in {"on", "asleep", "off", "booting"}
  BY DEF Typed, HostTypeOK
<1>1. CASE Tick \/ Activity \/ Sleep \/ Wake \/ Shutdown \/ Crash
  BY <1>1, <1>a DEF Ports, Tick, Activity, Sleep, Wake, Shutdown, Crash
<1>2. CASE Boot
  BY <1>2 DEF Ports, Boot
<1>3. CASE BootWrites \/ BootEnds
  BY <1>3 DEF Ports, BootWrites, BootEnds
<1>4. ASSUME NEW d \in habit.sticks, Plug(d) \/ Echo(d) \/ Unplug(d)
      PROVE  Ports'
  BY <1>4, <1>a DEF Ports, Plug, Echo, Unplug
<1>5. ASSUME NEW d \in habit.sticks, MoveUnseen(d) \/ Fault(d) \/ BootNotices(d)
      PROVE  Ports'
  BY <1>5, <1>a DEF Ports, MoveUnseen, Fault, BootNotices
<1> QED BY <1>1, <1>2, <1>3, <1>4, <1>5 DEF HostNext

\* What a record names.
LEMMA KindsKeep ==
  ASSUME Typed, Kinds, Shape
  PROVE  Kinds'
<1>1. CASE Silent
  BY <1>1 DEF Silent, Kinds, Kind
<1>2. CASE Writing
  <2>1. PICK n, e : Written(n, e) /\ Fit(e)
    BY <1>2, WritesOne
  <2> QED BY <2>1 DEF Written, Fit, Kinds, Kind
<1> QED BY <1>1, <1>2 DEF Shape

\* The order of the records.
LEMMA OrderedKeeps ==
  ASSUME Typed, Ordered, Shape
  PROVE  Ordered'
<1> USE HostAssumption
<1>a. /\ now \in Nat /\ now' \in Nat /\ now' >= now /\ session \in Nat /\ 1 <= session /\ Tolerance \in Nat
      /\ \A i \in DOMAIN log : log[i].t \in Nat /\ log[i].session \in Nat
  <2>1. now \in 0..MaxTime /\ session \in Nat /\ 1 <= session /\ log \in Seq(Record) /\ MaxTime \in Nat /\ Tolerance \in Nat
    BY DEF Typed, HostTypeOK
  <2>2. now' \in 0..MaxTime /\ now' >= now
    BY DEF Shape
  <2>3. \A i \in DOMAIN log : log[i] \in Record
    BY <2>1
  <2>4. \A i \in DOMAIN log : log[i].t \in 0..MaxTime /\ log[i].session \in Nat
    BY <2>3 DEF Record
  <2> QED BY <2>1, <2>2, <2>4
<1>1. CASE Silent
  <2>1. log' = log /\ (session' = session \/ (session' = session + 1 /\ now' = now + Tolerance + 1))
    BY <1>1 DEF Silent
  <2>2. ASSUME NEW i \in DOMAIN log
        PROVE  Time(i) <= now' /\ 1 <= SessionOf(i) /\ SessionOf(i) <= session'
               /\ (SessionOf(i) < session' => Time(i) + Tolerance < now')
    BY <1>a, <2>1 DEF Ordered, Time, SessionOf
  <2> QED BY <2>1, <2>2 DEF Ordered, Time, SessionOf
<1>2. CASE Writing
  <2>1. PICK n, e : Written(n, e) /\ Fit(e)
    BY <1>2, WritesOne
  <2>2. now' = now /\ session' = session
    BY <1>2 DEF Writing
  <2>3. n \in Nat
    BY <2>1 DEF Written
  <2>4. ASSUME NEW i \in DOMAIN log
        PROVE  /\ Time(i)' = Time(i) /\ SessionOf(i)' = SessionOf(i) /\ i < n /\ i \in Nat
    BY <2>1 DEF Written, Time, SessionOf
  <2>5. Time(n)' = now /\ SessionOf(n)' = session
    BY <2>1, <2>3 DEF Written, Fit, Time, SessionOf
  <2>6. DOMAIN log' = DOMAIN log \cup {n}
    BY <2>1 DEF Written
  <2>7. ASSUME NEW i \in DOMAIN log', NEW j \in DOMAIN log', i <= j
        PROVE  /\ Time(i)' <= Time(j)' /\ SessionOf(i)' <= SessionOf(j)'
               /\ SessionOf(i)' < SessionOf(j)' => Time(i)' + Tolerance < Time(j)'
    <3>1. CASE i \in DOMAIN log /\ j \in DOMAIN log
      BY <3>1, <2>4, <2>7 DEF Ordered
    <3>2. CASE j = n /\ i \in DOMAIN log
      BY <3>2, <2>4, <2>5 DEF Ordered
    <3>3. CASE i = n
      <4>1. j = i
        BY <3>3, <2>6, <2>4, <2>7, <2>3
      <4> QED BY <3>3, <4>1, <2>5, <1>a
    <3> QED BY <3>1, <3>2, <3>3, <2>6
  <2>8. ASSUME NEW i \in DOMAIN log'
        PROVE  /\ Time(i)' <= now' /\ 1 <= SessionOf(i)' /\ SessionOf(i)' <= session'
               /\ SessionOf(i)' < session' => Time(i)' + Tolerance < now'
    <3>1. CASE i \in DOMAIN log
      BY <3>1, <2>4, <2>2 DEF Ordered
    <3>2. CASE i = n
      BY <3>2, <2>5, <2>2, <1>a
    <3> QED BY <3>1, <3>2, <2>6
  <2> QED BY <2>7, <2>8 DEF Ordered
<1> QED BY <1>1, <1>2 DEF Shape

\* The record that a step writes is the one it names.
LEMMA EntryWritten ==
  ASSUME Typed, NEW kind, NEW d, NEW first, Write(kind, d, first)
  PROVE  \E n : Written(n, Entry(kind, d, first))
BY AppendWrites DEF Write, Typed, HostTypeOK

\* A record of none of the kinds a boot writes.
Ordinary(e) == e.kind \notin {"unexpected", "started"} /\ (e.kind = "woke" => host = "asleep") /\ e.t = now

\* Only a boot changes what is to be written, and only its records are reports.
LEMMA OthersDoNotBoot ==
  ASSUME Typed, Kinds, Ports, HostNext
  PROVE  \/ Boot \/ BootWrites
         \/ /\ pending' = pending /\ session' = session
            /\ \/ log' = log
               \/ pending = <<>> /\ \E n, e : Written(n, e) /\ Ordinary(e)
<1> DEFINE Other == /\ pending' = pending /\ session' = session
                    /\ \/ log' = log
                       \/ pending = <<>> /\ \E n, e : Written(n, e) /\ Ordinary(e)
<1>0. ASSUME NEW kind, NEW d, NEW first, Write(kind, d, first), kind \notin {"unexpected", "started"},
             kind = "woke" => host = "asleep"
      PROVE  \E n, e : Written(n, e) /\ Ordinary(e)
  <2>1. Ordinary(Entry(kind, d, first))
    BY <1>0 DEF Entry, Ordinary
  <2> QED BY <1>0, <2>1, EntryWritten
<1>1. CASE Tick \/ Crash \/ BootEnds
  BY <1>1 DEF Tick, Crash, BootEnds
<1>2. CASE Activity
  <2>1. Write("running", NoDevice, FALSE) /\ pending = <<>> /\ pending' = pending /\ session' = session
    BY <1>2 DEF Activity, Ports
  <2> QED BY <2>1, <1>0
<1>3. CASE Sleep
  <2>1. Write("slept", NoDevice, FALSE) /\ pending = <<>> /\ pending' = pending /\ session' = session
    BY <1>3 DEF Sleep, Ports
  <2> QED BY <2>1, <1>0
<1>4. CASE Wake
  <2>1. Write("woke", NoDevice, FALSE) /\ host = "asleep" /\ pending = <<>> /\ pending' = pending /\ session' = session
    BY <1>4 DEF Wake, Ports
  <2> QED BY <2>1, <1>0
<1>5. CASE Shutdown
  <2>1. Write("stopped", NoDevice, FALSE) /\ pending = <<>> /\ pending' = pending /\ session' = session
    BY <1>5 DEF Shutdown, Ports
  <2> QED BY <2>1, <1>0
<1>6. ASSUME NEW d \in habit.sticks, Plug(d) \/ Fault(d)
      PROVE  Other
  <2>1. /\ Write("connect", d, TRUE) \/ Write("fault", d, FALSE)
        /\ pending = <<>> /\ pending' = pending /\ session' = session
    BY <1>6 DEF Plug, Fault, Ports
  <2> QED BY <2>1, <1>0
<1>7. ASSUME NEW d \in habit.sticks, Unplug(d) \/ MoveUnseen(d)
      PROVE  Other
  <2>1. /\ (Write("disconnect", d, TRUE) /\ pending = <<>>) \/ log' = log
        /\ pending' = pending /\ session' = session
    BY <1>7 DEF Unplug, MoveUnseen, Ports
  <2> QED BY <2>1, <1>0
<1>8. ASSUME NEW d \in habit.sticks, BootNotices(d)
      PROVE  Other
  <2>1. /\ Write("connect", d, TRUE) \/ Write("disconnect", d, TRUE)
        /\ pending = <<>> /\ pending' = pending /\ session' = session
    BY <1>8 DEF BootNotices
  <2> QED BY <2>1, <1>0
<1>9. ASSUME NEW d \in habit.sticks, Echo(d)
      PROVE  Other
  <2>1. PICK i \in Of(d) : Write(log[i].kind, d, FALSE)
    BY <1>9 DEF Echo
  <2>2. log[i].kind \in DeviceKind
    BY HostAssumption DEF Of, Kinds, Kind, Typed, HostTypeOK
  <2>3. pending = <<>> /\ pending' = pending /\ session' = session
    BY <1>9 DEF Echo, Ports
  <2> QED BY <2>1, <2>2, <2>3, <1>0 DEF DeviceKind
<1> QED BY <1>1, <1>2, <1>3, <1>4, <1>5, <1>6, <1>7, <1>8, <1>9 DEF HostNext

\* What a boot writes.
LEMMA BootWritesOne ==
  ASSUME Typed, BootWrites
  PROVE  /\ pending # <<>> /\ Head(pending) \in {"started", "unexpected"} /\ Len(pending) >= 1
         /\ pending[1] = Head(pending) /\ pending' = Tail(pending) /\ session' = session /\ now' = now
         /\ Len(pending') = Len(pending) - 1 /\ \A m \in DOMAIN pending' : pending'[m] = pending[m + 1]
         /\ \A m \in DOMAIN pending' : m + 1 \in DOMAIN pending /\ m + 1 # 1
         /\ 1 \in DOMAIN pending
         /\ \E n : Written(n, Entry(Head(pending), NoDevice, FALSE))
<1>1. Write(Head(pending), NoDevice, FALSE) /\ pending # <<>> /\ pending \in Seq({"started", "unexpected"})
  BY DEF BootWrites, Typed
<1>2. \E n : Written(n, Entry(Head(pending), NoDevice, FALSE))
  BY <1>1, EntryWritten
<1>3. pending' = Tail(pending) /\ session' = session /\ now' = now
  BY DEF BootWrites
<1>4. /\ Head(pending) = pending[1] /\ Head(pending) \in {"started", "unexpected"}
      /\ Tail(pending) \in Seq({"started", "unexpected"}) /\ Len(pending) >= 1
      /\ Len(Tail(pending)) = Len(pending) - 1
      /\ \A m \in DOMAIN Tail(pending) : Tail(pending)[m] = pending[m + 1]
  BY <1>1, HeadAndTail
<1>5. \A m \in DOMAIN Tail(pending) : m + 1 \in DOMAIN pending /\ m + 1 # 1
  BY <1>1, <1>4
<1>6. 1 \in DOMAIN pending
  BY <1>1, <1>4
<1> QED BY <1>1, <1>2, <1>3, <1>4, <1>5, <1>6

\* The reports.
LEMMA BootsKeep ==
  ASSUME Typed, Kinds, Ports, Ordered, Boots, HostNext
  PROVE  Boots'
<1>a. session \in Nat /\ \A k \in DOMAIN log : SessionOf(k) \in Nat /\ SessionOf(k) <= session
  BY LogFacts DEF Ordered, Typed, HostTypeOK
<1>1. CASE Boot
  <2>1. log' = log /\ session' = session + 1
    BY <1>1 DEF Boot
  <2>2. pending' \in {<<"started", "unexpected">>, <<"started", "unexpected", "started">>,
                      <<"started", "started", "unexpected">>, <<"unexpected">>, <<"started">>,
                      <<"started", "started">>, <<>>}
    BY <1>1, BootOwes, HostAssumption DEF Typed, HostTypeOK
  <2>3. \A m, n \in DOMAIN pending' : pending'[m] = "unexpected" /\ pending'[n] = "unexpected" => m = n
    BY <2>2
  <2>4. \A k \in DOMAIN log' : SessionOf(k)' # session'
    BY <2>1, <1>a DEF SessionOf
  <2>5. \A u, k \in DOMAIN log' : Kind(u)' = "unexpected" /\ k < u /\ SessionOf(k)' = SessionOf(u)' => Kind(k)' = "started"
    BY <2>1 DEF Boots, SessionOf, Kind
  <2> QED BY <2>3, <2>4, <2>5 DEF Boots
<1>2. CASE BootWrites
  <2> DEFINE kind == Head(pending)
  <2>1. PICK n : Written(n, Entry(kind, NoDevice, FALSE))
    BY <1>2, BootWritesOne
  <2>2. /\ kind \in {"started", "unexpected"} /\ session' = session /\ 1 \in DOMAIN pending /\ pending[1] = kind
        /\ \A m \in DOMAIN pending' : pending'[m] = pending[m + 1] /\ m + 1 \in DOMAIN pending /\ m + 1 # 1 /\ m \in Int
    <3>1. pending' \in Seq({"started", "unexpected"})
      BY <1>2, HeadAndTail DEF BootWrites, Typed
    <3> QED BY <1>2, <3>1, BootWritesOne
  <2>3. Entry(kind, NoDevice, FALSE).kind = kind /\ Entry(kind, NoDevice, FALSE).session = session
    BY DEF Entry
  <2> HIDE DEF kind
  <2>4. \A m, o \in DOMAIN pending' : pending'[m] = "unexpected" /\ pending'[o] = "unexpected" => m = o
    <3> SUFFICES ASSUME NEW m \in DOMAIN pending', NEW o \in DOMAIN pending',
                        pending'[m] = "unexpected", pending'[o] = "unexpected"
                 PROVE  m = o
      OBVIOUS
    <3>1. m + 1 = o + 1
      BY <2>2 DEF Boots
    <3> QED BY <2>2, <3>1
  <2>5. Owed' => Owed /\ kind = "started"
    BY <2>2 DEF Owed, Boots
  <2>6. /\ DOMAIN log' = DOMAIN log \cup {n} /\ Kind(n)' = kind /\ SessionOf(n)' = session /\ n \in Nat
        /\ \A k \in DOMAIN log : Kind(k)' = Kind(k) /\ SessionOf(k)' = SessionOf(k) /\ k < n /\ k \in Nat
    BY <2>1, <2>3 DEF Written, Kind, SessionOf
  <2>7. Owed' => \A k \in DOMAIN log' : SessionOf(k)' = session' => Kind(k)' = "started"
    BY <2>2, <2>5, <2>6 DEF Boots
  <2>8. kind = "unexpected" => Owed
    BY <2>2 DEF Owed
  <2>9. ASSUME NEW u \in DOMAIN log', NEW k \in DOMAIN log', Kind(u)' = "unexpected", k < u,
               SessionOf(k)' = SessionOf(u)'
        PROVE  Kind(k)' = "started"
    <3>1. CASE u = n
      BY <2>9, <2>6, <2>8, <3>1 DEF Boots
    <3>2. CASE u \in DOMAIN log
      BY <2>9, <2>6, <3>2 DEF Boots
    <3> QED BY <3>1, <3>2, <2>6
  <2> QED BY <2>4, <2>7, <2>9 DEF Boots
<1>3. ASSUME pending' = pending, session' = session, log' = log
      PROVE  Boots'
  BY <1>3 DEF Boots, Owed, Kind, SessionOf
<1>4. ASSUME pending' = pending, session' = session, pending = <<>>,
             NEW n, NEW e, Written(n, e), Ordinary(e)
      PROVE  Boots'
  <2>1. /\ DOMAIN log' = DOMAIN log \cup {n} /\ Kind(n)' # "unexpected" /\ n \in Nat
        /\ \A k \in DOMAIN log : Kind(k)' = Kind(k) /\ SessionOf(k)' = SessionOf(k) /\ k < n /\ k \in Nat
    BY <1>4 DEF Written, Kind, SessionOf, Ordinary
  <2>2. ASSUME NEW u \in DOMAIN log', NEW k \in DOMAIN log', Kind(u)' = "unexpected", k < u,
               SessionOf(k)' = SessionOf(u)'
        PROVE  Kind(k)' = "started"
    <3>1. u \in DOMAIN log /\ k \in DOMAIN log
      BY <2>1, <2>2
    <3> QED BY <2>1, <2>2, <3>1 DEF Boots
  <2>3. DOMAIN pending' = {}
    BY <1>4
  <2> QED BY <2>2, <2>3 DEF Boots, Owed
<1> QED BY <1>1, <1>2, <1>3, <1>4, OthersDoNotBoot

-----------------------------------------------------------------------------
(* Comings and goings.                                                      *)

\* A step that writes none, and after which the host knows of its ports what it knew, or has
\* forgotten it or starts anew.
Settles ==
  /\ \A d \in Device : Of(d)' = Of(d)
  /\ \A i \in DOMAIN log : i \in DOMAIN log' /\ log'[i] = log[i]
  /\ \/ noticed' = noticed /\ session' = session /\ (host' # "off" => host # "off")
     \/ noticed' = {} /\ host' = "off"
     \/ noticed' = {} /\ host = "off" /\ session' = session + 1

\* A step that writes the n-th record, of d: the first of a change the host has seen, or an
\* echo of it.
Comes(d, n, kind, first) ==
  /\ Written(n, Entry(kind, d, first)) /\ kind \in {"connect", "disconnect"} /\ first \in BOOLEAN
  /\ session' = session /\ now' = now /\ host # "off" /\ host' = host
  /\ first /\ kind = "connect" => d \notin noticed /\ noticed' = noticed \cup {d}
  /\ first /\ kind = "disconnect" => d \in noticed /\ noticed' = noticed \ {d}
  /\ ~first =>
       /\ noticed' = noticed /\ (kind = "connect" <=> d \in noticed)
       /\ \E i \in Of(d) : /\ kind = Kind(i) /\ now - Time(i) <= Tolerance
                           /\ \A j \in Of(d) : j > i => Kind(j) = kind

\* A record of another kind is none of them.
LEMMA OfOthers ==
  ASSUME NEW n, NEW e, Written(n, e), e.dev \notin Device \/ e.kind = "fault"
  PROVE  /\ \A d \in Device : Of(d)' = Of(d)
         /\ \A i \in DOMAIN log : i \in DOMAIN log' /\ log'[i] = log[i]
<1>1. /\ DOMAIN log' = DOMAIN log \cup {n} /\ log'[n] = e /\ n \notin DOMAIN log
      /\ \A i \in DOMAIN log : log'[i] = log[i]
  BY DEF Written
<1>2. ASSUME NEW d \in Device
      PROVE  Of(d)' = Of(d)
  <2>1. Of(d)' = {i \in DOMAIN log' : log'[i].dev = d /\ log'[i].kind # "fault"}
    BY DEF Of
  <2> QED BY <1>1, <2>1 DEF Of
<1> QED BY <1>1, <1>2

\* Every step is one or the other, on a host that records what it sees.
LEMMA ComesOrSettles ==
  ASSUME Typed, Ports, Kinds, AllRecorded, HostNext
  PROVE  Settles \/ \E n, kind, first : \E d \in Device : Comes(d, n, kind, first)
<1> USE HostAssumption
<1>a. NoDevice \notin Device /\ habit.sticks \subseteq Device
  BY DEF Typed, HostTypeOK
<1>b. \A d, kind, first : /\ Entry(kind, d, first).kind = kind /\ Entry(kind, d, first).dev = d
  BY DEF Entry
<1>0. ASSUME NEW kind, NEW d, NEW first, Write(kind, d, first), d \notin Device \/ kind = "fault"
      PROVE  /\ \A c \in Device : Of(c)' = Of(c)
             /\ \A i \in DOMAIN log : i \in DOMAIN log' /\ log'[i] = log[i]
  <2>1. PICK n : Written(n, Entry(kind, d, first))
    BY <1>0, EntryWritten
  <2> QED BY <1>0, <1>b, <2>1, OfOthers
<1>1. CASE Tick \/ Crash \/ BootEnds
  BY <1>1 DEF Tick, Crash, BootEnds, Settles, Of
<1>2. CASE Boot
  BY <1>2 DEF Boot, Ports, Settles, Of
<1>3. CASE Activity \/ Sleep \/ Wake
  <2>1. /\ Write("running", NoDevice, FALSE) \/ Write("slept", NoDevice, FALSE) \/ Write("woke", NoDevice, FALSE)
        /\ noticed' = noticed /\ session' = session /\ host # "off"
    BY <1>3 DEF Activity, Sleep, Wake
  <2> QED BY <1>0, <1>a, <2>1 DEF Settles
<1>4. CASE Shutdown
  <2>1. Write("stopped", NoDevice, FALSE) /\ noticed' = {} /\ host' = "off"
    BY <1>4 DEF Shutdown
  <2> QED BY <1>0, <1>a, <2>1 DEF Settles
<1>5. CASE BootWrites
  <2>1. Write(Head(pending), NoDevice, FALSE) /\ noticed' = noticed /\ session' = session /\ host # "off"
    BY <1>5 DEF BootWrites
  <2> QED BY <1>0, <1>a, <2>1 DEF Settles
<1>6. ASSUME NEW d \in habit.sticks, MoveUnseen(d)
      PROVE  Settles
  BY <1>6 DEF MoveUnseen, Settles, Of
<1>7. ASSUME NEW d \in habit.sticks, Fault(d)
      PROVE  Settles
  <2>1. Write("fault", d, FALSE) /\ noticed' = noticed /\ session' = session /\ host # "off"
    BY <1>7 DEF Fault
  <2> QED BY <1>0, <2>1 DEF Settles
<1>8. ASSUME NEW d \in habit.sticks, Plug(d)
      PROVE  \E n, kind, first : Comes(d, n, kind, first)
  <2>1. /\ Write("connect", d, TRUE) /\ noticed' = noticed \cup {d} /\ host = "on" /\ host' = host
        /\ d \notin noticed /\ session' = session /\ now' = now
    BY <1>8 DEF Plug, Ports
  <2>2. PICK n : Written(n, Entry("connect", d, TRUE))
    BY <2>1, EntryWritten
  <2>3. Comes(d, n, "connect", TRUE)
    BY <2>1, <2>2 DEF Comes
  <2> QED BY <2>3
<1>9. ASSUME NEW d \in habit.sticks, Unplug(d)
      PROVE  \E n, kind, first : Comes(d, n, kind, first)
  <2>1. /\ Write("disconnect", d, TRUE) /\ noticed' = noticed \ {d} /\ host = "on" /\ host' = host
        /\ d \in noticed /\ session' = session /\ now' = now
    BY <1>9 DEF Unplug, Ports, AllRecorded
  <2>2. PICK n : Written(n, Entry("disconnect", d, TRUE))
    BY <2>1, EntryWritten
  <2>3. Comes(d, n, "disconnect", TRUE)
    BY <2>1, <2>2 DEF Comes
  <2> QED BY <2>3
<1>10. ASSUME NEW d \in habit.sticks, BootNotices(d)
       PROVE  \E n, kind, first : Comes(d, n, kind, first)
  <2>1. host = "booting" /\ host' = host /\ session' = session /\ now' = now
    BY <1>10 DEF BootNotices
  <2>2. CASE d \in attached \ noticed /\ noticed' = noticed \cup {d} /\ Write("connect", d, TRUE)
    <3>1. PICK n : Written(n, Entry("connect", d, TRUE))
      BY <2>2, EntryWritten
    <3>2. Comes(d, n, "connect", TRUE)
      BY <2>1, <2>2, <3>1 DEF Comes
    <3> QED BY <3>2
  <2>3. CASE d \in noticed \ attached /\ noticed' = noticed \ {d} /\ Write("disconnect", d, TRUE)
    <3>1. PICK n : Written(n, Entry("disconnect", d, TRUE))
      BY <2>3, EntryWritten
    <3>2. Comes(d, n, "disconnect", TRUE)
      BY <2>1, <2>3, <3>1 DEF Comes
    <3> QED BY <3>2
  <2> QED BY <1>10, <2>2, <2>3 DEF BootNotices
<1>11. ASSUME NEW d \in habit.sticks, Echo(d)
       PROVE  \E n, kind, first : Comes(d, n, kind, first)
  <2>1. /\ host = "on" /\ noticed = attached /\ noticed' = noticed /\ session' = session /\ now' = now
        /\ host' = host
    BY <1>11 DEF Echo, Ports
  <2>2. PICK i \in Of(d) : /\ now - log[i].t <= Tolerance
                           /\ \A j \in Of(d) : j > i => log[j].kind = log[i].kind
                           /\ (log[i].kind = "connect") = (d \in attached)
                           /\ Write(log[i].kind, d, FALSE)
    BY <1>11 DEF Echo
  <2>3. PICK n : Written(n, Entry(log[i].kind, d, FALSE))
    BY <2>2, EntryWritten
  <2>4. log[i].kind \in {"connect", "disconnect"}
    BY <1>a DEF Of, Kinds, Kind, DeviceKind
  <2>5. Comes(d, n, log[i].kind, FALSE)
    BY <2>1, <2>2, <2>3, <2>4 DEF Comes, Kind, Time
  <2> QED BY <2>5
<1> QED BY <1>1, <1>2, <1>3, <1>4, <1>5, <1>6, <1>7, <1>8, <1>9, <1>10, <1>11, <1>a DEF HostNext

\* What comes is the latest of its device's, behind the one that was.
LEMMA ComesLast ==
  ASSUME Typed, NEW d \in Device, NEW n, NEW kind, NEW first, Comes(d, n, kind, first)
  PROVE  /\ Of(d)' = Of(d) \cup {n} /\ \A c \in Device : c # d => Of(c)' = Of(c)
         /\ DOMAIN log' = DOMAIN log \cup {n} /\ n \in Nat /\ \A i \in DOMAIN log : i < n /\ i \in Nat
         /\ \A i \in DOMAIN log : FirstOf(i)' = FirstOf(i) /\ HereAt(i)' = HereAt(i) /\ Kind(i)' = Kind(i) /\ SessionOf(i)' = SessionOf(i) /\ Time(i)' = Time(i)
         /\ Kind(n)' = kind /\ SessionOf(n)' = session /\ Time(n)' = now /\ FirstOf(n)' = first
         /\ HereAt(n)' = IF kind = "disconnect" THEN attached \ {d} ELSE attached \cup {d}
<1> DEFINE e == Entry(kind, d, first)
<1>1. /\ e.kind = kind /\ e.dev = d /\ e.first = first /\ e.session = session /\ e.t = now
      /\ e.here = IF kind = "disconnect" THEN attached \ {d} ELSE attached \cup {d}
  BY DEF Entry
<1>2. Written(n, e) /\ kind # "fault"
  BY DEF Comes
<1> HIDE DEF e
<1>3. /\ DOMAIN log' = DOMAIN log \cup {n} /\ log'[n] = e /\ n \in Nat
      /\ \A i \in DOMAIN log : i \in Nat /\ i < n /\ log'[i] = log[i]
  BY <1>2 DEF Written
<1>4. ASSUME NEW c \in Device
      PROVE  Of(c)' = IF c = d THEN Of(c) \cup {n} ELSE Of(c)
  <2>1. Of(c)' = {i \in DOMAIN log' : log'[i].dev = c /\ log'[i].kind # "fault"}
    BY DEF Of
  <2>2. n \notin DOMAIN log
    BY <1>3
  <2> QED BY <1>1, <1>2, <1>3, <2>1, <2>2 DEF Of
<1> QED BY <1>1, <1>3, <1>4 DEF Kind, SessionOf, Time, FirstOf, HereAt

\* What the host knows of the latest records.
LEMMA NotedKeeps ==
  ASSUME Typed, Ports, Kinds, Ordered, Noted, AllRecorded, HostNext
  PROVE  Noted'
<1>a. session \in Nat /\ \A i \in DOMAIN log : SessionOf(i) \in Nat /\ SessionOf(i) <= session
  BY LogFacts DEF Ordered, Typed, HostTypeOK
<1>1. CASE Settles
  <2> SUFFICES ASSUME NEW d \in Device, NEW l \in DOMAIN log', Latest(d, l)'
               PROVE  /\ d \in noticed' => Kind(l)' = "connect" /\ SessionOf(l)' = session'
                      /\ d \notin noticed' /\ host' # "off" => Kind(l)' = "disconnect" \/ SessionOf(l)' < session'
    BY DEF Noted
  <2>1. l \in Of(d) /\ l \in DOMAIN log /\ Latest(d, l)
    BY <1>1 DEF Settles, Latest, Of
  <2>2. Kind(l)' = Kind(l) /\ SessionOf(l)' = SessionOf(l)
    BY <1>1, <2>1 DEF Settles, Kind, SessionOf
  <2>3. CASE noticed' = noticed /\ session' = session /\ (host' # "off" => host # "off")
    BY <2>1, <2>2, <2>3 DEF Noted
  <2>4. CASE noticed' = {} /\ host' = "off"
    BY <2>4
  <2>5. CASE noticed' = {} /\ host = "off" /\ session' = session + 1
    BY <2>5, <2>1, <2>2, <1>a
  <2> QED BY <1>1, <2>3, <2>4, <2>5 DEF Settles
<1>2. ASSUME NEW d \in Device, NEW n, NEW kind, NEW first, Comes(d, n, kind, first)
      PROVE  Noted'
  <2> SUFFICES ASSUME NEW c \in Device, NEW l \in DOMAIN log', Latest(c, l)'
               PROVE  /\ c \in noticed' => Kind(l)' = "connect" /\ SessionOf(l)' = session'
                      /\ c \notin noticed' /\ host' # "off" => Kind(l)' = "disconnect" \/ SessionOf(l)' < session'
    BY DEF Noted
  <2>1. l \in Of(c)' /\ \A j \in Of(c)' : j <= l
    BY DEF Latest
  <2>a. /\ Of(d)' = Of(d) \cup {n} /\ \A b \in Device : b # d => Of(b)' = Of(b)
        /\ DOMAIN log' = DOMAIN log \cup {n} /\ n \in Nat /\ \A p \in DOMAIN log : p < n /\ p \in Nat
        /\ \A p \in DOMAIN log : FirstOf(p)' = FirstOf(p) /\ Kind(p)' = Kind(p) /\ SessionOf(p)' = SessionOf(p) /\ Time(p)' = Time(p)
        /\ Kind(n)' = kind /\ SessionOf(n)' = session /\ Time(n)' = now /\ FirstOf(n)' = first
    BY <1>2, ComesLast
  <2>2. /\ Of(d)' = Of(d) \cup {n} /\ (c # d => Of(c)' = Of(c)) /\ n \in Nat
        /\ \A i \in DOMAIN log : i < n /\ i \in Nat /\ Kind(i)' = Kind(i) /\ SessionOf(i)' = SessionOf(i)
        /\ Kind(n)' = kind /\ SessionOf(n)' = session
        /\ \A i \in Of(c) : i \in DOMAIN log
    <3>1. \A i \in Of(c) : i \in DOMAIN log
      BY DEF Of
    <3> QED BY <2>a, <3>1
  <2>3. session' = session /\ host' = host /\ host # "off" /\ kind \in {"connect", "disconnect"} /\ first \in BOOLEAN
    BY <1>2 DEF Comes
  <2>4. CASE c = d
    <3>1. l = n
      BY <2>1, <2>2, <2>4
    <3>2. CASE first
      BY <3>1, <3>2, <2>2, <2>3, <2>4, <1>2 DEF Comes
    <3>3. CASE ~first
      BY <3>1, <3>3, <2>2, <2>3, <2>4, <1>2 DEF Comes
    <3> QED BY <3>2, <3>3
  <2>5. CASE c # d
    <3>1. Latest(c, l) /\ l \in DOMAIN log
      BY <2>1, <2>2, <2>5 DEF Latest
    <3>2. c \in noticed' <=> c \in noticed
      BY <1>2, <2>3, <2>5 DEF Comes
    <3> QED BY <2>2, <2>3, <3>1, <3>2 DEF Noted
  <2> QED BY <2>4, <2>5
<1> QED BY <1>1, <1>2, ComesOrSettles

\* Where there is a record of a device's there is a latest.
LEMMA LatestExists ==
  ASSUME Typed, NEW d, Of(d) # {}
  PROVE  \E l \in Of(d) : Latest(d, l)
<1>1. Of(d) \subseteq DOMAIN log
  BY DEF Of
<1>2. Of(d) \in SUBSET Int /\ IsFiniteSet(Of(d))
  BY <1>1, LogFacts
<1>3. PICK l \in Of(d) : \A j \in Of(d) : l >= j
  BY <1>2, GreatestExists
<1>4. Latest(d, l)
  BY <1>2, <1>3 DEF Latest
<1> QED BY <1>4

\* The first records of the changes.
LEMMA FirstsKeep ==
  ASSUME Typed, Ports, Kinds, Ordered, Noted, Firsts, AllRecorded, HostNext
  PROVE  Firsts'
<1>a. /\ session \in Nat /\ now \in Nat /\ Tolerance \in Nat
      /\ \A i \in DOMAIN log : SessionOf(i) \in Nat /\ SessionOf(i) <= session /\ Time(i) \in Nat /\ i \in Nat
  BY LogFacts DEF Ordered, Typed, HostTypeOK
<1>b. \A d : \A i \in Of(d) : i \in DOMAIN log
  BY DEF Of
<1>1. CASE Settles
  <2> SUFFICES ASSUME NEW d \in Device, NEW i \in DOMAIN log', i \in Of(d)'
               PROVE  /\ FirstOf(i)' <=>
                           \A p \in DOMAIN log' :
                             Precedes(d, p, i)' => Kind(p)' # Kind(i)' \/ Time(i)' - Time(p)' > Tolerance
                      /\ Kind(i)' = "disconnect" => \A p \in DOMAIN log' : Precedes(d, p, i)' => SessionOf(p)' = SessionOf(i)'
    BY DEF Firsts
  <2>1. Of(d)' = Of(d) /\ \A p \in DOMAIN log : p \in DOMAIN log' /\ log'[p] = log[p]
    BY <1>1 DEF Settles
  <2>2. i \in Of(d) /\ i \in DOMAIN log
    BY <2>1, <1>b
  <2>3. \A p : Precedes(d, p, i)' <=> Precedes(d, p, i)
    BY <2>1 DEF Precedes
  <2>4. \A p : Precedes(d, p, i) => p \in DOMAIN log
    BY <1>b DEF Precedes
  <2>5. \A p \in DOMAIN log : FirstOf(p)' = FirstOf(p) /\ Kind(p)' = Kind(p) /\ Time(p)' = Time(p) /\ SessionOf(p)' = SessionOf(p) /\ p \in DOMAIN log'
    BY <2>1 DEF Kind, Time, SessionOf, FirstOf
  <2> QED BY <2>1, <2>2, <2>3, <2>4, <2>5 DEF Firsts
<1>2. ASSUME NEW d \in Device, NEW n, NEW kind, NEW first, Comes(d, n, kind, first)
      PROVE  Firsts'
  <2> SUFFICES ASSUME NEW c \in Device, NEW i \in DOMAIN log', i \in Of(c)'
               PROVE  /\ FirstOf(i)' <=>
                           \A p \in DOMAIN log' :
                             Precedes(c, p, i)' => Kind(p)' # Kind(i)' \/ Time(i)' - Time(p)' > Tolerance
                      /\ Kind(i)' = "disconnect" => \A p \in DOMAIN log' : Precedes(c, p, i)' => SessionOf(p)' = SessionOf(i)'
    BY DEF Firsts
  <2>a. /\ Of(d)' = Of(d) \cup {n} /\ \A b \in Device : b # d => Of(b)' = Of(b)
        /\ DOMAIN log' = DOMAIN log \cup {n} /\ n \in Nat /\ \A p \in DOMAIN log : p < n /\ p \in Nat
        /\ \A p \in DOMAIN log : FirstOf(p)' = FirstOf(p) /\ Kind(p)' = Kind(p) /\ SessionOf(p)' = SessionOf(p) /\ Time(p)' = Time(p)
        /\ Kind(n)' = kind /\ SessionOf(n)' = session /\ Time(n)' = now /\ FirstOf(n)' = first
    BY <1>2, ComesLast
  <2>1. /\ Of(d)' = Of(d) \cup {n} /\ (c # d => Of(c)' = Of(c)) /\ n \in Nat
        /\ DOMAIN log' = DOMAIN log \cup {n}
        /\ \A p \in DOMAIN log : /\ p < n /\ p \in Nat /\ Kind(p)' = Kind(p) /\ SessionOf(p)' = SessionOf(p)
                                 /\ Time(p)' = Time(p) /\ FirstOf(p)' = FirstOf(p)
        /\ Kind(n)' = kind /\ SessionOf(n)' = session /\ Time(n)' = now /\ FirstOf(n)' = first
    BY <2>a
  <2>2. CASE i \in Of(c)
    <3>1. i \in DOMAIN log /\ i < n /\ i \in Nat
      BY <2>1, <2>2, <1>b
    <3>2. \A p : Precedes(c, p, i)' <=> Precedes(c, p, i)
      <4>1. \A q \in Of(c)' : q < i => q \in Of(c)
        BY <2>1, <3>1
      <4>2. \A q \in Of(c) : q \in Of(c)'
        BY <2>1
      <4> QED BY <4>1, <4>2 DEF Precedes
    <3>3. \A p : Precedes(c, p, i) => p \in DOMAIN log
      BY <1>b DEF Precedes
    <3> QED BY <2>1, <2>2, <3>1, <3>2, <3>3 DEF Firsts
  <2>3. CASE i \notin Of(c)
    <3>1. i = n /\ c = d
      BY <2>1, <2>3
    <3>2. \A p : Precedes(d, p, n)' <=> Latest(d, p)
      <4>1. \A q : q \in Of(d)' /\ q < n <=> q \in Of(d)
        BY <2>1, <1>b
      <4> QED BY <4>1 DEF Precedes, Latest
    <3>3. \A p : Latest(d, p) => p \in DOMAIN log
      BY <1>b DEF Latest
    <3>4. kind \in {"connect", "disconnect"} /\ first \in BOOLEAN /\ host # "off"
      BY <1>2 DEF Comes
    <3>5. CASE first /\ kind = "connect"
      <4>1. d \notin noticed
        BY <1>2, <3>5 DEF Comes
      <4>2. ASSUME NEW p \in DOMAIN log, Latest(d, p)
            PROVE  Kind(p) # "connect" \/ now - Time(p) > Tolerance
        <5>1. Kind(p) = "disconnect" \/ SessionOf(p) < session
          BY <4>1, <4>2, <3>4 DEF Noted
        <5>2. SessionOf(p) < session => Time(p) + Tolerance < now
          BY DEF Ordered
        <5>3. SessionOf(p) < session => now - Time(p) > Tolerance
          BY <5>2, <1>a
        <5> QED BY <5>1, <5>3
      <4> QED BY <2>1, <3>1, <3>2, <3>3, <3>5, <4>2
    <3>6. CASE first /\ kind = "disconnect"
      <4>1. d \in noticed
        BY <1>2, <3>6 DEF Comes
      <4>2. ASSUME NEW p \in DOMAIN log, Latest(d, p)
            PROVE  Kind(p) = "connect" /\ SessionOf(p) = session
        BY <4>1, <4>2 DEF Noted
      <4> QED BY <2>1, <3>1, <3>2, <3>3, <3>6, <4>2
    <3>7. CASE ~first
      <4>1. PICK m \in Of(d) : /\ kind = Kind(m) /\ now - Time(m) <= Tolerance
                               /\ \A j \in Of(d) : j > m => Kind(j) = kind
        BY <1>2, <3>7 DEF Comes
      <4>2. PICK l \in Of(d) : Latest(d, l)
        BY LatestExists
      <4>3. l \in DOMAIN log /\ m \in DOMAIN log /\ m <= l
        BY <1>b, <4>2 DEF Latest
      <4>4. Kind(l) = kind
        BY <4>1, <4>3, <1>a
      <4>5. Time(m) <= Time(l) /\ Time(l) <= now
        BY <4>3 DEF Ordered
      <4>6. ~(now - Time(l) > Tolerance)
        BY <4>1, <4>3, <4>5, <1>a
      <4>7. ~(Time(l) + Tolerance < now)
        BY <4>3, <4>6, <1>a
      <4>8. SessionOf(l) = session
        <5>1. ~(SessionOf(l) < session)
          BY <4>3, <4>7 DEF Ordered
        <5> QED BY <5>1, <4>3, <1>a
      <4>9. ASSUME NEW p, Latest(d, p)
            PROVE  p = l
        <5>1. p \in DOMAIN log /\ p <= l /\ l <= p
          BY <4>9, <4>2, <1>b DEF Latest
        <5> QED BY <5>1, <4>3, <1>a
      <4> QED BY <2>1, <3>1, <3>2, <3>7, <4>2, <4>3, <4>4, <4>6, <4>8, <4>9
    <3> QED BY <3>4, <3>5, <3>6, <3>7
  <2> QED BY <2>2, <2>3
<1> QED BY <1>1, <1>2, ComesOrSettles

\* The stop nobody reported.
LEMMA UnreportedKeeps ==
  ASSUME Typed, Ports, Kinds, Ordered, Boots, Unreported, AllRecorded, HostNext
  PROVE  Unreported'
<1>a. /\ died \in -1..MaxTime /\ now \in Nat /\ session \in Nat /\ Tolerance \in Nat /\ MaxTime \in Nat
      /\ host \in {"on", "asleep", "off", "booting"}
      /\ \A k \in DOMAIN log : Time(k) \in Nat /\ Time(k) <= now /\ SessionOf(k) \in Nat /\ SessionOf(k) <= session
  BY LogFacts DEF Typed, HostTypeOK, Ordered
<1>b. died = -1 \/ died >= 0
  BY <1>a
<1>c. died = -1 => ~(died >= 0)
  BY <1>a
<1>d. pending = <<>> => ~Owed /\ ~(Len(pending) >= 1) /\ ~(Len(pending) >= 2)
  BY DEF Owed
<1>e. pending = <<>> /\ host = "booting" => died = -1
  BY <1>b, <1>d DEF Unreported, StartToCome
<1>1. ASSUME died' = -1, ~Owed'
      PROVE  Unreported'
  BY <1>1 DEF Unreported
<1>2. ASSUME died = -1, died' = died, pending' = pending
      PROVE  Unreported'
  <2>1. ~Owed'
    BY <1>2 DEF Unreported, Owed
  <2> QED BY <1>2, <2>1, <1>1
<1>3. CASE Tick
  <2>1. CASE died = -1
    BY <1>3, <2>1, <1>2 DEF Tick
  <2>2. CASE died >= 0
    <3>1. host = "booting" /\ host' = host /\ died' = died /\ pending' = pending /\ log' = log /\ session' = session
      BY <1>3, <1>c, <2>2 DEF Tick, Unreported
    <3>2. now' >= now /\ now' > now /\ now' \in Nat
      BY <1>3, <1>a DEF Tick
    <3>3. died < now => died < now'
      BY <3>2, <1>a
    <3>4. died <= now'
      BY <2>2, <3>1, <3>2, <1>a DEF Unreported
    <3>5. StartToCome => StartToCome'
      BY <3>1, <3>3 DEF StartToCome, Time, SessionOf
    <3>6. \A n \in DOMAIN log : StartWritten(n) => StartWritten(n)'
      BY <3>1 DEF StartWritten, Time, SessionOf, Kind
    <3>7. died' # -1
      BY <3>1, <2>2, <1>c
    <3> QED BY <2>2, <3>1, <3>4, <3>5, <3>6, <3>7 DEF Unreported
  <2> QED BY <1>b, <2>1, <2>2
<1>4. CASE Activity \/ Sleep \/ Wake \/ Shutdown
  BY <1>4, <1>2 DEF Activity, Sleep, Wake, Shutdown, Unreported
<1>5. CASE Crash
  <2>1. host' = "off" /\ died' = now /\ now' = now /\ log' = log
    BY <1>5 DEF Crash
  <2>2. died' # -1 /\ died' <= now' /\ \A k \in DOMAIN log' : Time(k)' <= died'
    BY <2>1, <1>a DEF Time
  <2> QED BY <2>1, <2>2 DEF Unreported
<1>6. CASE Boot
  <2>1. /\ host = "off" /\ host' = "booting" /\ now' = now + Tolerance + 1 /\ session' = session + 1
        /\ died' = died /\ log' = log
    BY <1>6 DEF Boot
  <2>2. /\ died >= 0 => pending' \in {<<"started", "unexpected">>, <<"started", "unexpected", "started">>}
        /\ ~(died >= 0) => pending' \in {<<"started">>, <<"started", "started">>}
    BY <1>6, BootOwes, HostAssumption DEF AllRecorded, Typed, HostTypeOK
  <2>3. CASE died = -1
    <3>1. pending' \in {<<"started">>, <<"started", "started">>}
      BY <2>2, <2>3, <1>c
    <3>2. ~Owed'
      BY <3>1 DEF Owed
    <3> QED BY <2>1, <2>3, <3>2, <1>1
  <2>4. CASE died >= 0
    <3>1. Len(pending') >= 2 /\ pending'[1] = "started" /\ pending'[2] = "unexpected"
      BY <2>2, <2>4
    <3>2. died' < now' /\ died' <= now'
      BY <2>1, <2>4, <1>a DEF Unreported
    <3>3. \A k \in DOMAIN log' : Time(k)' <= died' /\ SessionOf(k)' < session'
      BY <2>1, <2>4, <1>a DEF Unreported, Time, SessionOf
    <3>4. StartToCome'
      BY <3>1, <3>2, <3>3 DEF StartToCome
    <3>5. died' # -1
      BY <2>1, <2>4, <1>c
    <3> QED BY <2>1, <3>2, <3>4, <3>5 DEF Unreported
  <2> QED BY <1>b, <2>3, <2>4
<1>7. CASE BootWrites
  <2> DEFINE kind == Head(pending)
  <2>1. PICK n : Written(n, Entry(kind, NoDevice, FALSE))
    BY <1>7, BootWritesOne
  <2>2. /\ kind \in {"started", "unexpected"} /\ session' = session /\ now' = now /\ Len(pending) \in Nat
        /\ 1 \in DOMAIN pending /\ pending[1] = kind /\ Len(pending') = Len(pending) - 1
        /\ \A m \in DOMAIN pending' : pending'[m] = pending[m + 1] /\ m + 1 \in DOMAIN pending /\ m + 1 # 1 /\ m \in Int
        /\ DOMAIN pending' = 1..Len(pending')
    <3>1. pending' \in Seq({"started", "unexpected"}) /\ pending \in Seq({"started", "unexpected"})
      BY <1>7, HeadAndTail DEF BootWrites, Typed
    <3> QED BY <1>7, <3>1, BootWritesOne
  <2>3. host = "booting" /\ host' = host /\ died' = IF kind = "unexpected" THEN -1 ELSE died
    BY <1>7 DEF BootWrites
  <2>4. /\ Entry(kind, NoDevice, FALSE).kind = kind /\ Entry(kind, NoDevice, FALSE).session = session
        /\ Entry(kind, NoDevice, FALSE).t = now
    BY DEF Entry
  <2> HIDE DEF kind
  <2>5. /\ DOMAIN log' = DOMAIN log \cup {n} /\ Kind(n)' = kind /\ SessionOf(n)' = session /\ Time(n)' = now
        /\ \A k \in DOMAIN log : k < n /\ Time(k)' = Time(k) /\ SessionOf(k)' = SessionOf(k)
    BY <2>1, <2>4 DEF Written, Kind, SessionOf, Time
  <2>6. Owed' => Owed /\ kind # "unexpected"
    BY <2>2 DEF Owed, Boots
  <2>7. CASE kind = "unexpected" \/ died = -1
    <3>1. ~Owed'
      BY <2>6, <2>7 DEF Unreported
    <3>2. died' = -1
      BY <2>3, <2>7
    <3> QED BY <3>1, <3>2, <1>1
  <2>8. CASE kind = "started" /\ died >= 0
    <3>1. StartToCome
      BY <2>2, <2>3, <2>8 DEF Unreported
    <3>2. Len(pending') >= 1 /\ pending'[1] = "unexpected"
      <4>1. Len(pending) >= 2 /\ pending[2] = "unexpected"
        BY <3>1 DEF StartToCome
      <4>2. Len(pending') >= 1 /\ 1 \in DOMAIN pending'
        BY <2>2, <4>1
      <4>3. pending'[1] = pending[1 + 1]
        BY <2>2, <4>2
      <4> QED BY <4>1, <4>2, <4>3
    <3>3. StartWritten(n)'
      <4>1. Kind(n)' = "started" /\ SessionOf(n)' = session' /\ Time(n)' > died'
        BY <3>1, <2>2, <2>3, <2>5, <2>8, <1>a DEF StartToCome
      <4>2. \A k \in DOMAIN log' : k # n => k < n /\ Time(k)' <= died' /\ SessionOf(k)' < session'
        BY <3>1, <2>2, <2>3, <2>5, <2>8 DEF StartToCome
      <4> QED BY <4>1, <4>2 DEF StartWritten
    <3>4. died' = died /\ died' # -1 /\ died' <= now'
      BY <2>2, <2>3, <2>8, <1>c DEF Unreported
    <3>5. n \in DOMAIN log'
      BY <2>5
    <3> QED BY <2>3, <3>2, <3>3, <3>4, <3>5 DEF Unreported
  <2> QED BY <2>2, <2>7, <2>8, <1>b
<1>8. CASE BootEnds
  BY <1>8, <1>e, <1>2 DEF BootEnds
<1>9. ASSUME NEW d \in habit.sticks, Plug(d) \/ Echo(d) \/ Unplug(d) \/ Fault(d)
      PROVE  Unreported'
  BY <1>9, <1>2 DEF Plug, Echo, Unplug, Fault, Unreported
<1>10. ASSUME NEW d \in habit.sticks, BootNotices(d)
       PROVE  Unreported'
  BY <1>10, <1>e, <1>2 DEF BootNotices
<1>11. ASSUME NEW d \in habit.sticks, MoveUnseen(d)
       PROVE  Unreported'
  <2>1. host' = host /\ died' = died /\ pending' = pending /\ log' = log /\ now' = now /\ host # "booting"
    BY <1>11 DEF MoveUnseen
  <2> QED BY <2>1 DEF Unreported, Owed, Time
<1> QED BY <1>3, <1>4, <1>5, <1>6, <1>7, <1>8, <1>9, <1>10, <1>11 DEF HostNext

\* The reports of a host that sleeps.
LEMMA AsleepKeeps ==
  ASSUME Typed, Kinds, Ordered, Asleep, HostNext
  PROVE  Asleep'
<1>a. /\ now \in Nat /\ DOMAIN log = 1..Len(log) /\ Len(log) \in Nat
      /\ \A k \in DOMAIN log : Time(k) \in Nat /\ k \in Nat
  BY LogFacts
<1>1. CASE host' = "asleep"
  <2>1. CASE Sleep
    <3>1. Write("slept", NoDevice, FALSE) /\ now' = now /\ (log # <<>> => now > log[Len(log)].t)
      BY <2>1 DEF Sleep
    <3>2. PICK n : Written(n, Entry("slept", NoDevice, FALSE))
      BY <3>1, EntryWritten
    <3>3. Entry("slept", NoDevice, FALSE).kind = "slept"
      BY DEF Entry
    <3>4. /\ DOMAIN log' = DOMAIN log \cup {n} /\ Kind(n)' = "slept"
          /\ \A k \in DOMAIN log : Time(k)' = Time(k)
      BY <3>2, <3>3 DEF Written, Kind, Time
    <3>5. ASSUME NEW k \in DOMAIN log
          PROVE  Time(k) < now
      <4>1. Len(log) \in DOMAIN log /\ k <= Len(log) /\ log # <<>>
        BY <1>a
      <4>2. Time(k) <= Time(Len(log))
        BY <4>1 DEF Ordered
      <4>3. now > Time(Len(log))
        BY <3>1, <4>1 DEF Time
      <4> QED BY <4>1, <4>2, <4>3, <1>a
    <3> QED BY <3>1, <3>4, <3>5 DEF Asleep
  <2>2. ASSUME NEW d \in habit.sticks, MoveUnseen(d)
        PROVE  Asleep'
    BY <2>2 DEF MoveUnseen, Asleep, Time, Kind
  <2>3. CASE Tick \/ Activity \/ Wake \/ Shutdown \/ Crash \/ Boot \/ BootWrites \/ BootEnds
    BY <1>1, <2>3 DEF Tick, Activity, Wake, Shutdown, Crash, Boot, BootWrites, BootEnds
  <2>4. ASSUME NEW d \in habit.sticks, Plug(d) \/ Echo(d) \/ Unplug(d) \/ Fault(d) \/ BootNotices(d)
        PROVE  FALSE
    BY <1>1, <2>4 DEF Plug, Echo, Unplug, Fault, BootNotices
  <2> QED BY <2>1, <2>2, <2>3, <2>4 DEF HostNext
<1>2. CASE host' # "asleep"
  BY <1>2 DEF Asleep
<1> QED BY <1>1, <1>2

\* What a report comes straight after.
LEMMA ReportsKeep ==
  ASSUME Typed, Ports, Kinds, Ordered, Boots, Unreported, Asleep, Reports, AllRecorded, HostNext
  PROVE  Reports'
<1>a. /\ now \in Nat /\ DOMAIN log = 1..Len(log) /\ Len(log) \in Nat
      /\ \A k \in DOMAIN log : Time(k) \in Nat /\ k \in Nat
      /\ died \in -1..MaxTime /\ MaxTime \in Nat
  BY LogFacts DEF Typed, HostTypeOK
<1>1. ASSUME log' = log
      PROVE  Reports'
  BY <1>1 DEF Reports, AfterStart, Kind, SessionOf, Time, StopOf
<1>2. ASSUME NEW n, NEW e, Written(n, e), e.kind # "unexpected", e.t = now,
             e.kind \in {"started", "woke"} => \A u \in DOMAIN log : Kind(u) = "unexpected" => Time(u) < now
      PROVE  Reports'
  <2>1. /\ DOMAIN log' = DOMAIN log \cup {n} /\ Kind(n)' = e.kind /\ Time(n)' = now
        /\ \A k \in DOMAIN log : /\ k < n /\ Time(k)' = Time(k) /\ SessionOf(k)' = SessionOf(k)
                                 /\ Kind(k)' = Kind(k) /\ StopOf(k)' = StopOf(k)
    BY <1>2 DEF Written, Kind, SessionOf, Time, StopOf
  <2>2. n \in Nat
    BY <1>2 DEF Written
  <2> SUFFICES ASSUME NEW u \in DOMAIN log', Kind(u)' = "unexpected"
               PROVE  \E s \in DOMAIN log' : AfterStart(s, u)'
    BY DEF Reports
  <2>3. u \in DOMAIN log /\ Kind(u) = "unexpected"
    BY <2>1, <1>2
  <2>4. PICK s \in DOMAIN log : AfterStart(s, u)
    BY <2>3 DEF Reports
  <2>5. u = s + 1 /\ StopOf(u)' >= 0 /\ Kind(s)' = "started" /\ SessionOf(s)' = SessionOf(u)' /\ Time(s)' > StopOf(u)'
    BY <2>1, <2>3, <2>4 DEF AfterStart
  <2>6. ASSUME NEW k \in DOMAIN log', k < s
        PROVE  Time(k)' <= StopOf(u)' /\ SessionOf(k)' < SessionOf(u)'
    <3>1. k \in DOMAIN log
      BY <2>1, <2>2, <2>6, <1>a
    <3> QED BY <2>1, <2>3, <2>4, <2>6, <3>1 DEF AfterStart
  <2>7. ASSUME NEW k \in DOMAIN log', k > u, Kind(k)' \in {"started", "woke"}
        PROVE  Time(k)' > Time(u)'
    <3>1. CASE k \in DOMAIN log
      BY <2>1, <2>3, <2>4, <2>7, <3>1 DEF AfterStart
    <3>2. CASE k = n
      <4>1. Time(u) < now
        BY <1>2, <2>1, <2>3, <2>7, <3>2
      <4> QED BY <4>1, <2>1, <2>3, <3>2, <1>a
    <3> QED BY <2>1, <3>1, <3>2
  <2>8. AfterStart(s, u)'
    BY <2>5, <2>6, <2>7 DEF AfterStart
  <2> QED BY <2>1, <2>8
<1>3. CASE Boot
  BY <1>3, <1>1 DEF Boot
<1>4. CASE BootWrites
  <2> DEFINE kind == Head(pending)
             e == Entry(kind, NoDevice, FALSE)
  <2>1. PICK n : Written(n, e)
    BY <1>4, BootWritesOne
  <2>2. e.kind = kind /\ e.session = session /\ e.t = now /\ e.stop = died
    BY DEF Entry
  <2>3. kind \in {"started", "unexpected"} /\ 1 \in DOMAIN pending /\ pending[1] = kind /\ host = "booting"
    BY <1>4, BootWritesOne DEF BootWrites
  <2>4. log # <<>> /\ kind = "started" => now > log[Len(log)].t
    BY <1>4 DEF BootWrites
  <2> HIDE DEF kind, e
  <2>5. CASE kind = "started"
    <3>1. ASSUME NEW u \in DOMAIN log
          PROVE  Time(u) < now
      <4>1. Len(log) \in DOMAIN log /\ u <= Len(log) /\ log # <<>>
        BY <1>a
      <4>2. Time(u) <= Time(Len(log))
        BY <4>1 DEF Ordered
      <4>3. now > Time(Len(log))
        BY <2>4, <2>5, <4>1 DEF Time
      <4> QED BY <4>1, <4>2, <4>3, <1>a
    <3> QED BY <2>1, <2>2, <2>5, <3>1, <1>2
  <2>6. CASE kind = "unexpected"
    <3>1. Owed
      BY <2>3, <2>6 DEF Owed
    <3>2. died # -1 /\ died >= 0
      <4>1. died # -1
        BY <3>1 DEF Unreported
      <4> QED BY <4>1, <1>a
    <3>3. ~StartToCome
      BY <2>3, <2>6 DEF StartToCome
    <3>4. PICK s \in DOMAIN log : StartWritten(s)
      BY <2>3, <3>2, <3>3 DEF Unreported
    <3>5. /\ DOMAIN log' = DOMAIN log \cup {n} /\ Kind(n)' = "unexpected" /\ Time(n)' = now
          /\ SessionOf(n)' = session /\ StopOf(n)' = died /\ n = Len(log) + 1
          /\ \A k \in DOMAIN log : /\ k < n /\ Time(k)' = Time(k) /\ SessionOf(k)' = SessionOf(k)
                                   /\ Kind(k)' = Kind(k) /\ StopOf(k)' = StopOf(k)
      BY <2>1, <2>2, <2>6 DEF Written, Kind, SessionOf, Time, StopOf
    <3>6. n = s + 1
      <4>1. s = Len(log)
        BY <3>4, <1>a DEF StartWritten
      <4> QED BY <4>1, <3>5
    <3>7. AfterStart(s, n)'
      <4>1. StopOf(n)' >= 0 /\ Kind(s)' = "started" /\ SessionOf(s)' = SessionOf(n)' /\ Time(s)' > StopOf(n)'
        BY <3>2, <3>4, <3>5 DEF StartWritten
      <4>2. ASSUME NEW k \in DOMAIN log', k < s
            PROVE  Time(k)' <= StopOf(n)' /\ SessionOf(k)' < SessionOf(n)'
        <5>1. k \in DOMAIN log /\ k # s
          BY <3>5, <3>6, <4>2, <1>a
        <5> QED BY <3>4, <3>5, <5>1 DEF StartWritten
      <4>3. \A k \in DOMAIN log' : ~(k > n)
        BY <3>5, <1>a
      <4> QED BY <3>6, <4>1, <4>2, <4>3 DEF AfterStart
    <3>8. ASSUME NEW u \in DOMAIN log, Kind(u) = "unexpected"
          PROVE  \E r \in DOMAIN log' : AfterStart(r, u)'
      <4>1. PICK r \in DOMAIN log : AfterStart(r, u)
        BY <3>8 DEF Reports
      <4>2. u = r + 1 /\ StopOf(u)' >= 0 /\ Kind(r)' = "started" /\ SessionOf(r)' = SessionOf(u)' /\ Time(r)' > StopOf(u)'
        BY <3>5, <4>1 DEF AfterStart
      <4>3. ASSUME NEW k \in DOMAIN log', k < r
            PROVE  Time(k)' <= StopOf(u)' /\ SessionOf(k)' < SessionOf(u)'
        <5>1. k \in DOMAIN log
          BY <3>5, <4>3, <1>a
        <5> QED BY <3>5, <4>1, <4>3, <5>1 DEF AfterStart
      <4>4. ASSUME NEW k \in DOMAIN log', k > u, Kind(k)' \in {"started", "woke"}
            PROVE  Time(k)' > Time(u)'
        <5>1. k \in DOMAIN log
          BY <3>5, <4>4
        <5> QED BY <3>5, <4>1, <4>4, <5>1 DEF AfterStart
      <4>5. AfterStart(r, u)'
        BY <4>2, <4>3, <4>4 DEF AfterStart
      <4> QED BY <3>5, <4>5
    <3>9. ASSUME NEW u \in DOMAIN log', Kind(u)' = "unexpected"
          PROVE  \E r \in DOMAIN log' : AfterStart(r, u)'
      <4>1. CASE u = n
        <5>1. s \in DOMAIN log'
          BY <3>5
        <5> QED BY <4>1, <5>1, <3>7
      <4>2. CASE u \in DOMAIN log
        <5>1. Kind(u) = "unexpected"
          BY <3>5, <3>9, <4>2
        <5> QED BY <4>2, <5>1, <3>8
      <4> QED BY <3>5, <4>1, <4>2
    <3> QED BY <3>9 DEF Reports
  <2> QED BY <2>3, <2>5, <2>6
<1>5. ASSUME NEW n, NEW e, Written(n, e), Ordinary(e)
      PROVE  Reports'
  <2>1. e.kind # "unexpected" /\ e.t = now
    BY <1>5 DEF Ordinary
  <2>2. e.kind \in {"started", "woke"} => host = "asleep"
    BY <1>5 DEF Ordinary
  <2>3. e.kind \in {"started", "woke"} => \A u \in DOMAIN log : Kind(u) = "unexpected" => Time(u) < now
    BY <2>2 DEF Asleep
  <2> QED BY <1>5, <2>1, <2>3, <1>2
<1> QED BY <1>1, <1>3, <1>4, <1>5, OthersDoNotBoot

\* Whether a device is there when a record is written.
LEMMA HereWritten ==
  ASSUME NEW n, NEW kind, NEW dev, NEW first, Written(n, Entry(kind, dev, first)), Named(kind, dev), NEW d \in Device
  PROVE  /\ DOMAIN log' = DOMAIN log \cup {n} /\ n \notin DOMAIN log /\ n \in Nat
         /\ SessionOf(n)' = session /\ Time(n)' = now /\ Kind(n)' = kind
         /\ Of(d)' = IF dev = d /\ kind # "fault" THEN Of(d) \cup {n} ELSE Of(d)
         /\ dev = d /\ kind = "connect" => d \in HereAt(n)'
         /\ ~(dev = d /\ kind = "disconnect") /\ d \in attached => d \in HereAt(n)'
         /\ \A k \in DOMAIN log : /\ k < n /\ k \in Nat /\ Kind(k)' = Kind(k) /\ SessionOf(k)' = SessionOf(k)
                                  /\ Time(k)' = Time(k) /\ HereAt(k)' = HereAt(k)
<1> DEFINE e == Entry(kind, dev, first)
<1>1. /\ e.kind = kind /\ e.dev = dev /\ e.session = session /\ e.t = now
      /\ e.here = IF kind = "disconnect" THEN attached \ {dev} ELSE attached \cup ({dev} \cap Device)
  BY DEF Entry
<1>2. Written(n, e)
  OBVIOUS
<1> HIDE DEF e
<1>3. /\ DOMAIN log' = DOMAIN log \cup {n} /\ log'[n] = e /\ n \in Nat
      /\ \A i \in DOMAIN log : i \in Nat /\ i < n /\ log'[i] = log[i]
  BY <1>2 DEF Written
<1>4. n \notin DOMAIN log
  BY <1>3
<1>5. Of(d)' = IF dev = d /\ kind # "fault" THEN Of(d) \cup {n} ELSE Of(d)
  <2>1. Of(d)' = {i \in DOMAIN log' : log'[i].dev = d /\ log'[i].kind # "fault"}
    BY DEF Of
  <2> QED BY <1>1, <1>3, <1>4, <2>1 DEF Of
<1>6. /\ dev = d /\ kind = "connect" => d \in HereAt(n)'
      /\ ~(dev = d /\ kind = "disconnect") /\ d \in attached => d \in HereAt(n)'
  BY <1>1, <1>3 DEF HereAt
<1> QED BY <1>1, <1>3, <1>4, <1>5, <1>6 DEF Kind, SessionOf, Time, HereAt

\* A step that writes and that forgets of no device, gone while the host slept, that it has
\* still to notice it.
LEMMA AttendedWrites ==
  ASSUME Typed, Ports, Noted, Attended, host # "off", session' = session, now' = now,
         NEW kind, NEW dev, NEW first, Named(kind, dev), Write(kind, dev, first),
         \A d \in noticed \ attached :
            (host' = "booting" /\ d \in noticed' \ attached') \/ (dev = d /\ kind = "disconnect")
  PROVE  Attended'
<1>1. PICK n : Written(n, Entry(kind, dev, first))
  BY EntryWritten
<1> SUFFICES ASSUME NEW d \in Device, NEW k \in DOMAIN log', NEW i \in DOMAIN log',
                    i \in Of(d)', i <= k, \A j \in Of(d)' : j <= k => j <= i,
                    Kind(i)' = "connect", SessionOf(i)' = SessionOf(k)'
             PROVE  Present(d, k)'
  BY DEF Attended
<1>2. /\ DOMAIN log' = DOMAIN log \cup {n} /\ n \notin DOMAIN log /\ n \in Nat
      /\ SessionOf(n)' = session /\ Time(n)' = now /\ Kind(n)' = kind
      /\ Of(d)' = IF dev = d /\ kind # "fault" THEN Of(d) \cup {n} ELSE Of(d)
      /\ dev = d /\ kind = "connect" => d \in HereAt(n)'
      /\ ~(dev = d /\ kind = "disconnect") /\ d \in attached => d \in HereAt(n)'
      /\ \A p \in DOMAIN log : /\ p < n /\ p \in Nat /\ Kind(p)' = Kind(p) /\ SessionOf(p)' = SessionOf(p)
                               /\ Time(p)' = Time(p) /\ HereAt(p)' = HereAt(p)
  BY <1>1, HereWritten
<1>3. Of(d) \subseteq DOMAIN log /\ session \in Nat
  BY DEF Of, Typed, HostTypeOK
<1>4. CASE k \in DOMAIN log
  <2>1. i \in Of(d) /\ i \in DOMAIN log /\ \A j \in Of(d) : j <= k => j <= i
    BY <1>2, <1>3, <1>4
  <2>2. Present(d, k)
    BY <1>2, <1>4, <2>1 DEF Attended
  <2>3. CASE d \in HereAt(k)
    BY <1>2, <1>4, <2>3 DEF Present
  <2>4. CASE \E m \in Of(d) : m > k /\ Kind(m) = "disconnect" /\ Time(m) = Time(k)
    <3>1. PICK m \in Of(d) : m > k /\ Kind(m) = "disconnect" /\ Time(m) = Time(k)
      BY <2>4
    <3>2. m \in Of(d)' /\ Kind(m)' = "disconnect" /\ Time(m)' = Time(k)'
      BY <1>2, <1>3, <1>4, <3>1
    <3> QED BY <3>1, <3>2 DEF Present
  <2>5. CASE host = "booting" /\ d \in noticed \ attached /\ Time(k) = now
    <3>1. CASE host' = "booting" /\ d \in noticed' \ attached'
      BY <1>2, <1>4, <2>5, <3>1 DEF Present
    <3>2. CASE dev = d /\ kind = "disconnect"
      <4>1. n \in Of(d)' /\ n > k /\ Kind(n)' = "disconnect" /\ Time(n)' = Time(k)'
        BY <1>2, <1>4, <2>5, <3>2
      <4> QED BY <4>1 DEF Present
    <3> QED BY <2>5, <3>1, <3>2
  <2> QED BY <2>2, <2>3, <2>4, <2>5 DEF Present
<1>5. CASE k = n /\ n \in Of(d)'
  <2>1. i = n
    BY <1>2, <1>3, <1>5
  <2>2. dev = d /\ kind = "connect"
    BY <1>2, <1>3, <1>5, <2>1
  <2> QED BY <1>2, <1>5, <2>2 DEF Present
<1>6. CASE k = n /\ n \notin Of(d)'
  <2>1. Of(d)' = Of(d) /\ ~(dev = d /\ kind = "disconnect")
    BY <1>2, <1>6
  <2>2. i \in DOMAIN log /\ \A j \in Of(d) : j <= i
    BY <1>2, <1>3, <1>6, <2>1
  <2>3. Latest(d, i) /\ Kind(i) = "connect" /\ SessionOf(i) = session
    BY <1>2, <1>6, <2>1, <2>2 DEF Latest
  <2>4. ~(SessionOf(i) < session)
    BY <2>3, <1>3
  <2>5. d \in noticed
    BY <2>2, <2>3, <2>4 DEF Noted
  <2>6. CASE d \in attached
    BY <1>2, <1>6, <2>1, <2>6 DEF Present
  <2>7. CASE d \notin attached
    <3>1. host' = "booting" /\ d \in noticed' \ attached'
      BY <2>1, <2>5, <2>7
    <3> QED BY <1>2, <1>6, <3>1 DEF Present
  <2> QED BY <2>6, <2>7
<1> QED BY <1>2, <1>4, <1>5, <1>6

\* The devices that the records were made with.
LEMMA AttendedKeeps ==
  ASSUME Typed, Ports, Kinds, Noted, Attended, AllRecorded, HostNext
  PROVE  Attended'
<1> USE HostAssumption
<1>a. NoDevice \notin Device /\ habit.sticks \subseteq Device /\ noticed \subseteq Device
  BY DEF Typed, HostTypeOK
<1>1. ASSUME log' = log, ~(host = "booting" /\ \E d \in noticed : d \notin attached)
      PROVE  Attended'
  <2> SUFFICES ASSUME NEW d \in Device, NEW k \in DOMAIN log', NEW i \in DOMAIN log',
                      i \in Of(d)', i <= k, \A j \in Of(d)' : j <= k => j <= i,
                      Kind(i)' = "connect", SessionOf(i)' = SessionOf(k)'
               PROVE  Present(d, k)'
    BY DEF Attended
  <2>1. /\ Of(d)' = Of(d) /\ DOMAIN log' = DOMAIN log
        /\ \A p \in DOMAIN log : /\ Kind(p)' = Kind(p) /\ SessionOf(p)' = SessionOf(p)
                                 /\ Time(p)' = Time(p) /\ HereAt(p)' = HereAt(p)
    BY <1>1 DEF Of, Kind, SessionOf, Time, HereAt
  <2>2. Present(d, k)
    BY <2>1 DEF Attended
  <2>3. d \in HereAt(k) \/ \E m \in Of(d) : m > k /\ Kind(m) = "disconnect" /\ Time(m) = Time(k)
    BY <1>1, <2>2 DEF Present
  <2>4. Of(d) \subseteq DOMAIN log
    BY DEF Of
  <2> QED BY <2>1, <2>3, <2>4 DEF Present
<1>2. CASE Tick
  <2>1. log' = log /\ (host = "booting" /\ pending = <<>> => noticed = attached)
    BY <1>2 DEF Tick
  <2>2. host = "booting" /\ pending # <<>> => noticed = {}
    BY DEF Ports
  <2> QED BY <2>1, <2>2, <1>1
<1>3. CASE Crash \/ Boot \/ BootEnds
  BY <1>3, <1>1 DEF Crash, Boot, BootEnds
<1>4. CASE Activity
  <2>1. Named("running", NoDevice)
    BY DEF Named, HostKind
  <2>2. /\ Write("running", NoDevice, FALSE) /\ noticed = attached /\ host # "off" /\ session' = session
        /\ now' = now
    BY <1>4 DEF Activity, Ports
  <2> QED BY <2>1, <2>2, AttendedWrites
<1>5. CASE Sleep
  <2>1. Named("slept", NoDevice)
    BY DEF Named, HostKind
  <2>2. /\ Write("slept", NoDevice, FALSE) /\ noticed = attached /\ host # "off" /\ session' = session
        /\ now' = now
    BY <1>5 DEF Sleep, Ports
  <2> QED BY <2>1, <2>2, AttendedWrites
<1>6. CASE Wake
  <2>1. Named("woke", NoDevice)
    BY DEF Named, HostKind
  <2>2. /\ Write("woke", NoDevice, FALSE) /\ host # "off" /\ session' = session /\ now' = now
        /\ host' = "booting" /\ noticed' = noticed /\ attached' = attached
    BY <1>6 DEF Wake
  <2> QED BY <2>1, <2>2, AttendedWrites
<1>7. CASE Shutdown
  <2>1. Named("stopped", NoDevice)
    BY DEF Named, HostKind
  <2>2. /\ Write("stopped", NoDevice, FALSE) /\ noticed = attached /\ host # "off" /\ session' = session
        /\ now' = now
    BY <1>7 DEF Shutdown, Ports
  <2> QED BY <2>1, <2>2, AttendedWrites
<1>8. CASE BootWrites
  <2> DEFINE kind == Head(pending)
  <2>1. kind \in {"started", "unexpected"}
    BY <1>8, BootWritesOne
  <2>2. Write(kind, NoDevice, FALSE) /\ host # "off" /\ session' = session /\ now' = now /\ noticed = {}
    BY <1>8 DEF BootWrites, Ports
  <2> HIDE DEF kind
  <2>3. Named(kind, NoDevice)
    BY <2>1 DEF Named, HostKind
  <2> QED BY <2>2, <2>3, AttendedWrites
<1>9. ASSUME NEW d \in habit.sticks, Plug(d)
      PROVE  Attended'
  <2>1. Named("connect", d)
    BY <1>a DEF Named, DeviceKind
  <2>2. Write("connect", d, TRUE) /\ noticed = attached /\ host # "off" /\ session' = session /\ now' = now
    BY <1>9 DEF Plug, Ports
  <2> QED BY <2>1, <2>2, AttendedWrites
<1>10. ASSUME NEW d \in habit.sticks, Unplug(d)
       PROVE  Attended'
  <2>1. Named("disconnect", d)
    BY <1>a DEF Named, DeviceKind
  <2>2. Write("disconnect", d, TRUE) /\ noticed = attached /\ host # "off" /\ session' = session /\ now' = now
    BY <1>10 DEF Unplug, Ports, AllRecorded
  <2> QED BY <2>1, <2>2, AttendedWrites
<1>11. ASSUME NEW d \in habit.sticks, Fault(d)
       PROVE  Attended'
  <2>1. Named("fault", d)
    BY <1>a DEF Named, DeviceKind
  <2>2. Write("fault", d, FALSE) /\ noticed = attached /\ host # "off" /\ session' = session /\ now' = now
    BY <1>11 DEF Fault, Ports
  <2> QED BY <2>1, <2>2, AttendedWrites
<1>12. ASSUME NEW d \in habit.sticks, Echo(d)
       PROVE  Attended'
  <2>1. PICK i \in Of(d) : Write(log[i].kind, d, FALSE)
    BY <1>12 DEF Echo
  <2>2. log[i].kind \in DeviceKind
    BY <1>a DEF Of, Kinds, Kind
  <2>3. Named(log[i].kind, d)
    BY <2>2, <1>a DEF Named
  <2>4. noticed = attached /\ host # "off" /\ session' = session /\ now' = now
    BY <1>12 DEF Echo, Ports
  <2> QED BY <2>1, <2>3, <2>4, AttendedWrites
<1>13. ASSUME NEW d \in habit.sticks, MoveUnseen(d)
       PROVE  Attended'
  BY <1>13, <1>1 DEF MoveUnseen
<1>14. ASSUME NEW d \in habit.sticks, BootNotices(d)
       PROVE  Attended'
  <2>1. /\ host = "booting" /\ host' = host /\ session' = session /\ now' = now /\ attached' = attached
        /\ Named("connect", d) /\ Named("disconnect", d)
    BY <1>14, <1>a DEF BootNotices, Named, DeviceKind
  <2>2. CASE d \in attached \ noticed /\ noticed' = noticed \cup {d} /\ Write("connect", d, TRUE)
    <3>1. \A c \in noticed \ attached : c \in noticed' \ attached' /\ host' = "booting"
      BY <2>1, <2>2
    <3> QED BY <2>1, <2>2, <3>1, AttendedWrites
  <2>3. CASE d \in noticed \ attached /\ noticed' = noticed \ {d} /\ Write("disconnect", d, TRUE)
    <3>1. \A c \in noticed \ attached : (c \in noticed' \ attached' /\ host' = "booting") \/ d = c
      BY <2>1, <2>3
    <3> QED BY <2>1, <2>3, <3>1, AttendedWrites
  <2> QED BY <1>14, <2>2, <2>3 DEF BootNotices
<1> QED BY <1>2, <1>3, <1>4, <1>5, <1>6, <1>7, <1>8, <1>9, <1>10, <1>11, <1>12, <1>13, <1>14 DEF HostNext

-----------------------------------------------------------------------------
(* The invariant is one.                                                    *)

\* A host that has only just booted owes nothing.
LEMMA InitEstablishes ==
  ASSUME Init
  PROVE  IInv
<1> USE HostAssumption
<1>1. /\ habit \in Habits /\ now = 0 /\ session = 1 /\ host = "on" /\ died = -1
      /\ pending = <<>> /\ log = <<>> /\ attached \in SUBSET habit.sticks /\ noticed = attached
  BY DEF Init, HostInit
<1>2. Typed
  <2>1. attached \subseteq Device
    BY <1>1
  <2>2. log \in Seq(Record) /\ Len(log) <= MaxLog /\ pending \in Seq({"started", "unexpected"})
    BY <1>1
  <2>3. now \in 0..MaxTime /\ died \in -1..MaxTime
    BY <1>1
  <2> QED BY <1>1, <2>1, <2>2, <2>3 DEF Typed, HostTypeOK
<1>3. DOMAIN log = {} /\ DOMAIN pending = {} /\ \A d : Of(d) = {}
  BY <1>1 DEF Of
<1>4. Ports /\ Kinds /\ Ordered /\ Boots
  BY <1>1, <1>3 DEF Ports, Kinds, Ordered, Boots, Owed
<1>5. Noted /\ Firsts /\ Reports /\ Asleep /\ Attended
  BY <1>1, <1>3 DEF Noted, Firsts, Reports, Asleep, Attended
<1>6. Unreported
  BY <1>1, <1>3 DEF Unreported, Owed
<1> QED BY <1>2, <1>4, <1>5, <1>6 DEF IInv, Host, Recorded

\* What a step that leaves the host alone keeps.
LEMMA StutterKeeps ==
  ASSUME UNCHANGED hostVars
  PROVE  (Host => Host') /\ (Recorded => Recorded') /\ (AllRecorded' <=> AllRecorded)
<1>1. /\ habit' = habit /\ now' = now /\ host' = host /\ session' = session /\ attached' = attached
      /\ noticed' = noticed /\ died' = died /\ pending' = pending /\ log' = log
  BY DEF hostVars
<1>2. /\ Typed => Typed'
      /\ Ports => Ports'
      /\ AllRecorded' <=> AllRecorded
  BY <1>1 DEF Typed, HostTypeOK, Ports, AllRecorded
<1>3. /\ Kinds => Kinds'
      /\ Ordered => Ordered'
      /\ Boots => Boots'
  BY <1>1 DEF Kinds, Ordered, Boots, Owed, Kind, SessionOf, Time
<1>4. \A d : Of(d)' = Of(d)
  BY <1>1 DEF Of
<1>5. (Noted => Noted') /\ (Firsts => Firsts')
  BY <1>1, <1>4 DEF Noted, Firsts, Latest, Precedes, Kind, SessionOf, Time, FirstOf
<1>6. Reports => Reports'
  BY <1>1 DEF Reports, AfterStart, Kind, SessionOf, Time, StopOf
<1>7. (Unreported => Unreported') /\ (Asleep => Asleep')
  BY <1>1 DEF Unreported, Asleep, Owed, StartToCome, StartWritten, Kind, SessionOf, Time
<1>8. Attended => Attended'
  BY <1>1, <1>4 DEF Attended, Present, Kind, SessionOf, Time, HereAt
<1> QED BY <1>2, <1>3, <1>5, <1>6, <1>7, <1>8 DEF Host, Recorded

\* Every step keeps it: the host's by its kind, the stutter for it changes nothing.
LEMMA StepKeeps ==
  ASSUME IInv, [Next]_vars
  PROVE  IInv'
<1>1. CASE HostNext
  <2>1. Typed /\ Ports /\ Kinds /\ Ordered /\ Boots
    BY DEF IInv, Host
  <2>2. Shape
    BY <1>1, <2>1, Shapes
  <2>3. Host'
    BY <1>1, <2>1, <2>2, TypedKeeps, PortsKeep, KindsKeep, OrderedKeeps, BootsKeep DEF Host
  <2>4. AllRecorded' <=> AllRecorded
    BY <2>2 DEF Shape, AllRecorded
  <2>5. ASSUME AllRecorded
        PROVE  Recorded'
    <3>1. Noted /\ Firsts /\ Reports /\ Unreported /\ Asleep /\ Attended
      BY <2>5 DEF IInv, Recorded
    <3>2. Noted' /\ Firsts'
      BY <1>1, <2>1, <2>5, <3>1, NotedKeeps, FirstsKeep
    <3>3. Reports' /\ Unreported' /\ Asleep'
      BY <1>1, <2>1, <2>5, <3>1, ReportsKeep, UnreportedKeeps, AsleepKeeps
    <3>4. Attended'
      BY <1>1, <2>1, <2>5, <3>1, AttendedKeeps
    <3> QED BY <3>2, <3>3, <3>4 DEF Recorded
  <2> QED BY <2>3, <2>4, <2>5 DEF IInv
<1>2. CASE UNCHANGED hostVars
  BY <1>2, StutterKeeps DEF IInv
<1> QED BY <1>1, <1>2, StepsOfTheHost

\* The invariant holds of every host in every behaviour.
THEOREM Inductive == Spec => []IInv
<1>1. Init => IInv
  BY InitEstablishes
<1>2. IInv /\ [Next]_vars => IInv'
  BY StepKeeps
<1> QED BY <1>1, <1>2, PTL DEF Spec

-----------------------------------------------------------------------------
(* The views over one log.                                                  *)

\* The row before and the row after one of a set of rows.
LEMMA Neighbours ==
  ASSUME Typed, NEW S \in SUBSET DOMAIN log, NEW i \in DOMAIN log
  PROVE  /\ \/ Lag(S, i) = Null /\ \A j \in S : ~(j < i)
            \/ Lag(S, i) # Null /\ Lag(S, i) \in S /\ Lag(S, i) < i /\ \A j \in S : j < i => j <= Lag(S, i)
         /\ \/ Lead(S, i) = Null /\ \A j \in S : ~(j > i)
            \/ Lead(S, i) # Null /\ Lead(S, i) \in S /\ Lead(S, i) > i /\ \A j \in S : j > i => Lead(S, i) <= j
<1> DEFINE earlier == {j \in S : j < i}  later == {j \in S : j > i}
<1>1. /\ earlier \in SUBSET Int /\ IsFiniteSet(earlier) /\ later \in SUBSET Int /\ IsFiniteSet(later)
      /\ \A j \in S : j \in Nat /\ j # -1
  BY LogFacts
<1>2. Lag(S, i) = MaxOf(earlier) /\ Lead(S, i) = MinOf(later)
  BY DEF Lag, Lead
<1>3. \/ MaxOf(earlier) = Null /\ earlier = {}
      \/ MaxOf(earlier) \in earlier /\ \A j \in earlier : j <= MaxOf(earlier)
  BY <1>1, MaxOfPicks
<1>4. \/ MinOf(later) = Null /\ later = {}
      \/ MinOf(later) \in later /\ \A j \in later : MinOf(later) <= j
  BY <1>1, MinOfPicks
<1> QED BY <1>1, <1>2, <1>3, <1>4 DEF Null

\* The state of a record is one of two.
LEMMA States ==
  ASSUME Typed, Kinds, NEW d \in Device
  PROVE  /\ StateChange(d) \subseteq DOMAIN log /\ Transitions(StateChange(d)) \subseteq StateChange(d)
         /\ StateChange(d) = Of(d)
         /\ \A i \in StateChange(d) :
              /\ State(i) = "arrival" <=> Kind(i) = "connect"
              /\ State(i) = "departure" <=> Kind(i) = "disconnect"
              /\ Kind(i) \in {"connect", "disconnect"} /\ log[i].dev = d
<1>1. \A i \in StateChange(d) : i \in DOMAIN log /\ log[i].dev = d /\ Kind(i) # "fault"
  BY DEF StateChange, Kind
<1>2. \A i \in StateChange(d) : Kind(i) \in {"connect", "disconnect"}
  BY <1>1 DEF Kinds, DeviceKind
<1> QED BY <1>1, <1>2 DEF StateChange, State, Transitions, Kind, Of

\* The reports of unclean stops, and the times they give.
LEMMA StopFacts ==
  ASSUME Typed, NEW u \in UncleanStop
  PROVE  /\ u.id \in DOMAIN log /\ Kind(u.id) = "unexpected" /\ u.reported = Time(u.id)
         /\ u.associated = BootAssociated(u.id)
         /\ u.after \in -1..MaxTime /\ u.before \in -1..MaxTime
         /\ u.before <= Time(u.id) /\ (~u.associated => u.after = Null)
<1>1. PICK i \in DOMAIN log : log[i].kind = "unexpected" /\
        u = [id |-> i, reported |-> Time(i), associated |-> BootAssociated(i),
             before |-> IF BootAssociated(i) THEN CandidateBoot(i) ELSE Time(i),
             after |-> IF BootAssociated(i)
                       THEN MaxOf({Time(j) : j \in {k \in DOMAIN log : Time(k) < CandidateBoot(i)}})
                       ELSE Null]
  BY DEF UncleanStop
<1> DEFINE boots == {Time(j) : j \in {k \in DOMAIN log : /\ log[k].kind \in {"started", "woke"}
                                                          /\ Time(k) <= Time(i)}}
           before == {Time(j) : j \in {k \in DOMAIN log : Time(k) < CandidateBoot(i)}}
<1>2. /\ boots \in SUBSET Int /\ IsFiniteSet(boots) /\ boots \subseteq 0..MaxTime
      /\ before \in SUBSET Int /\ IsFiniteSet(before) /\ before \subseteq 0..MaxTime
      /\ \A t \in boots : t <= Time(i)
  <2>1. boots \subseteq 0..MaxTime /\ before \subseteq 0..MaxTime
    BY LogFacts
  <2>2. boots \subseteq -1..MaxTime /\ before \subseteq -1..MaxTime
    BY <2>1
  <2> QED BY <2>1, <2>2, LogFacts
<1>3. MaxOf(boots) = Null \/ MaxOf(boots) \in boots
  BY <1>2, MaxOfPicks
<1>4. MaxOf(before) = Null \/ MaxOf(before) \in before
  BY <1>2, MaxOfPicks
<1>5. Time(i) \in 0..MaxTime /\ MaxTime \in Nat
  BY LogFacts
<1> HIDE DEF boots, before
<1>6. CandidateBoot(i) = MaxOf(boots)
  BY DEF CandidateBoot, boots
<1>a. \A t \in {Null} \cup 0..MaxTime : t \in -1..MaxTime
  BY <1>5 DEF Null
<1>b. MaxOf(boots) \in {Null} \cup 0..MaxTime /\ MaxOf(before) \in {Null} \cup 0..MaxTime
  BY <1>2, <1>3, <1>4
<1>c. MaxOf(boots) <= Time(i)
  <2>1. CASE MaxOf(boots) = Null
    BY <1>5, <2>1 DEF Null
  <2>2. CASE MaxOf(boots) \in boots
    BY <1>2, <2>2
  <2> QED BY <1>3, <2>1, <2>2
<1>7. CandidateBoot(i) \in -1..MaxTime /\ CandidateBoot(i) <= Time(i)
  BY <1>a, <1>b, <1>c, <1>6
<1>8. MaxOf(before) \in -1..MaxTime
  BY <1>a, <1>b
<1>9. Null \in -1..MaxTime
  BY <1>5 DEF Null
<1>10. u.after = IF BootAssociated(i) THEN MaxOf(before) ELSE Null
  BY <1>1 DEF before
<1>11. u.before = IF BootAssociated(i) THEN CandidateBoot(i) ELSE Time(i)
  BY <1>1
<1>12. u.after \in -1..MaxTime
  BY <1>8, <1>9, <1>10
<1>13. u.before \in -1..MaxTime /\ u.before <= Time(i)
  BY <1>5, <1>7, <1>11
<1> QED BY <1>1, <1>10, <1>12, <1>13 DEF Kind

\* Whether the earliest of the stops that are dated after t is there, and what it is.
LEMMA BoundingStops ==
  ASSUME Typed, NEW t \in Int
  PROVE  /\ \A v \in BoundingStop(t) : v \in UncleanStop /\ v.after > t
         /\ \A u \in UncleanStop : u.after > t =>
              \E v \in BoundingStop(t) : v.after <= u.after
         /\ \A v, w \in BoundingStop(t) : v.after = w.after
<1> DEFINE U == {u \in UncleanStop : u.after > t}
           times == {u.after : u \in U}
<1>1. \A u \in U : u.id \in DOMAIN log /\ u.after \in -1..MaxTime /\ u.after \in Int /\ u.id \in Nat
  BY StopFacts, LogFacts
<1>2. times \in SUBSET Int /\ IsFiniteSet(times)
  <2>1. times \subseteq -1..MaxTime
    BY <1>1
  <2> QED BY <2>1, LogFacts
<1>3. ASSUME NEW u \in U
      PROVE  \E v \in BoundingStop(t) : v.after <= u.after
  <2>a. times # {}
    BY <1>3
  <2>1. PICK a \in times : \A b \in times : a <= b
    <3> HIDE DEF times
    <3> QED BY <1>2, <2>a, LeastExists
  <2> DEFINE ids == {v.id : v \in {w \in U : w.after = a}}
  <2>2. ids \subseteq DOMAIN log /\ ids # {}
    BY <1>1, <2>1
  <2>3. ids \in SUBSET Int /\ IsFiniteSet(ids)
    BY <2>2, LogFacts
  <2>4. PICK n \in ids : \A m \in ids : n <= m
    BY <2>2, <2>3, LeastExists
  <2>5. PICK v \in U : v.after = a /\ v.id = n
    BY <2>4
  <2>6. \A w \in U : v.after <= w.after /\ (w.after = v.after => v.id <= w.id)
    BY <2>1, <2>4, <2>5
  <2>7. \A w \in U : v.after < w.after \/ (v.after = w.after /\ v.id <= w.id)
    BY <1>1, <2>6
  <2>8. v \in BoundingStop(t)
    BY <2>7 DEF BoundingStop
  <2> QED BY <2>6, <2>8, <1>3
<1>4. \A v \in BoundingStop(t) : v \in U
  BY DEF BoundingStop
<1>5. ASSUME NEW v \in BoundingStop(t), NEW w \in BoundingStop(t)
      PROVE  v.after = w.after
  <2>1. v.after < w.after \/ v.after = w.after
    BY <1>4 DEF BoundingStop
  <2>2. w.after < v.after \/ v.after = w.after
    BY <1>4 DEF BoundingStop
  <2>3. v.after \in Int /\ w.after \in Int
    BY <1>1, <1>4
  <2> QED BY <2>1, <2>2, <2>3
<1> QED BY <1>3, <1>4, <1>5

\* The moments of clean stops later than one, and the bounds of the unclean stop after it.
Offs(t) == {s \in HostStopped : s > t}
Afters(t) == {u.after : u \in BoundingStop(t)}
Befores(t) == {u.before : u \in BoundingStop(t)}

\* A window that an arrival opened, by what came next.
LEMMA OpenedFields ==
  ASSUME NEW d, NEW i, NEW w, w = Opened(d, i), NEW next, next = Lead(Transitions(StateChange(d)), i)
  PROVE  /\ w.dev = d /\ w.started = Time(i) /\ w.openedBy = i
         /\ next = Null => /\ w.ended = Null /\ w.endedBefore = Null /\ w.closedBy = Null
                           /\ w.hostStopped = MinOf(Offs(Time(i)))
                           /\ w.stoppedAfter = MinOf(Afters(Time(i)))
                           /\ w.stoppedBefore = MinOf(Befores(Time(i)))
         /\ next # Null /\ State(next) = "departure" =>
              w.ended = Time(next) /\ w.endedBefore = Null /\ (Time(next) # Null => w.closedBy = next)
         /\ next # Null /\ State(next) = "arrival" =>
              w.ended = Null /\ w.endedBefore = Time(next) /\ w.closedBy = Null
         /\ w.ended # Null \/ w.endedBefore # Null =>
              w.hostStopped = Null /\ w.stoppedAfter = Null /\ w.stoppedBefore = Null
<1>1. State(next) \in {"arrival", "departure"}
  BY DEF State
<1>2. \A u : {v.after : v \in {}} = {} /\ {v.before : v \in {}} = {} /\ MinOf({}) = Null
  BY DEF MinOf
<1> QED BY <1>1, <1>2 DEF Opened, Offs, Afters, Befores

\* A window is one that an arrival opened, or the first departure.
LEMMA WindowCases ==
  ASSUME NEW d, NEW w \in Connection(d)
  PROVE  \E i \in Transitions(StateChange(d)) :
           \/ State(i) = "arrival" /\ w = Opened(d, i)
           \/ State(i) = "departure" /\ Lag(StateChange(d), i) = Null /\ w = Unopened(d, i)
BY DEF Connection

\* The bounds of a window that nothing closed.
LEMMA OpenBounds ==
  ASSUME Typed, NEW t \in 0..MaxTime,
         NEW off, off = MinOf(Offs(t)),
         NEW after, after = MinOf(Afters(t)),
         NEW before, before = MinOf(Befores(t))
  PROVE  /\ {off, after, before} \subseteq {Null} \cup 0..MaxTime
         /\ off # Null => off \in HostStopped /\ off > t /\ \A s \in HostStopped : s > t => off <= s
         /\ off = Null => \A s \in HostStopped : ~(s > t)
         /\ after # Null => after > t /\ \E u \in BoundingStop(t) : u.after = after
         /\ after = Null => BoundingStop(t) = {}
<1> DEFINE offs == Offs(t)
           afters == Afters(t)
           befores == Befores(t)
<1> USE DEF Offs, Afters, Befores
<1>1. t \in Int /\ t >= 0 /\ MaxTime \in Nat /\ \A s \in 0..MaxTime : s \in Int /\ s # Null
  BY LogFacts DEF Null
<1>2. HostStopped \subseteq 0..MaxTime
  BY LogFacts DEF HostStopped
<1>3. \A u \in BoundingStop(t) : u.after \in -1..MaxTime /\ u.before \in -1..MaxTime /\ u.after > t
  BY <1>1, BoundingStops, StopFacts
<1>4. \A x \in -1..MaxTime : x \in {Null} \cup 0..MaxTime
  BY <1>1 DEF Null
<1>5. offs \subseteq 0..MaxTime /\ offs \subseteq -1..MaxTime /\ afters \subseteq -1..MaxTime /\ befores \subseteq -1..MaxTime
  <2>1. offs \subseteq 0..MaxTime
    BY <1>2
  <2>2. offs \subseteq -1..MaxTime
    BY <1>1, <2>1
  <2>3. afters \subseteq -1..MaxTime /\ befores \subseteq -1..MaxTime
    BY <1>3
  <2> QED BY <2>1, <2>2, <2>3
<1>6. /\ offs \in SUBSET Int /\ IsFiniteSet(offs) /\ afters \in SUBSET Int /\ IsFiniteSet(afters)
      /\ befores \in SUBSET Int /\ IsFiniteSet(befores)
  BY <1>5, LogFacts
<1>7. \/ off \in offs /\ \A s \in offs : off <= s
      \/ off = Null /\ offs = {}
  BY <1>6, MinOfPicks
<1>8. \/ after \in afters
      \/ after = Null /\ afters = {}
  BY <1>6, MinOfPicks
<1>9. \/ before \in befores
      \/ before = Null /\ befores = {}
  BY <1>6, MinOfPicks
<1>10. off \in {Null} \cup 0..MaxTime /\ after \in {Null} \cup 0..MaxTime /\ before \in {Null} \cup 0..MaxTime
  BY <1>4, <1>5, <1>7, <1>8, <1>9
<1>11. /\ off # Null => off \in HostStopped /\ off > t /\ \A s \in HostStopped : s > t => off <= s
       /\ off = Null => \A s \in HostStopped : ~(s > t)
  BY <1>1, <1>5, <1>7
<1>12. \A u \in BoundingStop(t) : u.after # Null
  BY <1>1, <1>3 DEF Null
<1>13. after # Null => after > t /\ \E u \in BoundingStop(t) : u.after = after
  BY <1>3, <1>8
<1>14. after = Null => BoundingStop(t) = {}
  BY <1>8, <1>12
<1> QED BY <1>10, <1>11, <1>13, <1>14

\* A window that an arrival opened: the next change closes it or ends it, or there is none.
LEMMA OpenedWindow ==
  ASSUME Typed, Kinds, Ordered, NEW d \in Device, NEW i \in Transitions(StateChange(d)),
         NEW w, w = Opened(d, i)
  PROVE  /\ w.dev = d /\ w.started = Time(i) /\ w.openedBy = i /\ Time(i) \in 0..MaxTime /\ i \in DOMAIN log
         /\ \/ /\ \A j \in Transitions(StateChange(d)) : ~(j > i)
               /\ w.ended = Null /\ w.endedBefore = Null
               /\ w.hostStopped = MinOf(Offs(Time(i)))
               /\ w.stoppedAfter = MinOf(Afters(Time(i)))
               /\ w.stoppedBefore = MinOf(Befores(Time(i)))
            \/ \E n \in Transitions(StateChange(d)) :
                  /\ n \in DOMAIN log /\ n > i /\ Time(i) <= Time(n) /\ Time(n) \in 0..MaxTime
                  /\ \A j \in Transitions(StateChange(d)) : j > i => n <= j
                  /\ w.hostStopped = Null /\ w.stoppedAfter = Null /\ w.stoppedBefore = Null
                  /\ \/ State(n) = "departure" /\ w.ended = Time(n) /\ w.endedBefore = Null /\ w.closedBy = n
                     \/ State(n) = "arrival" /\ w.ended = Null /\ w.endedBefore = Time(n)
<1> DEFINE T == Transitions(StateChange(d))
           next == Lead(T, i)
<1>1. T \subseteq DOMAIN log /\ i \in T /\ i \in DOMAIN log
  BY States
<1>2. \A j \in DOMAIN log : Time(j) \in 0..MaxTime /\ Time(j) # Null /\ j \in Nat
  BY LogFacts DEF Null
<1>3. /\ w.dev = d /\ w.started = Time(i) /\ w.openedBy = i
      /\ next = Null => /\ w.ended = Null /\ w.endedBefore = Null
                        /\ w.hostStopped = MinOf(Offs(Time(i)))
                        /\ w.stoppedAfter = MinOf(Afters(Time(i)))
                        /\ w.stoppedBefore = MinOf(Befores(Time(i)))
      /\ next # Null /\ State(next) = "departure" =>
           w.ended = Time(next) /\ w.endedBefore = Null /\ (Time(next) # Null => w.closedBy = next)
      /\ next # Null /\ State(next) = "arrival" =>
           w.ended = Null /\ w.endedBefore = Time(next) /\ w.closedBy = Null
      /\ w.ended # Null \/ w.endedBefore # Null =>
           w.hostStopped = Null /\ w.stoppedAfter = Null /\ w.stoppedBefore = Null
  BY OpenedFields
<1>4. \/ next = Null /\ \A j \in T : ~(j > i)
      \/ next # Null /\ next \in T /\ next > i /\ \A j \in T : j > i => next <= j
  BY <1>1, Neighbours
<1> HIDE DEF next
<1>5. CASE next = Null
  BY <1>1, <1>2, <1>3, <1>4, <1>5
<1>6. CASE next # Null
  <2>1. next \in DOMAIN log /\ next > i /\ Time(i) <= Time(next)
    <3>1. next \in DOMAIN log /\ next > i
      BY <1>1, <1>4, <1>6
    <3>2. i <= next
      BY <1>1, <1>2, <3>1
    <3> QED BY <1>1, <3>1, <3>2 DEF Ordered
  <2>2. State(next) = "departure" \/ State(next) = "arrival"
    BY DEF State
  <2>3. Time(next) # Null
    BY <1>2, <2>1
  <2> QED BY <1>1, <1>2, <1>3, <1>4, <1>6, <2>1, <2>2, <2>3
<1> QED BY <1>5, <1>6

\* Windows are in order.
LEMMA InOrder ==
  ASSUME Typed, Kinds, Ordered
  PROVE  WindowsInOrder
<1> SUFFICES ASSUME NEW d \in Device, NEW w \in Connection(d)
             PROVE  /\ {w.started, w.ended, w.endedBefore, w.hostStopped, w.stoppedAfter, w.stoppedBefore}
                          \subseteq {Null} \union 0..MaxTime
                    /\ w.ended = Null \/ w.endedBefore = Null
                    /\ \A t \in {w.ended, w.endedBefore, w.hostStopped, w.stoppedAfter} \ {Null} : w.started <= t
  BY DEF WindowsInOrder, Typed
<1>1. PICK i \in Transitions(StateChange(d)) :
        \/ State(i) = "arrival" /\ w = Opened(d, i)
        \/ State(i) = "departure" /\ Lag(StateChange(d), i) = Null /\ w = Unopened(d, i)
  BY WindowCases
<1>2. MaxTime \in Nat /\ \A t \in 0..MaxTime : t \in Int /\ t # Null /\ Null <= t
  BY LogFacts DEF Null
<1>3. CASE w = Opened(d, i)
  <2>1. /\ w.started = Time(i) /\ Time(i) \in 0..MaxTime
        /\ \/ /\ w.ended = Null /\ w.endedBefore = Null
              /\ w.hostStopped = MinOf(Offs(Time(i)))
              /\ w.stoppedAfter = MinOf(Afters(Time(i)))
              /\ w.stoppedBefore = MinOf(Befores(Time(i)))
           \/ \E n \in Transitions(StateChange(d)) :
                 /\ Time(i) <= Time(n) /\ Time(n) \in 0..MaxTime
                 /\ w.hostStopped = Null /\ w.stoppedAfter = Null /\ w.stoppedBefore = Null
                 /\ \/ w.ended = Time(n) /\ w.endedBefore = Null
                    \/ w.ended = Null /\ w.endedBefore = Time(n)
    BY <1>3, OpenedWindow
  <2>2. CASE /\ w.ended = Null /\ w.endedBefore = Null
             /\ w.hostStopped = MinOf(Offs(Time(i)))
             /\ w.stoppedAfter = MinOf(Afters(Time(i)))
             /\ w.stoppedBefore = MinOf(Befores(Time(i)))
    <3>1. /\ {w.hostStopped, w.stoppedAfter, w.stoppedBefore} \subseteq {Null} \cup 0..MaxTime
          /\ w.hostStopped # Null => w.hostStopped > Time(i)
          /\ w.stoppedAfter # Null => w.stoppedAfter > Time(i)
      BY <2>1, <2>2, OpenBounds
    <3>2. /\ w.hostStopped # Null => Time(i) <= w.hostStopped
          /\ w.stoppedAfter # Null => Time(i) <= w.stoppedAfter
      BY <1>2, <2>1, <3>1
    <3> QED BY <2>1, <2>2, <3>1, <3>2
  <2>3. CASE \E n \in Transitions(StateChange(d)) :
                 /\ Time(i) <= Time(n) /\ Time(n) \in 0..MaxTime
                 /\ w.hostStopped = Null /\ w.stoppedAfter = Null /\ w.stoppedBefore = Null
                 /\ \/ w.ended = Time(n) /\ w.endedBefore = Null
                    \/ w.ended = Null /\ w.endedBefore = Time(n)
    BY <2>1, <2>3
  <2> QED BY <2>1, <2>2, <2>3
<1>4. CASE w = Unopened(d, i)
  <2>1. i \in DOMAIN log
    BY States
  <2>2. Time(i) \in 0..MaxTime
    BY <2>1, LogFacts
  <2>3. /\ w.started = Null /\ w.ended = Time(i) /\ w.endedBefore = Null /\ w.hostStopped = Null
        /\ w.stoppedAfter = Null /\ w.stoppedBefore = Null
    BY <1>4 DEF Unopened
  <2> QED BY <1>2, <2>2, <2>3
<1> QED BY <1>1, <1>3, <1>4

\* A removal closes them.
LEMMA ClosedByRemoval ==
  ASSUME Typed, Kinds, Ordered
  PROVE  EndIsRemoval
<1> SUFFICES ASSUME NEW d \in Device, NEW w \in Connection(d), w.ended # Null
             PROVE  d \notin log[w.closedBy].here
  BY DEF EndIsRemoval
<1>1. PICK i \in Transitions(StateChange(d)) :
        \/ State(i) = "arrival" /\ w = Opened(d, i)
        \/ State(i) = "departure" /\ Lag(StateChange(d), i) = Null /\ w = Unopened(d, i)
  BY WindowCases
<1>2. w.closedBy \in Transitions(StateChange(d)) /\ State(w.closedBy) = "departure"
  <2>1. CASE w = Opened(d, i)
    BY <2>1, OpenedWindow
  <2>2. CASE w = Unopened(d, i) /\ State(i) = "departure"
    BY <2>2 DEF Unopened
  <2> QED BY <1>1, <2>1, <2>2
<1>3. w.closedBy \in DOMAIN log /\ Kind(w.closedBy) = "disconnect" /\ log[w.closedBy].dev = d
  BY <1>2, States
<1> QED BY <1>3 DEF Kinds

\* One follows the other.
LEMMA OneAfterAnother ==
  ASSUME Typed, Kinds, Ordered, NEW d \in Device,
         NEW i \in Transitions(StateChange(d)), NEW j \in Transitions(StateChange(d)), i < j,
         NEW v, v = Opened(d, i), NEW w, w = Opened(d, j)
  PROVE  \/ v.ended # Null /\ (w.started # Null /\ v.ended <= w.started)
         \/ v.endedBefore # Null /\ w.started >= v.endedBefore
<1>1. i \in DOMAIN log /\ j \in DOMAIN log /\ \A k \in DOMAIN log : Time(k) \in Nat /\ Time(k) # Null /\ k \in Nat
  BY States, LogFacts DEF Null
<1>2. w.started = Time(j)
  BY OpenedWindow
<1>3. PICK n \in Transitions(StateChange(d)) :
        /\ n \in DOMAIN log /\ n <= j
        /\ \/ v.ended = Time(n)
           \/ v.endedBefore = Time(n)
  <2>1. j > i
    BY <1>1
  <2> QED BY <2>1, OpenedWindow
<1>4. Time(n) <= Time(j)
  BY <1>1, <1>3 DEF Ordered
<1> QED BY <1>1, <1>2, <1>3, <1>4

\* The windows of a device follow each other.
LEMMA Apart ==
  ASSUME Typed, Kinds, Ordered
  PROVE  WindowsApart
<1> SUFFICES ASSUME NEW d \in Device, NEW v \in Connection(d), NEW w \in Connection(d), v # w
             PROVE  \/ v.ended # Null /\ (w.started # Null /\ v.ended <= w.started)
                    \/ w.ended # Null /\ (v.started # Null /\ w.ended <= v.started)
                    \/ v.endedBefore # Null /\ w.started >= v.endedBefore
                    \/ w.endedBefore # Null /\ v.started >= w.endedBefore
  BY DEF WindowsApart
<1> DEFINE S == StateChange(d)
<1>1. PICK i \in Transitions(S) :
        \/ State(i) = "arrival" /\ v = Opened(d, i)
        \/ State(i) = "departure" /\ Lag(S, i) = Null /\ v = Unopened(d, i)
  BY WindowCases
<1>2. PICK j \in Transitions(S) :
        \/ State(j) = "arrival" /\ w = Opened(d, j)
        \/ State(j) = "departure" /\ Lag(S, j) = Null /\ w = Unopened(d, j)
  BY WindowCases
<1>3. /\ S \subseteq DOMAIN log /\ i \in S /\ j \in S /\ i \in DOMAIN log /\ j \in DOMAIN log
      /\ \A k \in DOMAIN log : Time(k) \in Nat /\ Time(k) # Null /\ k \in Nat
  BY States, LogFacts DEF Null
<1> HIDE DEF S
<1>4. ASSUME NEW k \in S, NEW m \in S, Lag(S, k) = Null, k # m
      PROVE  k < m /\ Time(k) <= Time(m)
  <2>1. \A p \in S : ~(p < k)
    BY <1>3, <1>4, Neighbours
  <2>2. k < m /\ k <= m
    BY <1>3, <1>4, <2>1
  <2> QED BY <1>3, <1>4, <2>2 DEF Ordered
<1>5. CASE v = Opened(d, i) /\ w = Opened(d, j)
  <2>1. i # j
    BY <1>5
  <2>2. i < j \/ j < i
    BY <1>3, <2>1
  <2> QED BY <1>5, <2>2, OneAfterAnother DEF S
<1>6. CASE /\ v = Unopened(d, i) /\ State(i) = "departure" /\ Lag(S, i) = Null
           /\ w = Opened(d, j) /\ State(j) = "arrival"
  <2>1. i # j
    BY <1>6
  <2>2. v.ended = Time(i) /\ w.started = Time(j)
    BY <1>6, OpenedWindow DEF Unopened, S
  <2> QED BY <1>3, <1>4, <1>6, <2>1, <2>2
<1>7. CASE /\ w = Unopened(d, j) /\ State(j) = "departure" /\ Lag(S, j) = Null
           /\ v = Opened(d, i) /\ State(i) = "arrival"
  <2>1. i # j
    BY <1>7
  <2>2. w.ended = Time(j) /\ v.started = Time(i)
    BY <1>7, OpenedWindow DEF Unopened, S
  <2> QED BY <1>3, <1>4, <1>7, <2>1, <2>2
<1>8. CASE v = Unopened(d, i) /\ w = Unopened(d, j) /\ Lag(S, i) = Null /\ Lag(S, j) = Null
  <2>1. i # j
    BY <1>8
  <2>2. i < j /\ j < i
    BY <1>3, <1>4, <1>8, <2>1
  <2> QED BY <1>3, <2>2
<1> QED BY <1>1, <1>2, <1>5, <1>6, <1>7, <1>8

\* Whatever is read out of any log, in whatever state it was collected, is windows: in order, closed
\* by removals only, and one after the other.
THEOREM WellFormed == Spec => []WindowsWellFormed
<1>1. IInv => WindowsWellFormed
  BY InOrder, ClosedByRemoval, Apart DEF IInv, Host, WindowsWellFormed
<1> QED BY <1>1, Inductive, PTL

-----------------------------------------------------------------------------
(* What the windows of a host that records everything say of it.            *)

\* The first records of the changes are those that open clusters.
LEMMA FirstIsTransition ==
  ASSUME Typed, Kinds, Firsts, NEW d \in Device, NEW i \in StateChange(d)
  PROVE  i \in Transitions(StateChange(d)) <=> FirstOf(i)
<1> DEFINE S == StateChange(d)
<1>1. S \subseteq DOMAIN log /\ S = Of(d) /\ i \in DOMAIN log
  BY States
<1>2. \A k \in S : State(k) = State(i) <=> Kind(k) = Kind(i)
  BY States
<1>3. \A k \in S : k \in Nat /\ k # Null
  BY <1>1, LogFacts DEF Null
<1>4. i \in Transitions(S) <=> (Lag(S, i) # Null =>
          State(Lag(S, i)) # State(i) \/ Time(i) - Time(Lag(S, i)) > Tolerance)
  BY DEF Transitions
<1>5. FirstOf(i) <=>
        \A p \in DOMAIN log : Precedes(d, p, i) => Kind(p) # Kind(i) \/ Time(i) - Time(p) > Tolerance
  BY <1>1 DEF Firsts
<1>6. CASE Lag(S, i) = Null
  <2>1. \A j \in S : ~(j < i)
    BY <1>1, <1>3, <1>6, Neighbours
  <2>2. \A p : ~Precedes(d, p, i)
    BY <1>1, <2>1 DEF Precedes
  <2> QED BY <1>4, <1>5, <1>6, <2>2
<1>7. CASE Lag(S, i) # Null
  <2>1. PICK l : l = Lag(S, i)
    OBVIOUS
  <2>2. l \in S /\ l < i /\ \A j \in S : j < i => j <= l
    BY <1>1, <1>7, <2>1, Neighbours
  <2>3. Precedes(d, l, i)
    BY <1>1, <2>2 DEF Precedes
  <2>4. ASSUME NEW p, Precedes(d, p, i)
        PROVE  p = l
    <3>1. p \in S /\ p <= l /\ l <= p
      BY <1>1, <2>2, <2>4 DEF Precedes
    <3> QED BY <1>3, <2>2, <3>1
  <2>5. FirstOf(i) <=> (Kind(l) # Kind(i) \/ Time(i) - Time(l) > Tolerance)
    BY <1>1, <1>5, <2>2, <2>3, <2>4
  <2>6. i \in Transitions(S) <=> (State(l) # State(i) \/ Time(i) - Time(l) > Tolerance)
    BY <1>4, <1>7, <2>1
  <2> QED BY <1>2, <2>2, <2>5, <2>6
<1> QED BY <1>6, <1>7

\* However many channels echo an arrival, on a host that records every change it sees, it opens
\* one window, and every arrival does.
LEMMA OnePerArrival ==
  ASSUME Typed, Kinds, Ordered, Firsts
  PROVE  \A d \in Device :
           {w.openedBy : w \in {c \in Connection(d) : c.started # Null}} =
           {i \in StateChange(d) : State(i) = "arrival" /\ log[i].first}
<1> SUFFICES ASSUME NEW d \in Device
             PROVE  {w.openedBy : w \in {c \in Connection(d) : c.started # Null}} =
                    {i \in StateChange(d) : State(i) = "arrival" /\ log[i].first}
  OBVIOUS
<1>1. ASSUME NEW w \in Connection(d), w.started # Null
      PROVE  w.openedBy \in StateChange(d) /\ State(w.openedBy) = "arrival" /\ log[w.openedBy].first
  <2>1. PICK i \in Transitions(StateChange(d)) :
          \/ State(i) = "arrival" /\ w = Opened(d, i)
          \/ State(i) = "departure" /\ Lag(StateChange(d), i) = Null /\ w = Unopened(d, i)
    BY WindowCases
  <2>2. w # Unopened(d, i)
    BY <1>1 DEF Unopened
  <2>3. w.openedBy = i /\ State(i) = "arrival" /\ i \in StateChange(d)
    BY <2>1, <2>2, OpenedWindow, States
  <2>4. log[i].first
    BY <2>3, FirstIsTransition DEF FirstOf
  <2> QED BY <2>3, <2>4
<1>2. ASSUME NEW i \in StateChange(d), State(i) = "arrival", log[i].first
      PROVE  \E w \in Connection(d) : w.started # Null /\ w.openedBy = i
  <2>1. i \in Transitions(StateChange(d))
    BY <1>2, FirstIsTransition DEF FirstOf
  <2>2. PICK w : w = Opened(d, i)
    OBVIOUS
  <2>3. w.started = Time(i) /\ w.openedBy = i /\ Time(i) \in 0..MaxTime
    BY <2>1, <2>2, OpenedWindow
  <2>4. w.started # Null
    BY <2>3, LogFacts DEF Null
  <2>5. w \in Connection(d)
    BY <1>2, <2>1, <2>2 DEF Connection
  <2> QED BY <2>3, <2>4, <2>5
<1> QED BY <1>1, <1>2

\* Each connection of a host that records every change it sees is one window.
THEOREM ArrivalsOpenOne == Spec => []OneWindowPerArrival
<1>1. IInv => OneWindowPerArrival
  BY OnePerArrival DEF IInv, Host, Recorded, OneWindowPerArrival
<1> QED BY <1>1, Inductive, PTL

\* The times of the records before one.
Earlier(t) == {Time(j) : j \in {k \in DOMAIN log : Time(k) < t}}

\* What an unclean stop gives.
LEMMA StopFields ==
  ASSUME NEW u \in UncleanStop
  PROVE  /\ u.id \in DOMAIN log /\ Kind(u.id) = "unexpected" /\ u.associated = BootAssociated(u.id)
         /\ u.reported = Time(u.id)
         /\ BootAssociated(u.id) =>
              u.before = CandidateBoot(u.id) /\ u.after = MaxOf(Earlier(CandidateBoot(u.id)))
         /\ ~BootAssociated(u.id) => u.before = Time(u.id) /\ u.after = Null
<1>1. PICK i \in DOMAIN log : log[i].kind = "unexpected" /\
        u = [id |-> i, reported |-> Time(i), associated |-> BootAssociated(i),
             before |-> IF BootAssociated(i) THEN CandidateBoot(i) ELSE Time(i),
             after |-> IF BootAssociated(i)
                       THEN MaxOf({Time(j) : j \in {k \in DOMAIN log : Time(k) < CandidateBoot(i)}})
                       ELSE Null]
  BY DEF UncleanStop
<1>2. Earlier(CandidateBoot(i)) = {Time(j) : j \in {k \in DOMAIN log : Time(k) < CandidateBoot(i)}}
  BY DEF Earlier
<1>3. u.id = i
  BY <1>1
<1> QED BY <1>1, <1>2, <1>3 DEF Kind

\* The boot that is put to a report is the start right before it.
LEMMA BootIsTheStart ==
  ASSUME Typed, Ordered, NEW u \in DOMAIN log, Kind(u) = "unexpected", NEW s \in DOMAIN log, AfterStart(s, u)
  PROVE  CandidateBoot(u) = Time(s) /\ BootAssociated(u)
<1> DEFINE boots == {Time(j) : j \in {k \in DOMAIN log : /\ log[k].kind \in {"started", "woke"}
                                                          /\ Time(k) <= Time(u)}}
<1>1. \A k \in DOMAIN log : Time(k) \in 0..MaxTime /\ Time(k) \in Nat /\ k \in Nat
  BY LogFacts
<1>2. u = s + 1 /\ Kind(s) = "started"
  BY DEF AfterStart
<1>3. ASSUME NEW k \in DOMAIN log
      PROVE  (k <= s => Time(k) <= Time(s)) /\ (k >= s => Time(s) <= Time(k))
             /\ (k >= u => Time(u) <= Time(k)) /\ (k <= s \/ k >= u)
  <2>1. k <= s \/ k >= u
    BY <1>1, <1>2
  <2>2. (k <= s => Time(k) <= Time(s)) /\ (s <= k => Time(s) <= Time(k)) /\ (u <= k => Time(u) <= Time(k))
    BY DEF Ordered
  <2> QED BY <1>1, <2>1, <2>2
<1>4. s <= u /\ Time(s) <= Time(u)
  BY <1>1, <1>2, <1>3
<1>5. Time(s) \in boots
  BY <1>2, <1>4 DEF Kind
<1>6. ASSUME NEW k \in DOMAIN log, log[k].kind \in {"started", "woke"}, Time(k) <= Time(u)
      PROVE  Time(k) <= Time(s)
  <2>1. k # u
    BY <1>6 DEF Kind
  <2>2. ~(k > u)
    <3>1. k > u => Time(k) > Time(u)
      BY <1>6 DEF AfterStart, Kind
    <3> QED BY <1>1, <1>6, <3>1
  <2>3. k <= s
    BY <1>1, <1>3, <2>1, <2>2
  <2> QED BY <1>3, <2>3
<1>7. boots \subseteq -1..MaxTime
  <2>1. MaxTime \in Nat
    BY LogFacts
  <2>2. boots \subseteq 0..MaxTime
    BY <1>1
  <2> QED BY <2>1, <2>2
<1>8. boots \in SUBSET Int /\ IsFiniteSet(boots)
  BY <1>7, LogFacts
<1>9. MaxOf(boots) \in boots /\ \A t \in boots : MaxOf(boots) >= t
  BY <1>5, <1>8, MaxOfPicks
<1>10. CandidateBoot(u) = MaxOf(boots)
  BY DEF CandidateBoot
<1>11. MaxOf(boots) <= Time(s)
  BY <1>6, <1>9
<1>12. MaxOf(boots) >= Time(s) /\ MaxOf(boots) \in Int /\ Time(s) \in Int
  BY <1>5, <1>8, <1>9
<1> HIDE DEF boots
<1>13. CandidateBoot(u) = Time(s)
  BY <1>10, <1>11, <1>12
<1>14. ASSUME NEW j \in DOMAIN log, Time(j) > Time(s), Time(j) < Time(u)
       PROVE  FALSE
  BY <1>1, <1>3, <1>14
<1>15. Time(s) # Null
  BY <1>1 DEF Null
<1> QED BY <1>13, <1>14, <1>15 DEF BootAssociated

\* The host went off inside the interval that is given for it.
LEMMA StopsWithin ==
  ASSUME Typed, Ordered, Reports, NEW u \in UncleanStop
  PROVE  /\ StopOf(u.id) <= u.before
         /\ u.after # Null => u.after <= StopOf(u.id)
<1>1. u.id \in DOMAIN log /\ Kind(u.id) = "unexpected"
  BY StopFields
<1>2. PICK s \in DOMAIN log : AfterStart(s, u.id)
  BY <1>1 DEF Reports
<1>3. u.before = Time(s) /\ u.after = MaxOf(Earlier(Time(s)))
  BY <1>1, <1>2, BootIsTheStart, StopFields
<1>4. \A k \in DOMAIN log : Time(k) \in 0..MaxTime /\ Time(k) \in Nat /\ k \in Nat
  BY LogFacts
<1>5. StopOf(u.id) \in Int
  <2>1. log[u.id] \in Record
    BY <1>1, LogFacts
  <2>2. log[u.id].stop \in -1..MaxTime
    BY <2>1 DEF Record
  <2> QED BY <2>2 DEF StopOf
<1>6. StopOf(u.id) <= u.before
  <2>1. Time(s) > StopOf(u.id)
    BY <1>2 DEF AfterStart
  <2> QED BY <1>3, <1>4, <1>5, <2>1
<1>7. ASSUME NEW k \in DOMAIN log, Time(k) < Time(s)
      PROVE  Time(k) <= StopOf(u.id)
  <2>1. s <= k => Time(s) <= Time(k)
    BY DEF Ordered
  <2>2. k < s
    BY <1>4, <1>7, <2>1
  <2> QED BY <1>2, <2>2 DEF AfterStart
<1>8. Earlier(Time(s)) \subseteq -1..MaxTime
  <2>1. MaxTime \in Nat
    BY LogFacts
  <2>2. Earlier(Time(s)) \subseteq 0..MaxTime
    BY <1>4 DEF Earlier
  <2> QED BY <2>1, <2>2
<1>9. Earlier(Time(s)) \in SUBSET Int /\ IsFiniteSet(Earlier(Time(s)))
  BY <1>8, LogFacts
<1>10. u.after = Null \/ u.after \in Earlier(Time(s))
  BY <1>3, <1>9, MaxOfPicks
<1>11. u.after \in Earlier(Time(s)) => u.after <= StopOf(u.id)
  BY <1>7 DEF Earlier
<1> QED BY <1>6, <1>10, <1>11

\* Of every unclean stop of a host that records everything, the moment it really stopped is not
\* later than the boot that is given for it, nor earlier than the last record.
THEOREM StopsBounded == Spec => []UncleanBounds
<1>1. IInv => UncleanBounds
  BY StopsWithin DEF IInv, Host, Recorded, UncleanBounds, StopOf
<1> QED BY <1>1, Inductive, PTL

-----------------------------------------------------------------------------
(* How the sessions end, on hosts that record something after what arrived.  *)

\* No host dies with an arrival as the last thing it recorded.
NoQuietCrash == \A h \in Habits : ~h.quietCrash

\* What was written of a session stays written; to one that is over nothing is added.
LEMMA PastKeeps ==
  ASSUME Typed, NEW s \in Nat,
         log' = log \/ (s < session /\ \E n, e : Written(n, e) /\ e.session = session)
  PROVE  /\ ShutDown(s) => ShutDown(s)'
         /\ Outlasted(s) => Outlasted(s)'
         /\ \A u \in DOMAIN log : Kind(u) = "unexpected" /\ SessionOf(u) = s + 1 =>
               u \in DOMAIN log' /\ Kind(u)' = "unexpected" /\ SessionOf(u)' = s + 1
<1>1. CASE log' = log
  BY <1>1 DEF ShutDown, Outlasted, Kind, SessionOf, Time
<1>2. ASSUME s < session, NEW n, NEW e, Written(n, e), e.session = session
      PROVE  /\ ShutDown(s) => ShutDown(s)'
             /\ Outlasted(s) => Outlasted(s)'
             /\ \A u \in DOMAIN log : Kind(u) = "unexpected" /\ SessionOf(u) = s + 1 =>
                   u \in DOMAIN log' /\ Kind(u)' = "unexpected" /\ SessionOf(u)' = s + 1
  <2>1. /\ DOMAIN log' = DOMAIN log \cup {n} /\ SessionOf(n)' = session /\ session # s
        /\ \A k \in DOMAIN log : /\ Kind(k)' = Kind(k) /\ SessionOf(k)' = SessionOf(k)
                                 /\ Time(k)' = Time(k) /\ log'[k].dev = log[k].dev
    <3>1. session \in Nat
      BY DEF Typed, HostTypeOK
    <3> QED BY <1>2, <3>1 DEF Written, Kind, SessionOf, Time
  <2>2. \A i \in DOMAIN log' : SessionOf(i)' = s => i \in DOMAIN log
    BY <2>1
  <2>3. ShutDown(s) => ShutDown(s)'
    BY <2>1, <2>2 DEF ShutDown
  <2>4. ASSUME Outlasted(s), NEW i \in DOMAIN log', Kind(i)' = "connect", SessionOf(i)' = s
        PROVE  \/ \E m \in DOMAIN log' : m > i /\ log'[m].dev = log'[i].dev /\ Kind(m)' = "disconnect"
               \/ \E j \in DOMAIN log' : SessionOf(j)' <= s /\ Time(j)' > Time(i)'
    <3>1. i \in DOMAIN log /\ Kind(i) = "connect" /\ SessionOf(i) = s
      BY <2>1, <2>2, <2>4
    <3>2. CASE \E m \in DOMAIN log : m > i /\ log[m].dev = log[i].dev /\ Kind(m) = "disconnect"
      BY <2>1, <3>1, <3>2
    <3>3. CASE \E j \in DOMAIN log : SessionOf(j) <= s /\ Time(j) > Time(i)
      BY <2>1, <3>1, <3>3
    <3> QED BY <2>4, <3>1, <3>2, <3>3 DEF Outlasted
  <2>5. Outlasted(s) => Outlasted(s)'
    BY <2>4 DEF Outlasted
  <2> QED BY <2>1, <2>3, <2>5
<1> QED BY <1>1, <1>2

\* A crash leaves something later than every arrival that nothing followed.
LEMMA CrashOutlasts ==
  ASSUME Typed, Kinds, Ordered, Crash, ~habit.quietCrash
  PROVE  Outlasted(session)'
<1>1. log' = log /\ session' = session
  BY DEF Crash
<1>2. ASSUME NEW i \in DOMAIN log, Kind(i) = "connect"
      PROVE  \/ \E n \in DOMAIN log : n > i /\ log[n].dev = log[i].dev /\ Kind(n) = "disconnect"
             \/ \E j \in DOMAIN log : SessionOf(j) <= session /\ Time(j) > Time(i)
  <2>1. PICK d \in Device : d = log[i].dev
    BY <1>2 DEF Kinds, DeviceKind
  <2>2. i \in Of(d)
    BY <1>2, <2>1 DEF Of, Kind
  <2>3. PICK l \in Of(d) : Latest(d, l)
    BY <2>2, LatestExists
  <2>4. Of(d) \subseteq DOMAIN log /\ \A k \in DOMAIN log : k \in Nat /\ Time(k) \in Nat
    BY LogFacts DEF Of
  <2>5. \E k \in Of(d) : \A j \in Of(d) : j <= k
    BY <2>3 DEF Latest
  <2>6. PICK m : m = LastOf(Of(d))
    OBVIOUS
  <2>7. m \in Of(d) /\ \A j \in Of(d) : j <= m
    BY <2>5, <2>6 DEF LastOf
  <2>8. Kind(m) = "connect" => \E j \in DOMAIN log : Time(j) > Time(m)
    BY <2>2, <2>6 DEF Crash, Kind, Time
  <2>9. CASE Kind(m) = "connect"
    <3>1. PICK j \in DOMAIN log : Time(j) > Time(m)
      BY <2>8, <2>9
    <3>2. i <= m /\ m \in DOMAIN log
      BY <2>2, <2>4, <2>7
    <3>3. Time(i) <= Time(m) /\ SessionOf(j) <= session
      BY <3>2 DEF Ordered
    <3>4. Time(j) > Time(i)
      BY <2>4, <3>1, <3>2, <3>3
    <3> QED BY <3>3, <3>4
  <2>10. CASE Kind(m) # "connect"
    <3>1. m \in DOMAIN log /\ log[m].dev = d /\ Kind(m) # "fault"
      BY <2>7 DEF Of, Kind
    <3>2. Kind(m) = "disconnect"
      BY <2>10, <3>1 DEF Kinds, DeviceKind
    <3>3. m > i
      <4>1. i <= m /\ i # m
        BY <1>2, <2>2, <2>7, <2>10
      <4> QED BY <2>4, <3>1, <4>1
    <3> QED BY <2>1, <3>1, <3>2, <3>3
  <2> QED BY <2>9, <2>10
<1> QED BY <1>1, <1>2 DEF Outlasted, Kind, SessionOf, Time

\* Sessions end as they do.
LEMMA SessionsEndKeep ==
  ASSUME Typed, Ports, Kinds, Ordered, Boots, ~habit.quietCrash, SessionsEnd, HostNext
  PROVE  SessionsEnd'
<1>a. session \in Nat /\ session >= 1 /\ now \in Nat /\ died \in -1..MaxTime
  BY DEF Typed, HostTypeOK
<1> SUFFICES ASSUME NEW s \in 1..session', Over(s)'
             PROVE  ShutDown(s)' \/ (Outlasted(s)' /\ Reported(s)')
  BY DEF SessionsEnd
<1>0. s \in Nat /\ s >= 1 /\ Shape
  <2>1. Shape
    BY Shapes
  <2>2. session' = session \/ session' = session + 1
    BY <2>1 DEF Shape, Silent, Writing
  <2> QED BY <1>a, <2>1, <2>2
<1>g. log' = log \/ \E n, e : Written(n, e) /\ e.session = session
  <2>1. CASE Silent
    BY <2>1 DEF Silent
  <2>2. CASE Writing
    BY <2>2, WritesOne DEF Fit
  <2> QED BY <1>0, <2>1, <2>2 DEF Shape
\* A session that was over before.
<1>1. ASSUME s <= session, Over(s), Reported(s) => Reported(s)', s < session \/ log' = log
      PROVE  ShutDown(s)' \/ (Outlasted(s)' /\ Reported(s)')
  <2>1. ShutDown(s) \/ (Outlasted(s) /\ Reported(s))
    BY <1>0, <1>1, <1>a DEF SessionsEnd
  <2>2. (ShutDown(s) => ShutDown(s)') /\ (Outlasted(s) => Outlasted(s)')
    BY <1>0, <1>1, <1>g, PastKeeps
  <2> QED BY <1>1, <2>1, <2>2
<1>2. ASSUME s < session, session' = session, \E u \in DOMAIN log : Kind(u) = "unexpected" /\ SessionOf(u) = s + 1
      PROVE  Reported(s)'
  BY <1>0, <1>2, <1>g, PastKeeps DEF Reported
\* Steps of a host that is neither booting with something to report nor off.
<1>3. ASSUME session' = session, host' # "off", host # "off", ~(host = "booting" /\ Owed)
      PROVE  ShutDown(s)' \/ (Outlasted(s)' /\ Reported(s)')
  <2>1. s < session /\ s <= session /\ Over(s)
    BY <1>3, <1>0, <1>a DEF Over
  <2>2. Reported(s) => Reported(s)'
    BY <1>3, <2>1, <1>2 DEF Reported
  <2> QED BY <2>1, <2>2, <1>1
<1>d. pending = <<>> => ~Owed
  BY DEF Owed
<1>4. CASE Tick
  <2>1. /\ session' = session /\ host' = host /\ host # "off" /\ log' = log /\ pending' = pending
        /\ host \in {"on", "booting"}
    BY <1>4 DEF Tick
  <2>2. s < session /\ s <= session /\ Over(s)
    BY <2>1, <1>0, <1>a DEF Over
  <2>3. Reported(s) => Reported(s)'
    BY <2>1 DEF Reported, Owed, Kind, SessionOf
  <2> QED BY <2>1, <2>2, <2>3, <1>1
<1>5. CASE Activity \/ Sleep \/ Wake \/ BootEnds
  <2>1. session' = session /\ host' # "off" /\ host # "off" /\ ~(host = "booting" /\ Owed)
    BY <1>5, <1>d DEF Activity, Sleep, Wake, BootEnds
  <2> QED BY <2>1, <1>3
<1>6. ASSUME NEW d \in habit.sticks, Plug(d) \/ Echo(d) \/ Unplug(d) \/ Fault(d) \/ BootNotices(d)
      PROVE  ShutDown(s)' \/ (Outlasted(s)' /\ Reported(s)')
  <2>1. session' = session /\ host' # "off" /\ host # "off" /\ ~(host = "booting" /\ Owed)
    BY <1>6, <1>d DEF Plug, Echo, Unplug, Fault, BootNotices
  <2> QED BY <2>1, <1>3
<1>7. ASSUME NEW d \in habit.sticks, MoveUnseen(d)
      PROVE  ShutDown(s)' \/ (Outlasted(s)' /\ Reported(s)')
  <2>1. session' = session /\ host' = host /\ log' = log /\ pending' = pending /\ died' = died
    BY <1>7 DEF MoveUnseen
  <2>2. s <= session /\ Over(s)
    BY <2>1, <1>0, <1>a DEF Over
  <2>3. Reported(s) => Reported(s)'
    BY <2>1 DEF Reported, Owed, Kind, SessionOf
  <2> QED BY <2>1, <2>2, <2>3, <1>1
<1>8. CASE Shutdown
  <2>1. /\ Write("stopped", NoDevice, FALSE) /\ host = "on" /\ session' = session
        /\ \A i \in DOMAIN log : Kind(i) = "connect" => Time(i) < now
    BY <1>8 DEF Shutdown, Kind, Time
  <2>2. CASE s < session
    <3>1. Reported(s) => Reported(s)'
      BY <2>1, <2>2, <1>2 DEF Reported
    <3>2. Over(s) /\ s <= session
      BY <2>2, <1>0, <1>a DEF Over
    <3> QED BY <2>2, <3>1, <3>2, <1>1
  <2>3. CASE s = session
    <3>1. PICK n : Written(n, Entry("stopped", NoDevice, FALSE))
      BY <2>1, EntryWritten
    <3>2. /\ Entry("stopped", NoDevice, FALSE).kind = "stopped" /\ Entry("stopped", NoDevice, FALSE).t = now
          /\ Entry("stopped", NoDevice, FALSE).session = session
      BY DEF Entry
    <3>3. /\ DOMAIN log' = DOMAIN log \cup {n} /\ Kind(n)' = "stopped" /\ SessionOf(n)' = s /\ Time(n)' = now
          /\ \A k \in DOMAIN log : Kind(k)' = Kind(k) /\ Time(k)' = Time(k)
      BY <2>3, <3>1, <3>2 DEF Written, Kind, SessionOf, Time
    <3>4. \A i \in DOMAIN log' : Kind(i)' = "connect" => Time(i)' < Time(n)'
      BY <2>1, <3>3
    <3>5. ShutDown(s)'
      BY <3>3, <3>4 DEF ShutDown
    <3> QED BY <3>5
  <2>4. s < session \/ s = session
    BY <2>1, <1>0, <1>a DEF Over
  <2> QED BY <2>2, <2>3, <2>4
<1>9. CASE Crash
  <2>1. /\ session' = session /\ host' = "off" /\ log' = log /\ died' = now /\ host \in {"on", "asleep"}
    BY <1>9 DEF Crash
  <2>2. CASE s < session
    <3>1. Reported(s) => Reported(s)'
      BY <2>1, <2>2, <1>2 DEF Reported
    <3>2. Over(s) /\ s <= session
      BY <2>2, <1>0, <1>a DEF Over
    <3> QED BY <2>2, <3>1, <3>2, <1>1
  <2>3. CASE s = session
    <3>1. Outlasted(session)'
      BY <1>9, CrashOutlasts
    <3>2. Outlasted(s)'
      BY <2>1, <2>3, <3>1 DEF Outlasted
    <3>3. Reported(s)'
      BY <2>1, <2>3, <1>a DEF Reported
    <3> QED BY <3>2, <3>3
  <2>4. s < session \/ s = session
    BY <2>1, <1>0, <1>a DEF Over
  <2> QED BY <2>2, <2>3, <2>4
<1>10. CASE Boot
  <2>1. /\ host = "off" /\ host' = "booting" /\ session' = session + 1 /\ log' = log
    BY <1>10 DEF Boot
  <2>2. s <= session /\ Over(s)
    BY <2>1, <1>0, <1>a DEF Over
  <2>3. Reported(s) => Reported(s)'
    <3>1. CASE \E u \in DOMAIN log : Kind(u) = "unexpected" /\ SessionOf(u) = s + 1
      BY <2>1, <3>1 DEF Reported, Kind, SessionOf
    <3>2. CASE s = session /\ died >= 0
      <4>1. pending' \in {<<"started", "unexpected">>, <<"started", "unexpected", "started">>,
                          <<"started", "started", "unexpected">>, <<"unexpected">>}
        BY <1>10, <3>2, BootOwes, HostAssumption DEF Typed, HostTypeOK
      <4>2. \E m \in DOMAIN pending' : pending'[m] = "unexpected"
        <5>1. CASE pending' \in {<<"started", "unexpected">>, <<"started", "unexpected", "started">>}
          <6>1. 2 \in DOMAIN pending' /\ pending'[2] = "unexpected"
            BY <5>1
          <6> QED BY <6>1
        <5>2. CASE pending' = <<"started", "started", "unexpected">>
          <6>1. 3 \in DOMAIN pending' /\ pending'[3] = "unexpected"
            BY <5>2
          <6> QED BY <6>1
        <5>3. CASE pending' = <<"unexpected">>
          <6>1. 1 \in DOMAIN pending' /\ pending'[1] = "unexpected"
            BY <5>3
          <6> QED BY <6>1
        <5> QED BY <4>1, <5>1, <5>2, <5>3
      <4>3. Owed'
        BY <4>2 DEF Owed
      <4>4. s + 1 = session'
        BY <2>1, <3>2
      <4> QED BY <2>1, <4>3, <4>4 DEF Reported
    <3> QED BY <2>1, <3>1, <3>2 DEF Reported
  <2> QED BY <2>1, <2>2, <2>3, <1>1
<1>11. CASE BootWrites
  <2> DEFINE kind == Head(pending)
  <2>1. PICK n : Written(n, Entry(kind, NoDevice, FALSE))
    BY <1>11, BootWritesOne
  <2>2. /\ Entry(kind, NoDevice, FALSE).kind = kind /\ Entry(kind, NoDevice, FALSE).session = session
    BY DEF Entry
  <2>3. /\ session' = session /\ host = "booting" /\ host' = host /\ 1 \in DOMAIN pending /\ pending[1] = kind
        /\ pending' = Tail(pending) /\ pending \in Seq({"started", "unexpected"}) /\ pending # <<>>
    BY <1>11, BootWritesOne DEF BootWrites, Typed
  <2> HIDE DEF kind
  <2>4. s < session /\ s <= session /\ Over(s)
    BY <2>3, <1>0, <1>a DEF Over
  <2>5. CASE kind = "unexpected" /\ s + 1 = session
    <3>1. n \in DOMAIN log' /\ Kind(n)' = "unexpected" /\ SessionOf(n)' = s + 1
      BY <2>1, <2>2, <2>5 DEF Written, Kind, SessionOf
    <3>2. Reported(s)'
      BY <3>1 DEF Reported
    <3> QED BY <2>4, <3>2, <1>1
  <2>6. CASE kind # "unexpected"
    <3>1. Owed => Owed'
      <4> SUFFICES ASSUME NEW m \in DOMAIN pending, pending[m] = "unexpected"
                   PROVE  \E o \in DOMAIN pending' : pending'[o] = "unexpected"
        BY DEF Owed
      <4>1. m # 1
        BY <2>3, <2>6
      <4>2. m - 1 \in DOMAIN Tail(pending) /\ Tail(pending)[m - 1] = pending[m]
        BY <2>3, <4>1
      <4> QED BY <2>3, <4>2
    <3>2. Reported(s) => Reported(s)'
      BY <2>3, <2>4, <3>1, <1>2 DEF Reported
    <3> QED BY <2>4, <3>2, <1>1
  <2>7. CASE s + 1 # session
    <3>1. Reported(s) => Reported(s)'
      BY <2>3, <2>4, <2>7, <1>2 DEF Reported
    <3> QED BY <2>4, <3>1, <1>1
  <2> QED BY <2>5, <2>6, <2>7
<1> QED BY <1>4, <1>5, <1>6, <1>7, <1>8, <1>9, <1>10, <1>11 DEF HostNext

\* Every session that is over was shut down, or is reported as one that stopped.
THEOREM SessionsDoEnd == NoQuietCrash => (Spec => []SessionsEnd)
<1> SUFFICES ASSUME NoQuietCrash
             PROVE  Spec => []SessionsEnd
  OBVIOUS
<1>1. Init => SessionsEnd
  BY DEF Init, HostInit, SessionsEnd, Over
<1>2. IInv /\ SessionsEnd /\ [Next]_vars => SessionsEnd'
  <2> SUFFICES ASSUME IInv, SessionsEnd, [Next]_vars
               PROVE  SessionsEnd'
    OBVIOUS
  <2>1. CASE HostNext
    <3>1. ~habit.quietCrash
      BY DEF NoQuietCrash, IInv, Host, Typed, HostTypeOK
    <3> QED BY <2>1, <3>1, SessionsEndKeep DEF IInv, Host
  <2>2. CASE UNCHANGED hostVars
    <3>1. host' = host /\ session' = session /\ died' = died /\ pending' = pending /\ log' = log
      BY <2>2 DEF hostVars
    <3> QED BY <3>1 DEF SessionsEnd, Over, ShutDown, Outlasted, Reported, Owed, Kind, SessionOf, Time
  <2> QED BY <2>1, <2>2, StepsOfTheHost
<1> QED BY <1>1, <1>2, Inductive, PTL DEF Spec

-----------------------------------------------------------------------------
(* What an open window covers.                                              *)

\* Between an arrival that opens a window and the next change there are arrivals only, and,
\* where a device goes in the session it came in, of one session.
LEMMA Between ==
  ASSUME Typed, Kinds, Ordered, NEW d \in Device, NEW o \in Transitions(StateChange(d)), State(o) = "arrival",
         NEW n \in Int, \A j \in Transitions(StateChange(d)) : j > o => n <= j,
         NEW m \in StateChange(d), o <= m, m < n
  PROVE  State(m) = "arrival" /\ SessionOf(m) = SessionOf(o)
<1> DEFINE S == StateChange(d)
           bad == {k \in S : o <= k /\ k < n /\ ~(State(k) = "arrival" /\ SessionOf(k) = SessionOf(o))}
<1>1. /\ S \subseteq DOMAIN log /\ o \in S /\ o \in DOMAIN log
      /\ \A k \in DOMAIN log : k \in Nat /\ k # Null /\ Time(k) \in Nat /\ SessionOf(k) \in Nat
      /\ Tolerance \in Nat
  BY States, LogFacts DEF Null
<1>2. bad \in SUBSET Int /\ IsFiniteSet(bad)
  <2>1. bad \subseteq DOMAIN log
    BY <1>1
  <2> QED BY <2>1, LogFacts
<1>3. ASSUME NEW k \in bad, \A j \in bad : k <= j
      PROVE  FALSE
  <2>1. k \in S /\ k \in DOMAIN log /\ o <= k /\ k < n /\ ~(State(k) = "arrival" /\ SessionOf(k) = SessionOf(o))
    BY <1>1, <1>3
  <2>2. o < k
    <3>1. o # k
      BY <2>1
    <3> QED BY <1>1, <2>1, <3>1
  <2>3. PICK l : l = Lag(S, k)
    OBVIOUS
  <2>4. l # Null /\ l \in S /\ l < k /\ o <= l /\ l \in DOMAIN log
    BY <1>1, <2>1, <2>2, <2>3, Neighbours
  <2>5. l < n
    BY <1>1, <2>1, <2>4
  <2>6. l \notin bad
    BY <1>1, <1>3, <2>1, <2>4
  <2>7. State(l) = "arrival" /\ SessionOf(l) = SessionOf(o)
    BY <2>4, <2>5, <2>6
  <2>8. k \notin Transitions(S)
    BY <1>1, <2>1, <2>2
  <2>9. ~(State(l) # State(k) \/ Time(k) - Time(l) > Tolerance)
    <3>1. ~(Lag(S, k) # Null => State(Lag(S, k)) # State(k) \/ Time(k) - Time(Lag(S, k)) > Tolerance)
      BY <2>1, <2>8 DEF Transitions
    <3> QED BY <2>3, <3>1
  <2>10. State(k) = "arrival" /\ ~(Time(k) - Time(l) > Tolerance)
    BY <2>7, <2>9
  <2>11. ~(Time(l) + Tolerance < Time(k))
    BY <1>1, <2>1, <2>4, <2>10
  <2>12. l <= k
    BY <1>1, <2>1, <2>4
  <2>13. SessionOf(l) <= SessionOf(k) /\ ~(SessionOf(l) < SessionOf(k))
    BY <2>1, <2>4, <2>11, <2>12 DEF Ordered
  <2>14. SessionOf(k) = SessionOf(l)
    BY <1>1, <2>1, <2>4, <2>13
  <2> QED BY <2>1, <2>7, <2>10, <2>14
<1>4. bad = {}
  BY <1>2, <1>3, LeastExists
<1> QED BY <1>4

\* How far a window reaches that no removal closed.
LEMMA Until ==
  ASSUME Typed, NEW t \in 0..MaxTime, NEW off, off = MinOf(Offs(t)), NEW after, after = MinOf(Afters(t)),
         NEW until, until = MinOf({off, after} \ {Null})
  PROVE  /\ until \in {Null} \cup 0..MaxTime /\ until \in Int
         /\ \A s \in HostStopped : s > t => until # Null /\ until <= s
         /\ \A u \in UncleanStop : u.after > t => until # Null /\ until <= u.after
<1>1. /\ {off, after} \subseteq {Null} \cup 0..MaxTime
      /\ off = Null => \A s \in HostStopped : ~(s > t)
      /\ off # Null => \A s \in HostStopped : s > t => off <= s
      /\ after # Null => \E u \in BoundingStop(t) : u.after = after
      /\ after = Null => BoundingStop(t) = {}
  <2>1. PICK before : before = MinOf(Befores(t))
    OBVIOUS
  <2> QED BY <2>1, OpenBounds
<1> DEFINE ends == {off, after} \ {Null}
<1>2. MaxTime \in Nat /\ t \in Int /\ \A s \in 0..MaxTime : s \in Int /\ s # Null /\ s \in -1..MaxTime
  BY LogFacts DEF Null
<1>3. ends \subseteq 0..MaxTime /\ ends \subseteq -1..MaxTime
  BY <1>1, <1>2
<1>4. ends \in SUBSET Int /\ IsFiniteSet(ends)
  BY <1>3, LogFacts
<1>5. \A e \in ends : until # Null /\ until <= e /\ until \in Int /\ e \in Int
  BY <1>2, <1>3, <1>4, MinOfPicks
<1>6. until \in {Null} \cup 0..MaxTime
  BY <1>3, <1>4, MinOfPicks
<1>7. until \in Int
  BY <1>2, <1>6 DEF Null
<1>8. ASSUME NEW s \in HostStopped, s > t
      PROVE  until # Null /\ until <= s
  <2>1. off # Null /\ off <= s /\ off \in ends
    BY <1>1, <1>8
  <2>2. s \in Int
    BY LogFacts DEF HostStopped
  <2> QED BY <1>5, <2>1, <2>2
<1>9. ASSUME NEW u \in UncleanStop, u.after > t
      PROVE  until # Null /\ until <= u.after
  <2>1. PICK v \in BoundingStop(t) : v.after <= u.after
    BY <1>2, <1>9, BoundingStops
  <2>2. after # Null /\ after \in ends
    BY <1>1, <2>1
  <2>3. v.after = after
    BY <1>1, <1>2, <2>1, <2>2, BoundingStops
  <2>4. u.after \in Int
    <3>1. u.after \in -1..MaxTime
      BY StopFacts
    <3> QED BY <1>2, <3>1
  <2> QED BY <1>5, <2>1, <2>2, <2>3, <2>4
<1> QED BY <1>8, <1>9, <1>6, <1>7

\* Where the boot that reported it is known, what was recorded last before an unclean stop was
\* recorded by none of the sessions after it.
LEMMA LastBeforeStop ==
  ASSUME Typed, Ordered, Boots, BootsKnown, NEW u \in DOMAIN log, Kind(u) = "unexpected",
         NEW j \in DOMAIN log, SessionOf(j) < SessionOf(u)
  PROVE  \E r \in UncleanStop, m \in DOMAIN log :
            r.after = Time(m) /\ Time(j) <= r.after /\ SessionOf(m) < SessionOf(u)
<1> DEFINE boot == CandidateBoot(u)
<1>1. \A k \in DOMAIN log : Time(k) \in 0..MaxTime /\ Time(k) \in Nat /\ k \in Nat /\ SessionOf(k) \in Nat
  BY LogFacts
<1>2. Tolerance \in Nat /\ MaxTime \in Nat
  BY LogFacts
<1>3. PICK r \in UncleanStop : r.id = u
  <2> DEFINE given == [ id |-> u, reported |-> Time(u), associated |-> BootAssociated(u),
                        before |-> IF BootAssociated(u) THEN CandidateBoot(u) ELSE Time(u),
                        after |-> IF BootAssociated(u)
                                  THEN MaxOf({Time(i) : i \in {k \in DOMAIN log : Time(k) < CandidateBoot(u)}})
                                  ELSE Null ]
  <2>1. given \in UncleanStop
    BY DEF UncleanStop, Kind
  <2>2. given.id = u
    OBVIOUS
  <2> HIDE DEF given
  <2> QED BY <2>1, <2>2
<1>4. r.associated /\ r.before = MinOf(StartsOf(SessionOf(u)))
  BY <1>3 DEF BootsKnown, SessionOf
<1>5. r.before = boot /\ boot # Null /\ r.after = MaxOf(Earlier(boot)) /\ boot <= Time(u)
  <2>1. BootAssociated(u)
    BY <1>3, <1>4, StopFields
  <2>2. r.before = boot /\ r.after = MaxOf(Earlier(boot))
    BY <1>3, <2>1, StopFields
  <2>3. r.before <= Time(u)
    BY <1>3, StopFacts
  <2> QED BY <2>1, <2>2, <2>3 DEF BootAssociated
<1> HIDE DEF boot
<1>6. StartsOf(SessionOf(u)) \subseteq 0..MaxTime /\ StartsOf(SessionOf(u)) \subseteq -1..MaxTime
  <2>1. StartsOf(SessionOf(u)) \subseteq 0..MaxTime
    BY <1>1 DEF StartsOf
  <2> QED BY <1>2, <2>1
<1>7. StartsOf(SessionOf(u)) \in SUBSET Int /\ IsFiniteSet(StartsOf(SessionOf(u)))
  BY <1>6, LogFacts
<1>8. boot \in StartsOf(SessionOf(u)) /\ \A t \in StartsOf(SessionOf(u)) : boot <= t
  <2> DEFINE starts == StartsOf(SessionOf(u))
  <2>1. starts \in SUBSET Int /\ IsFiniteSet(starts) /\ boot = MinOf(starts) /\ boot # Null
    BY <1>4, <1>5, <1>7
  <2> HIDE DEF starts
  <2>2. boot \in starts /\ \A t \in starts : boot <= t
    BY <2>1, MinOfPicks
  <2> QED BY <2>2 DEF starts
<1>9. PICK k \in DOMAIN log : Kind(k) \in {"started", "woke"} /\ SessionOf(k) = SessionOf(u) /\ boot = Time(k)
  BY <1>8 DEF StartsOf, Kind, SessionOf
<1>10. ASSUME NEW a \in DOMAIN log, NEW b \in DOMAIN log, SessionOf(a) < SessionOf(b)
       PROVE  Time(a) < Time(b)
  <2>1. ~(b <= a)
    <3>1. b <= a => SessionOf(b) <= SessionOf(a)
      BY DEF Ordered
    <3> QED BY <1>1, <1>10, <3>1
  <2>2. a <= b
    BY <1>1, <2>1
  <2>3. Time(a) + Tolerance < Time(b)
    BY <1>10, <2>2 DEF Ordered
  <2> QED BY <1>1, <1>2, <2>3
<1>11. Time(j) \in Earlier(boot)
  BY <1>9, <1>10 DEF Earlier
<1>12. Earlier(boot) \in SUBSET Int /\ IsFiniteSet(Earlier(boot))
  <2>1. Earlier(boot) \subseteq 0..MaxTime
    BY <1>1 DEF Earlier
  <2>2. Earlier(boot) \subseteq -1..MaxTime
    BY <1>2, <2>1
  <2> QED BY <2>2, LogFacts
<1>13. r.after \in Earlier(boot) /\ \A t \in Earlier(boot) : r.after >= t
  BY <1>5, <1>11, <1>12, MaxOfPicks
<1>14. PICK m \in DOMAIN log : r.after = Time(m) /\ Time(m) < boot
  BY <1>13 DEF Earlier
<1>15. Time(j) <= r.after
  BY <1>1, <1>11, <1>13, <1>14
<1>16. SessionOf(m) < SessionOf(u)
  <2>1. Time(m) < Time(u)
    BY <1>1, <1>5, <1>9, <1>14
  <2>2. ~(SessionOf(u) < SessionOf(m))
    <3>1. SessionOf(u) < SessionOf(m) => Time(u) < Time(m)
      BY <1>10
    <3> QED BY <1>1, <2>1, <3>1
  <2>3. SessionOf(m) # SessionOf(u)
    <3> SUFFICES ASSUME SessionOf(m) = SessionOf(u)
                 PROVE  FALSE
      OBVIOUS
    <3>1. m < u
      <4>1. u <= m => Time(u) <= Time(m)
        BY DEF Ordered
      <4> QED BY <1>1, <2>1, <4>1
    <3>2. Kind(m) = "started"
      BY <3>1 DEF Boots
    <3>3. Time(m) \in StartsOf(SessionOf(u))
      BY <3>2 DEF StartsOf, Kind, SessionOf
    <3>4. boot <= Time(m)
      BY <1>8, <3>3
    <3> QED BY <1>1, <1>9, <1>14, <3>4
  <2> QED BY <1>1, <2>2, <2>3
<1> QED BY <1>14, <1>15, <1>16

\* Of two records, that of the earlier session is the earlier.
LEMMA InSessionOrder ==
  ASSUME Typed, Ordered, NEW a \in DOMAIN log, NEW b \in DOMAIN log, SessionOf(a) < SessionOf(b)
  PROVE  Time(a) < Time(b) /\ a < b
<1>1. /\ Tolerance \in Nat
      /\ \A k \in DOMAIN log : k \in Nat /\ Time(k) \in Nat /\ SessionOf(k) \in Nat
  BY LogFacts
<1>2. ~(b <= a)
  <2>1. b <= a => SessionOf(b) <= SessionOf(a)
    BY DEF Ordered
  <2> QED BY <1>1, <2>1
<1>3. a <= b /\ a < b
  BY <1>1, <1>2
<1>4. Time(a) + Tolerance < Time(b)
  BY <1>3 DEF Ordered
<1>5. Time(a) \in Nat /\ Time(b) \in Nat /\ Tolerance \in Nat
  BY <1>1
<1> QED BY <1>3, <1>4, <1>5

\* What a window covers that no removal closed, a moment t of session q, lies in the session that
\* recorded the arrival.
LEMMA StaysAt ==
  ASSUME Typed, Kinds, Ordered, Boots, SessionsEnd, BootsKnown, Settled,
         NEW d \in Device, NEW o \in Transitions(StateChange(d)), State(o) = "arrival",
         \A j \in Transitions(StateChange(d)) : ~(j > o),
         NEW until, until = MinOf({MinOf(Offs(Time(o))), MinOf(Afters(Time(o)))} \ {Null}),
         NEW t \in Nat, NEW q \in Nat, q <= session, Cover(Time(o), until, t),
         \A k \in DOMAIN log : (SessionOf(k) < q => Time(k) < t) /\ (q < SessionOf(k) => t < Time(k))
  PROVE  q = SessionOf(o)
<1> DEFINE S == StateChange(d)
           s == SessionOf(o)
<1>1. /\ S \subseteq DOMAIN log /\ o \in S /\ o \in DOMAIN log /\ Kind(o) = "connect" /\ log[o].dev = d
      /\ \A k \in S : State(k) = "departure" <=> Kind(k) = "disconnect"
      /\ \A k \in DOMAIN log : k \in Nat /\ Time(k) \in 0..MaxTime /\ Time(k) \in Nat /\ SessionOf(k) \in Nat
      /\ Tolerance \in Nat /\ Len(log) \in Nat /\ DOMAIN log = 1..Len(log)
  BY States, LogFacts
<1>2. Time(o) <= t /\ (until # Null => t <= until)
  BY DEF Cover
<1>3. ~(q < s)
  <2>1. q < s => t < Time(o)
    BY <1>1
  <2> QED BY <1>1, <1>2, <2>1
<1>4. ASSUME NEW m \in S, o <= m
      PROVE  State(m) = "arrival"
  <2>1. Len(log) + 1 \in Int /\ m < Len(log) + 1
    BY <1>1
  <2>2. \A j \in Transitions(S) : j > o => Len(log) + 1 <= j
    OBVIOUS
  <2> QED BY <1>4, <2>1, <2>2, Between
<1>5. ASSUME s < q
      PROVE  FALSE
  <2>1. s \in 1..session /\ s < session /\ Over(s)
    <3>1. 1 <= s /\ q <= session /\ session \in Nat
      BY <1>1 DEF Ordered, Typed, HostTypeOK
    <3> QED BY <1>1, <1>5, <3>1 DEF Over
  <2>2. PICK off, after : off = MinOf(Offs(Time(o))) /\ after = MinOf(Afters(Time(o)))
    OBVIOUS
  <2>3. /\ until \in Int
        /\ \A h \in HostStopped : h > Time(o) => until # Null /\ until <= h
        /\ \A u \in UncleanStop : u.after > Time(o) => until # Null /\ until <= u.after
    BY <1>1, <2>2, Until
  <2>4. CASE ShutDown(s)
    <3>1. PICK j \in DOMAIN log : Kind(j) = "stopped" /\ SessionOf(j) = s /\ Time(o) < Time(j)
      BY <1>1, <2>4 DEF ShutDown
    <3>2. Time(j) \in HostStopped /\ Time(j) > Time(o)
      BY <1>1, <3>1 DEF HostStopped, Kind
    <3>3. t <= until /\ until <= Time(j)
      BY <1>2, <2>3, <3>2
    <3>4. Time(j) < t
      BY <1>5, <3>1
    <3> QED BY <1>1, <2>3, <3>3, <3>4
  <2>5. CASE Outlasted(s) /\ Reported(s)
    <3>1. PICK j \in DOMAIN log : SessionOf(j) <= s /\ Time(j) > Time(o)
      <4>1. ASSUME NEW n \in DOMAIN log, n > o, log[n].dev = log[o].dev, Kind(n) = "disconnect"
            PROVE  FALSE
        <5>1. n \in S
          BY <1>1, <4>1 DEF StateChange, Kind
        <5>2. o <= n
          BY <1>1, <4>1
        <5>3. State(n) = "arrival" /\ State(n) = "departure"
          BY <1>1, <1>4, <4>1, <5>1, <5>2
        <5> QED BY <5>3
      <4> QED BY <1>1, <2>5, <4>1 DEF Outlasted
    <3>2. PICK u \in DOMAIN log : Kind(u) = "unexpected" /\ SessionOf(u) = s + 1
      <4>1. s # session
        BY <1>1, <2>1
      <4> QED BY <2>5, <4>1 DEF Reported, Settled
    <3>3. SessionOf(j) < SessionOf(u)
      BY <1>1, <3>1, <3>2
    <3>4. PICK r \in UncleanStop, m \in DOMAIN log :
            r.after = Time(m) /\ Time(j) <= r.after /\ SessionOf(m) < SessionOf(u)
      BY <3>2, <3>3, LastBeforeStop
    <3>a. /\ t \in Int /\ Time(j) \in Int /\ Time(m) \in Int /\ Time(o) \in Int
          /\ q \in Int /\ SessionOf(m) \in Int /\ SessionOf(u) \in Int /\ s \in Int
      BY <1>1
    <3>5. r.after > Time(o)
      BY <3>1, <3>4, <3>a
    <3>6. t <= until /\ until <= Time(m)
      BY <1>2, <2>3, <3>4, <3>5
    <3>7. SessionOf(m) < q
      BY <1>5, <3>2, <3>4, <3>a
    <3>8. Time(m) < t
      BY <3>7
    <3>9. until \in Int
      BY <2>3
    <3> QED BY <3>6, <3>8, <3>9, <3>a
  <2> QED BY <2>1, <2>4, <2>5 DEF SessionsEnd
<1> QED BY <1>1, <1>3, <1>5

\* What it covers was recorded by the boot that recorded the arrival.
LEMMA StaysThere ==
  ASSUME Typed, Kinds, Ordered, Boots, SessionsEnd, BootsKnown, Settled,
         NEW d \in Device, NEW o \in Transitions(StateChange(d)), State(o) = "arrival",
         \A j \in Transitions(StateChange(d)) : ~(j > o),
         NEW until, until = MinOf({MinOf(Offs(Time(o))), MinOf(Afters(Time(o)))} \ {Null}),
         NEW i \in DOMAIN log, Cover(Time(o), until, Time(i))
  PROVE  SessionOf(i) = SessionOf(o)
<1>1. PICK t, q : t = Time(i) /\ q = SessionOf(i)
  OBVIOUS
<1>2. \A k \in DOMAIN log : k \in Nat /\ Time(k) \in Nat /\ SessionOf(k) \in Nat
  BY LogFacts
<1>3. t \in Nat /\ q \in Nat /\ q <= session /\ Cover(Time(o), until, t)
  BY <1>1, <1>2 DEF Ordered
<1>4. ASSUME NEW k \in DOMAIN log
      PROVE  (SessionOf(k) < q => Time(k) < t) /\ (q < SessionOf(k) => t < Time(k))
  BY <1>1, <1>2, InSessionOrder
<1>5. q = SessionOf(o)
  BY <1>3, <1>4, StaysAt
<1> QED BY <1>1, <1>5

\* A window that places a device, by what came next.
LEMMA PlacingCases ==
  ASSUME Typed, Kinds, Ordered, NEW d \in Device, NEW w \in Placing(d)
  PROVE  \E o \in Transitions(StateChange(d)) :
           /\ State(o) = "arrival" /\ w.started = Time(o) /\ w.openedBy = o
           /\ \/ /\ \A j \in Transitions(StateChange(d)) : ~(j > o)
                 /\ w.until = MinOf({MinOf(Offs(Time(o))), MinOf(Afters(Time(o)))} \ {Null})
              \/ \E n \in Transitions(StateChange(d)) :
                    /\ n > o /\ \A j \in Transitions(StateChange(d)) : j > o => n <= j
                    /\ State(n) = "departure" /\ w.until = Time(n)
<1>1. PICK c \in Connection(d) :
        /\ c.started # Null /\ c.endedBefore = Null
        /\ w.started = c.started /\ w.openedBy = c.openedBy
        /\ w.until = IF c.ended # Null THEN c.ended ELSE MinOf({c.hostStopped, c.stoppedAfter} \ {Null})
  BY DEF Placing
<1>2. PICK o \in Transitions(StateChange(d)) :
        \/ State(o) = "arrival" /\ c = Opened(d, o)
        \/ State(o) = "departure" /\ Lag(StateChange(d), o) = Null /\ c = Unopened(d, o)
  BY WindowCases
<1>3. State(o) = "arrival" /\ c = Opened(d, o)
  BY <1>1, <1>2 DEF Unopened
<1>4. /\ c.started = Time(o) /\ c.openedBy = o
      /\ \/ /\ \A j \in Transitions(StateChange(d)) : ~(j > o)
            /\ c.ended = Null
            /\ c.hostStopped = MinOf(Offs(Time(o)))
            /\ c.stoppedAfter = MinOf(Afters(Time(o)))
         \/ \E n \in Transitions(StateChange(d)) :
               /\ n > o /\ Time(n) \in 0..MaxTime
               /\ \A j \in Transitions(StateChange(d)) : j > o => n <= j
               /\ \/ State(n) = "departure" /\ c.ended = Time(n)
                  \/ c.endedBefore = Time(n)
  BY <1>3, OpenedWindow
<1>5. CASE /\ \A j \in Transitions(StateChange(d)) : ~(j > o)
           /\ c.ended = Null
           /\ c.hostStopped = MinOf(Offs(Time(o)))
           /\ c.stoppedAfter = MinOf(Afters(Time(o)))
  BY <1>1, <1>3, <1>4, <1>5
<1>6. ASSUME NEW n \in Transitions(StateChange(d)),
             n > o, Time(n) \in 0..MaxTime,
             \A j \in Transitions(StateChange(d)) : j > o => n <= j,
             \/ State(n) = "departure" /\ c.ended = Time(n)
             \/ c.endedBefore = Time(n)
      PROVE  State(n) = "departure" /\ w.until = Time(n)
  <2>1. Time(n) # Null
    BY <1>6, LogFacts DEF Null
  <2> QED BY <1>1, <1>6, <2>1
<1> QED BY <1>1, <1>3, <1>4, <1>5, <1>6

\* On hosts that record something after what arrived, and wherever the boots that reported its
\* unclean stops are known, an open window covers what one boot recorded and nothing after it.
THEOREM OpenStays == NoQuietCrash => (Spec => []OpenStaysInSession)
<1> SUFFICES ASSUME NoQuietCrash
             PROVE  Spec => []OpenStaysInSession
  OBVIOUS
<1>1. IInv /\ SessionsEnd => OpenStaysInSession
  <2> SUFFICES ASSUME IInv, SessionsEnd, BootsKnown, Settled, NEW d \in Device, NEW w \in Placing(d),
                      w.until = Null \/ \A i \in StateChange(d) : i > w.openedBy => State(i) = "arrival",
                      NEW i \in DOMAIN log, Cover(w.started, w.until, Time(i))
               PROVE  log[i].session = log[w.openedBy].session
    BY DEF OpenStaysInSession, StaysInSession
  <2>1. Typed /\ Kinds /\ Ordered /\ Boots
    BY DEF IInv, Host
  <2>2. PICK o \in Transitions(StateChange(d)) :
           /\ State(o) = "arrival" /\ w.started = Time(o) /\ w.openedBy = o
           /\ \/ /\ \A j \in Transitions(StateChange(d)) : ~(j > o)
                 /\ w.until = MinOf({MinOf(Offs(Time(o))), MinOf(Afters(Time(o)))} \ {Null})
              \/ \E n \in Transitions(StateChange(d)) :
                    /\ n > o /\ \A j \in Transitions(StateChange(d)) : j > o => n <= j
                    /\ State(n) = "departure" /\ w.until = Time(n)
    BY <2>1, PlacingCases
  <2>3. ASSUME NEW n \in Transitions(StateChange(d)), n > o, State(n) = "departure", w.until = Time(n)
        PROVE  FALSE
    <3>1. n \in StateChange(d) /\ n \in DOMAIN log
      BY <2>1, States
    <3>2. Time(n) # Null
      BY <2>1, <3>1, LogFacts DEF Null
    <3> QED BY <2>2, <2>3, <3>1, <3>2
  <2>4. /\ \A j \in Transitions(StateChange(d)) : ~(j > o)
        /\ w.until = MinOf({MinOf(Offs(Time(o))), MinOf(Afters(Time(o)))} \ {Null})
    BY <2>2, <2>3
  <2>5. SessionOf(i) = SessionOf(o)
    <3>1. Cover(Time(o), w.until, Time(i))
      BY <2>2
    <3> QED BY <2>1, <2>2, <2>4, <3>1, StaysThere
  <2> QED BY <2>2, <2>5 DEF SessionOf
<1> QED BY <1>1, Inductive, SessionsDoEnd, PTL

\* A host that records everything is known by the starts of its boots.
LEMMA BootsAreKnown ==
  ASSUME Typed, Ordered, Reports
  PROVE  BootsKnown
<1> SUFFICES ASSUME NEW u \in UncleanStop
             PROVE  u.associated /\ u.before = MinOf(StartsOf(SessionOf(u.id)))
  BY DEF BootsKnown, SessionOf
<1>1. u.id \in DOMAIN log /\ Kind(u.id) = "unexpected"
  BY StopFields
<1>2. PICK s \in DOMAIN log : AfterStart(s, u.id)
  BY <1>1 DEF Reports
<1>3. u.associated /\ u.before = Time(s)
  BY <1>1, <1>2, BootIsTheStart, StopFields
<1> DEFINE starts == StartsOf(SessionOf(u.id))
<1>4. \A k \in DOMAIN log : Time(k) \in 0..MaxTime /\ Time(k) \in Nat /\ k \in Nat /\ SessionOf(k) \in Nat
  BY LogFacts
<1>5. Time(s) \in starts
  BY <1>2 DEF AfterStart, StartsOf, Kind, SessionOf
<1>6. ASSUME NEW t \in starts
      PROVE  Time(s) <= t
  <2>1. PICK k \in DOMAIN log : SessionOf(k) = SessionOf(u.id) /\ t = Time(k)
    BY <1>6 DEF StartsOf, SessionOf
  <2>2. ~(k < s)
    <3>1. k < s => SessionOf(k) < SessionOf(u.id)
      BY <1>2 DEF AfterStart
    <3> QED BY <1>1, <1>4, <2>1, <3>1
  <2>3. s <= k
    BY <1>4, <2>2
  <2> QED BY <2>1, <2>3 DEF Ordered
<1>7. starts \in SUBSET Int /\ IsFiniteSet(starts)
  <2>1. starts \subseteq 0..MaxTime
    BY <1>4 DEF StartsOf
  <2>2. MaxTime \in Nat
    BY LogFacts
  <2>3. starts \subseteq -1..MaxTime
    BY <2>1, <2>2
  <2> QED BY <2>3, LogFacts
<1> HIDE DEF starts
<1>8. MinOf(starts) \in starts /\ \A t \in starts : MinOf(starts) <= t
  BY <1>5, <1>7, MinOfPicks
<1>9. MinOf(starts) <= Time(s) /\ Time(s) <= MinOf(starts) /\ MinOf(starts) \in Int /\ Time(s) \in Int
  BY <1>5, <1>6, <1>7, <1>8
<1>10. MinOf(starts) = Time(s)
  BY <1>9
<1> QED BY <1>3, <1>10 DEF starts

\* What a window that places a device covers, but for its first and its last instant, was recorded
\* with the device there.
LEMMA CoversWhereItWas ==
  ASSUME Typed, Kinds, Ordered, Boots, SessionsEnd, Firsts, Reports, Attended, Settled,
         NEW d \in Device, NEW w \in Placing(d), NEW i \in DOMAIN log,
         Cover(w.started, w.until, Time(i)), Time(i) \notin {w.started, w.until}
  PROVE  d \in HereAt(i)
<1> DEFINE S == StateChange(d)
           T == Transitions(S)
<1>1. PICK o \in T :
         /\ State(o) = "arrival" /\ w.started = Time(o) /\ w.openedBy = o
         /\ \/ /\ \A j \in T : ~(j > o)
               /\ w.until = MinOf({MinOf(Offs(Time(o))), MinOf(Afters(Time(o)))} \ {Null})
            \/ \E n \in T :
                  /\ n > o /\ \A j \in T : j > o => n <= j
                  /\ State(n) = "departure" /\ w.until = Time(n)
  BY PlacingCases
<1>2. /\ S \subseteq DOMAIN log /\ S = Of(d) /\ T \subseteq S /\ o \in S /\ o \in DOMAIN log
      /\ \A k \in S : /\ State(k) = "departure" <=> Kind(k) = "disconnect"
                      /\ State(k) = "arrival" <=> Kind(k) = "connect"
      /\ \A k \in DOMAIN log : k \in Nat /\ k # Null /\ Time(k) \in 0..MaxTime /\ Time(k) \in Nat
                               /\ SessionOf(k) \in Nat /\ Time(k) # Null
      /\ Len(log) \in Nat /\ DOMAIN log = 1..Len(log)
  <2>1. /\ S \subseteq DOMAIN log /\ S = Of(d) /\ T \subseteq S
        /\ \A k \in S : /\ State(k) = "departure" <=> Kind(k) = "disconnect"
                        /\ State(k) = "arrival" <=> Kind(k) = "connect"
    BY States
  <2>2. /\ \A k \in DOMAIN log : k \in Nat /\ Time(k) \in 0..MaxTime /\ Time(k) \in Nat /\ SessionOf(k) \in Nat
        /\ Len(log) \in Nat /\ DOMAIN log = 1..Len(log)
    BY LogFacts
  <2>3. \A n \in Nat : n # Null
    BY DEF Null
  <2> HIDE DEF S, T
  <2> QED BY <2>1, <2>2, <2>3
<1>3. o < i /\ o <= i
  <2>1. Time(o) <= Time(i) /\ Time(i) # Time(o)
    BY <1>1 DEF Cover
  <2>2. i <= o => Time(i) <= Time(o)
    BY <1>2 DEF Ordered
  <2> QED BY <1>2, <2>1, <2>2
\* The latest change by then is an arrival of the session that made the record.
<1>4. ASSUME NEW n \in Int, i < n, \A j \in T : j > o => n <= j, SessionOf(i) = SessionOf(o),
             \A m \in S : m >= n => ~(Kind(m) = "disconnect" /\ Time(m) = Time(i))
      PROVE  d \in HereAt(i)
  <2> DEFINE before == {j \in S : j <= i}
  <2>1. before \in SUBSET Int /\ IsFiniteSet(before) /\ o \in before
    <3>1. before \subseteq DOMAIN log
      BY <1>2
    <3> QED BY <1>2, <1>3, <3>1, LogFacts
  <2>2. PICK l \in before : \A j \in before : l >= j
    BY <2>1, GreatestExists
  <2>3. \A m \in S : o <= m /\ m < n => State(m) = "arrival" /\ SessionOf(m) = SessionOf(o)
    BY <1>1, <1>4, Between
  <2>4. l \in S /\ l <= i /\ o <= l /\ l < n /\ \A j \in S : j <= i => j <= l
    BY <1>2, <1>4, <2>1, <2>2
  <2>5. Kind(l) = "connect" /\ SessionOf(l) = SessionOf(i)
    BY <1>2, <1>4, <2>3, <2>4
  <2>6. Present(d, i)
    BY <1>2, <2>4, <2>5 DEF Attended
  <2>7. ASSUME NEW m \in Of(d), m > i, Kind(m) = "disconnect", Time(m) = Time(i)
        PROVE  FALSE
    <3>1. m \in S /\ m < n
      BY <1>2, <1>4, <2>7
    <3>2. o <= m
      BY <1>2, <1>3, <2>7
    <3> QED BY <1>2, <2>3, <2>7, <3>1, <3>2
  <2> QED BY <2>6, <2>7 DEF Present, Settled
<1>5. CASE /\ \A j \in T : ~(j > o)
           /\ w.until = MinOf({MinOf(Offs(Time(o))), MinOf(Afters(Time(o)))} \ {Null})
  <2>1. SessionOf(i) = SessionOf(o)
    <3>1. BootsKnown
      BY BootsAreKnown
    <3>2. Cover(Time(o), w.until, Time(i))
      BY <1>1
    <3> QED BY <1>1, <1>5, <3>1, <3>2, StaysThere
  <2>2. Len(log) + 1 \in Int /\ i < Len(log) + 1 /\ \A m \in S : ~(m >= Len(log) + 1)
    BY <1>2
  <2>3. \A j \in T : j > o => Len(log) + 1 <= j
    BY <1>5
  <2> QED BY <1>4, <2>1, <2>2, <2>3
<1>6. ASSUME NEW n \in T, n > o, \A j \in T : j > o => n <= j, State(n) = "departure", w.until = Time(n)
      PROVE  d \in HereAt(i)
  <2>1. n \in S /\ n \in DOMAIN log /\ Kind(n) = "disconnect" /\ n \in Int
    BY <1>2, <1>6
  <2>2. Time(i) < Time(n)
    <3>1. Time(i) <= Time(n) /\ Time(i) # Time(n)
      BY <1>2, <1>6, <2>1 DEF Cover
    <3> QED BY <1>2, <2>1, <3>1
  <2>3. i < n
    <3>1. n <= i => Time(n) <= Time(i)
      BY <2>1 DEF Ordered
    <3> QED BY <1>2, <2>1, <2>2, <3>1
  <2>4. SessionOf(n) = SessionOf(o)
    <3>1. PICK l : l = Lag(S, n)
      OBVIOUS
    <3>2. l \in S /\ l < n /\ o <= l /\ \A j \in S : j < n => j <= l
      BY <1>2, <1>6, <2>1, <3>1, Neighbours
    <3>3. Precedes(d, l, n)
      BY <1>2, <3>2 DEF Precedes
    <3>4. SessionOf(l) = SessionOf(n)
      BY <1>2, <2>1, <3>2, <3>3 DEF Firsts
    <3>5. SessionOf(l) = SessionOf(o)
      BY <1>1, <1>6, <2>1, <3>2, Between
    <3> QED BY <3>4, <3>5
  <2>5. SessionOf(i) = SessionOf(o)
    <3>1. SessionOf(o) <= SessionOf(i) /\ SessionOf(i) <= SessionOf(n)
      <4>1. i <= n
        BY <1>2, <2>1, <2>3
      <4> QED BY <1>2, <1>3, <2>1, <4>1 DEF Ordered
    <3> QED BY <1>2, <2>4, <3>1
  <2>6. \A m \in S : m >= n => ~(Kind(m) = "disconnect" /\ Time(m) = Time(i))
    <3> SUFFICES ASSUME NEW m \in S, m >= n
                 PROVE  Time(m) # Time(i)
      OBVIOUS
    <3>1. n <= m /\ m \in DOMAIN log
      BY <1>2, <2>1
    <3>2. Time(n) <= Time(m)
      BY <2>1, <3>1 DEF Ordered
    <3> QED BY <1>2, <2>1, <2>2, <3>1, <3>2
  <2> QED BY <1>4, <1>6, <2>1, <2>3, <2>5, <2>6
<1> QED BY <1>1, <1>5, <1>6

\* On hosts that record every change, and something after what arrived, no window places a device
\* where it was not.
THEOREM PlacedWhereItWas == NoQuietCrash => (Spec => []PlacingSound)
<1> SUFFICES ASSUME NoQuietCrash
             PROVE  Spec => []PlacingSound
  OBVIOUS
<1>1. IInv /\ SessionsEnd => PlacingSound
  BY CoversWhereItWas DEF IInv, Host, Recorded, PlacingSound, HereAt
<1> QED BY <1>1, Inductive, SessionsDoEnd, PTL
-----------------------------------------------------------------------------
(* The files.  A file is opened at a moment, not by a record: the invariant  *)
(* puts the moment into a session and among the records.                     *)

\* Every stick that is put into a host is known as storage attached over USB.
SticksKnown == \A h \in Habits : h.sticks \subseteq Usb

\* The moment t lies in session s: after what the sessions before it recorded, before what
\* those after it recorded, and no later than its shutdown.
Moment(t, s) ==
  /\ t \in Nat /\ s \in Nat /\ s <= session /\ t <= now /\ (s < session => t < now)
  /\ \A k \in DOMAIN log :
       /\ SessionOf(k) < s => Time(k) < t
       /\ s < SessionOf(k) => t < Time(k)
       /\ Kind(k) = "stopped" /\ SessionOf(k) = s => t <= Time(k)

\* The latest of a device's comings and goings before t.
LastBefore(d, t, l) == l \in Of(d) /\ Time(l) < t /\ \A j \in Of(d) : Time(j) < t => j <= l

\* What was there at a moment of session s is what had come in that session and not gone, of all
\* that the log knows of by then.
Follows(f, s) ==
  Still(f.at) => \A d \in Device, l \in DOMAIN log : LastBefore(d, f.at, l) =>
    (d \in f.here <=> Kind(l) = "connect" /\ SessionOf(l) = s)
Seen(f) == \E s \in Nat : Moment(f.at, s) /\ Follows(f, s)
Files == \A i \in DOMAIN opened : Seen(opened[i])

\* A session that was shut down is over.
OffAfterStop == \A k \in DOMAIN log : Kind(k) = "stopped" /\ SessionOf(k) = session => host = "off"

\* Only the host's sticks are ever in its ports.
Seated == attached \subseteq habit.sticks /\ \A i \in DOMAIN opened : opened[i].here \subseteq habit.sticks

FilesInv == TypeOK /\ OffAfterStop /\ Seated /\ (AllRecorded => Files)

\* A moment stays in its session, whatever is recorded after it.
LEMMA MomentKeeps ==
  ASSUME Typed, Shape, NEW t, NEW s, Moment(t, s)
  PROVE  Moment(t, s)'
<1>1. /\ now \in Nat /\ session \in Nat /\ Tolerance \in Nat /\ now' \in Nat /\ now <= now'
  <2>1. now \in 0..MaxTime /\ session \in Nat /\ MaxTime \in Nat /\ Tolerance \in Nat
    BY LogFacts DEF Typed, HostTypeOK
  <2>2. now' \in 0..MaxTime /\ now' >= now
    BY DEF Shape
  <2> QED BY <2>1, <2>2
<1>2. /\ t \in Nat /\ s \in Nat /\ s <= session /\ t <= now /\ (s < session => t < now)
      /\ \A k \in DOMAIN log :
           /\ SessionOf(k) < s => Time(k) < t
           /\ s < SessionOf(k) => t < Time(k)
           /\ Kind(k) = "stopped" /\ SessionOf(k) = s => t <= Time(k)
  BY DEF Moment
<1>3. CASE Silent
  <2>1. log' = log /\ (session' = session \/ (session' = session + 1 /\ now' = now + Tolerance + 1))
    BY <1>3 DEF Silent
  <2>2. s <= session' /\ t <= now' /\ (s < session' => t < now')
    BY <1>1, <1>2, <2>1
  <2>3. \A k \in DOMAIN log' :
           /\ SessionOf(k)' < s => Time(k)' < t
           /\ s < SessionOf(k)' => t < Time(k)'
           /\ Kind(k)' = "stopped" /\ SessionOf(k)' = s => t <= Time(k)'
    BY <1>2, <2>1 DEF SessionOf, Time, Kind
  <2> QED BY <1>2, <2>2, <2>3 DEF Moment
<1>4. CASE Writing
  <2>1. PICK n, e : Written(n, e) /\ Fit(e)
    BY <1>4, WritesOne
  <2>2. now' = now /\ session' = session
    BY <1>4 DEF Writing
  <2>3. /\ DOMAIN log' = DOMAIN log \cup {n} /\ Time(n)' = now /\ SessionOf(n)' = session
        /\ \A k \in DOMAIN log : Time(k)' = Time(k) /\ SessionOf(k)' = SessionOf(k) /\ Kind(k)' = Kind(k)
    BY <2>1 DEF Written, Fit, Time, SessionOf, Kind
  <2>4. ASSUME NEW k \in DOMAIN log'
        PROVE  /\ SessionOf(k)' < s => Time(k)' < t
               /\ s < SessionOf(k)' => t < Time(k)'
               /\ Kind(k)' = "stopped" /\ SessionOf(k)' = s => t <= Time(k)'
    <3>1. CASE k \in DOMAIN log
      BY <1>2, <2>3, <3>1
    <3>2. CASE k = n
      BY <1>1, <1>2, <2>3, <3>2
    <3> QED BY <2>3, <3>1, <3>2
  <2> QED BY <1>2, <2>2, <2>4 DEF Moment
<1> QED BY <1>3, <1>4 DEF Shape

\* What follows from the records before a moment does not change with those after it.
LEMMA FollowsKeeps ==
  ASSUME Typed, Shape, NEW f, NEW s, Moment(f.at, s), Follows(f, s)
  PROVE  Follows(f, s)'
<1> SUFFICES ASSUME Still(f.at)', NEW d \in Device, NEW l \in DOMAIN log', LastBefore(d, f.at, l)'
             PROVE  d \in f.here <=> Kind(l)' = "connect" /\ SessionOf(l)' = s
  BY DEF Follows
<1>1. l \in Of(d)' /\ Time(l)' < f.at /\ \A j \in Of(d)' : Time(j)' < f.at => j <= l
  BY DEF LastBefore
<1>2. CASE Silent
  <2>1. log' = log
    BY <1>2 DEF Silent
  <2>2. LastBefore(d, f.at, l) /\ Still(f.at) /\ l \in DOMAIN log
    BY <1>1, <2>1 DEF LastBefore, Of, Time, Still
  <2>3. d \in f.here <=> Kind(l) = "connect" /\ SessionOf(l) = s
    BY <2>2 DEF Follows
  <2> QED BY <2>1, <2>3 DEF Kind, SessionOf
<1>3. CASE Writing
  <2>1. PICK n, e : Written(n, e) /\ Fit(e)
    BY <1>3, WritesOne
  <2>2. /\ DOMAIN log' = DOMAIN log \cup {n} /\ Time(n)' = now
        /\ \A k \in DOMAIN log : log'[k] = log[k]
    BY <2>1 DEF Written, Fit, Time
  <2>3. f.at \in Nat /\ f.at <= now /\ now \in Nat
    BY LogFacts DEF Moment
  <2>4. l # n /\ l \in DOMAIN log
    BY <1>1, <2>2, <2>3
  <2>5. \A k \in DOMAIN log : k \in Of(d)' <=> k \in Of(d)
    BY <2>2 DEF Of
  <2>6. Of(d) \subseteq DOMAIN log
    BY DEF Of
  <2>7. \A k \in DOMAIN log : Time(k)' = Time(k) /\ Kind(k)' = Kind(k) /\ SessionOf(k)' = SessionOf(k)
    BY <2>2 DEF Time, Kind, SessionOf
  <2>8. LastBefore(d, f.at, l)
    BY <1>1, <2>4, <2>5, <2>6, <2>7 DEF LastBefore
  <2>9. Still(f.at)
    BY <2>2 DEF Still
  <2>10. d \in f.here <=> Kind(l) = "connect" /\ SessionOf(l) = s
    BY <2>4, <2>8, <2>9 DEF Follows
  <2> QED BY <2>4, <2>7, <2>10
<1> QED BY <1>2, <1>3 DEF Shape

\* A file that is opened is opened in the session that runs, with what the host knows of.
LEMMA OpenedNow ==
  ASSUME Typed, Ports, Kinds, Ordered, Noted, OffAfterStop, host = "on",
         NEW f, f.at = now, f.here = attached
  PROVE  Seen(f)
<1>1. /\ now \in Nat /\ session \in Nat /\ Tolerance \in Nat /\ noticed = attached /\ host # "off"
      /\ \A k \in DOMAIN log : k \in Nat /\ Time(k) \in Nat /\ SessionOf(k) \in Nat
  BY LogFacts DEF Typed, HostTypeOK, Ports
<1>2. Moment(now, session)
  <2>1. \A k \in DOMAIN log : /\ SessionOf(k) < session => Time(k) + Tolerance < now
                              /\ SessionOf(k) <= session
    BY DEF Ordered
  <2>2. \A k \in DOMAIN log : SessionOf(k) < session => Time(k) < now
    BY <1>1, <2>1
  <2>3. \A k \in DOMAIN log : ~(session < SessionOf(k))
    BY <1>1, <2>1
  <2>4. \A k \in DOMAIN log : ~(Kind(k) = "stopped" /\ SessionOf(k) = session)
    BY <1>1 DEF OffAfterStop
  <2>5. session <= session /\ now <= now /\ ~(session < session)
    BY <1>1
  <2> QED BY <1>1, <2>2, <2>3, <2>4, <2>5 DEF Moment
<1>3. ASSUME Still(now), NEW d \in Device, NEW l \in DOMAIN log, LastBefore(d, now, l)
      PROVE  d \in attached <=> Kind(l) = "connect" /\ SessionOf(l) = session
  <2>1. l \in Of(d) /\ \A j \in Of(d) : Time(j) < now => j <= l
    BY <1>3 DEF LastBefore
  <2>2. \A j \in Of(d) : j \in DOMAIN log /\ log[j].dev = d /\ Kind(j) # "fault"
    BY DEF Of, Kind
  <2>3. \A j \in Of(d) : Time(j) <= now /\ Time(j) # now
    BY <1>3, <2>2, HostAssumption DEF Ordered, Still, Time
  <2>4. \A j \in Of(d) : Time(j) < now
    BY <1>1, <2>2, <2>3
  <2>5. Latest(d, l)
    BY <2>1, <2>4 DEF Latest
  <2>6. d \in noticed => Kind(l) = "connect" /\ SessionOf(l) = session
    BY <2>5 DEF Noted
  <2>7. d \notin noticed => Kind(l) = "disconnect" \/ SessionOf(l) < session
    BY <1>1, <2>5 DEF Noted
  <2>8. d \notin noticed => ~(Kind(l) = "connect" /\ SessionOf(l) = session)
    BY <1>1, <2>7
  <2> QED BY <1>1, <2>6, <2>8
<1>4. Follows(f, session)
  BY <1>3 DEF Follows
<1> QED BY <1>1, <1>2, <1>4 DEF Seen

\* What the host's steps do to its shutdowns and its ports.
LEMMA OffAfterStopKeeps ==
  ASSUME Typed, Kinds, Ordered, OffAfterStop, HostNext
  PROVE  OffAfterStop'
<1> DEFINE Goes == /\ host # "off" /\ session' = session
                   /\ \/ log' = log
                      \/ \E n, e : Written(n, e) /\ e.kind # "stopped"
           Stays == host' = host /\ session' = session /\ log' = log
<1>1. \A k \in DOMAIN log : SessionOf(k) \in Nat /\ SessionOf(k) <= session /\ k \in Nat
  BY LogFacts DEF Ordered
<1>2. ASSUME Goes
      PROVE  OffAfterStop'
  <2>1. \A k \in DOMAIN log : ~(Kind(k) = "stopped" /\ SessionOf(k) = session)
    BY <1>2 DEF OffAfterStop
  <2>2. CASE log' = log
    BY <1>2, <2>1, <2>2 DEF OffAfterStop, Kind, SessionOf
  <2>3. CASE \E n, e : Written(n, e) /\ e.kind # "stopped"
    <3>1. PICK n, e : Written(n, e) /\ e.kind # "stopped"
      BY <2>3
    <3>2. /\ DOMAIN log' = DOMAIN log \cup {n} /\ Kind(n)' # "stopped"
          /\ \A k \in DOMAIN log : Kind(k)' = Kind(k) /\ SessionOf(k)' = SessionOf(k)
      BY <3>1 DEF Written, Kind, SessionOf
    <3> QED BY <1>2, <2>1, <3>2 DEF OffAfterStop
  <2> QED BY <1>2, <2>2, <2>3
<1>3. ASSUME Stays
      PROVE  OffAfterStop'
  BY <1>3 DEF OffAfterStop, Kind, SessionOf
<1>4. ASSUME NEW kind, NEW d, NEW first, Write(kind, d, first), kind # "stopped"
      PROVE  \E n, e : Written(n, e) /\ e.kind # "stopped"
  <2>1. Entry(kind, d, first).kind # "stopped"
    BY <1>4 DEF Entry
  <2> QED BY <1>4, <2>1, EntryWritten
<1>5. CASE Shutdown
  <2>1. host' = "off"
    BY <1>5 DEF Shutdown
  <2> QED BY <2>1 DEF OffAfterStop
<1>6. CASE Boot
  <2>1. log' = log /\ session' = session + 1 /\ session \in Nat
    BY <1>6 DEF Boot, Typed, HostTypeOK
  <2>2. \A k \in DOMAIN log : SessionOf(k) # session'
    BY <1>1, <2>1
  <2> QED BY <2>1, <2>2 DEF OffAfterStop, Kind, SessionOf
<1>7. CASE Tick \/ Crash \/ BootEnds
  <2>1. Goes
    BY <1>7 DEF Tick, Crash, BootEnds
  <2> QED BY <1>2, <2>1
<1>8. CASE Activity \/ Sleep \/ Wake
  <2>1. /\ host # "off" /\ session' = session
        /\ Write("running", NoDevice, FALSE) \/ Write("slept", NoDevice, FALSE) \/ Write("woke", NoDevice, FALSE)
    BY <1>8 DEF Activity, Sleep, Wake
  <2> QED BY <1>2, <1>4, <2>1
<1>9. CASE BootWrites
  <2>1. host # "off" /\ session' = session /\ Write(Head(pending), NoDevice, FALSE)
    BY <1>9 DEF BootWrites
  <2>2. Head(pending) # "stopped"
    BY <1>9, BootWritesOne
  <2> QED BY <1>2, <1>4, <2>1, <2>2
<1>10. ASSUME NEW d \in habit.sticks, Plug(d) \/ Fault(d) \/ Unplug(d) \/ BootNotices(d)
       PROVE  OffAfterStop'
  <2>1. /\ host # "off" /\ session' = session
        /\ Write("connect", d, TRUE) \/ Write("fault", d, FALSE) \/ Write("disconnect", d, TRUE) \/ log' = log
    BY <1>10 DEF Plug, Fault, Unplug, BootNotices
  <2> QED BY <1>2, <1>4, <2>1
<1>11. ASSUME NEW d \in habit.sticks, Echo(d)
       PROVE  OffAfterStop'
  <2>1. PICK i \in Of(d) : Write(log[i].kind, d, FALSE)
    BY <1>11 DEF Echo
  <2>2. log[i].kind \in DeviceKind
    BY HostAssumption DEF Of, Kinds, Kind, Typed, HostTypeOK
  <2>3. host # "off" /\ session' = session /\ log[i].kind # "stopped"
    BY <1>11, <2>2 DEF Echo, DeviceKind
  <2> QED BY <1>2, <1>4, <2>1, <2>3
<1>12. ASSUME NEW d \in habit.sticks, MoveUnseen(d)
       PROVE  OffAfterStop'
  <2>1. Stays
    BY <1>12 DEF MoveUnseen
  <2> QED BY <1>3, <2>1
<1> QED BY <1>5, <1>6, <1>7, <1>8, <1>9, <1>10, <1>11, <1>12 DEF HostNext

\* The sticks in a host's ports are its own.
LEMMA PortsSeated ==
  ASSUME attached \subseteq habit.sticks, HostNext \/ UNCHANGED hostVars
  PROVE  attached' \subseteq habit'.sticks
<1>1. CASE Tick \/ Activity \/ Sleep \/ Wake \/ Shutdown
  BY <1>1 DEF Tick, Activity, Sleep, Wake, Shutdown
<1>2. CASE Crash \/ Boot \/ BootWrites \/ BootEnds
  BY <1>2 DEF Crash, Boot, BootWrites, BootEnds
<1>3. ASSUME NEW d \in habit.sticks, Plug(d) \/ Echo(d) \/ Unplug(d)
      PROVE  attached' \subseteq habit'.sticks
  BY <1>3 DEF Plug, Echo, Unplug
<1>4. ASSUME NEW d \in habit.sticks, MoveUnseen(d) \/ Fault(d) \/ BootNotices(d)
      PROVE  attached' \subseteq habit'.sticks
  BY <1>4 DEF MoveUnseen, Fault, BootNotices
<1>5. CASE UNCHANGED hostVars
  BY <1>5 DEF hostVars
<1> QED BY <1>1, <1>2, <1>3, <1>4, <1>5 DEF HostNext

\* The letters and the files.
OpenedFile == [on : Device, letter : Letter, at : 0..MaxTime, here : SUBSET Device]

\* A step hands out letters, or opens one file on a host that is on.
Opens == host = "on" /\ log' = log /\ UNCHANGED hostVars /\
  \E f \in OpenedFile : f.at = now /\ f.here = attached /\ opened' = Append(opened, f)

\* Letters and files stay what they are, and a step adds one file at most.
LEMMA FileSteps ==
  ASSUME Typed, TypeOK, [Next]_vars
  PROVE  TypeOK' /\ (opened' = opened \/ Opens)
<1>1. /\ mount \in [Letter -> Device \cup {NoDevice}] /\ hive \in [Letter -> Device \cup {NoDevice}]
      /\ opened \in Seq(OpenedFile) /\ now \in 0..MaxTime /\ attached \subseteq Device
      /\ habit.sticks \subseteq Device
  BY HostAssumption DEF TypeOK, OpenedFile, Typed, HostTypeOK
<1>2. ASSUME mount' \in [Letter -> Device \cup {NoDevice}], hive' \in [Letter -> Device \cup {NoDevice}],
             opened' = opened
      PROVE  TypeOK' /\ (opened' = opened \/ Opens)
  BY <1>1, <1>2 DEF TypeOK, OpenedFile
<1>3. ASSUME NEW d \in habit.sticks, Mounted(d) \/ UNCHANGED filesVars
      PROVE  TypeOK' /\ (opened' = opened \/ Opens)
  <2>1. opened' = opened
    BY <1>3 DEF Mounted, filesVars
  <2>2. mount' \in [Letter -> Device \cup {NoDevice}]
    BY <1>1, <1>3 DEF Mounted, Assign, filesVars
  <2>3. hive' \in [Letter -> Device \cup {NoDevice}]
    BY <1>1, <1>3, <2>2 DEF Mounted, filesVars
  <2> QED BY <1>2, <2>1, <2>2, <2>3
<1>4. CASE UNCHANGED filesVars
  BY <1>1, <1>2, <1>4 DEF filesVars
<1>5. CASE ShutdownFlushes \/ CrashLoses
  BY <1>1, <1>2, <1>5 DEF ShutdownFlushes, CrashLoses
<1>6. ASSUME NEW d \in habit.sticks, Arrive(d) \/ Notice(d)
      PROVE  TypeOK' /\ (opened' = opened \/ Opens)
  BY <1>3, <1>6 DEF Arrive, Notice
<1>7. ASSUME NEW d \in habit.sticks, Open(d)
      PROVE  TypeOK' /\ (opened' = opened \/ Opens)
  <2>1. PICK l \in Letter : opened' = Append(opened, [on |-> d, letter |-> l, at |-> now, here |-> attached])
    BY <1>7 DEF Open, LetterOf
  <2>2. PICK f : f = [on |-> d, letter |-> l, at |-> now, here |-> attached]
    OBVIOUS
  <2>3. f \in OpenedFile /\ f.at = now /\ f.here = attached
    BY <1>1, <2>2 DEF OpenedFile
  <2>4. host = "on" /\ UNCHANGED hostVars /\ mount' = mount /\ hive' = hive /\ opened' = Append(opened, f)
    BY <1>7, <2>1, <2>2 DEF Open
  <2>5. opened' \in Seq(OpenedFile)
    BY <1>1, <2>3, <2>4
  <2>6. TypeOK'
    BY <1>1, <2>4, <2>5 DEF TypeOK, OpenedFile
  <2>7. Opens
    BY <2>3, <2>4 DEF Opens, hostVars
  <2> QED BY <2>6, <2>7
<1>8. CASE Elsewhere /\ UNCHANGED filesVars
  BY <1>4, <1>8
<1>9. CASE UNCHANGED vars
  BY <1>4, <1>9 DEF vars
<1> QED BY <1>5, <1>6, <1>7, <1>8, <1>9 DEF Next

\* The files' invariant.
THEOREM FilesInductive == Spec => []FilesInv
<1>1. Init => FilesInv
  <2> SUFFICES ASSUME Init
               PROVE  FilesInv
    OBVIOUS
  <2>1. /\ opened = <<>> /\ mount = [l \in Letter |-> NoDevice] /\ hive = mount /\ log = <<>>
        /\ attached \in SUBSET habit.sticks
    BY DEF Init, HostInit
  <2>2. DOMAIN log = {} /\ DOMAIN opened = {}
    BY <2>1
  <2>3. TypeOK
    BY <2>1 DEF TypeOK
  <2> QED BY <2>1, <2>2, <2>3 DEF FilesInv, OffAfterStop, Seated, Files
<1>2. IInv /\ FilesInv /\ [Next]_vars => FilesInv'
  <2> SUFFICES ASSUME IInv, FilesInv, [Next]_vars
               PROVE  FilesInv'
    OBVIOUS
  <2>1. /\ Typed /\ Ports /\ Kinds /\ Ordered /\ TypeOK /\ OffAfterStop /\ Seated
        /\ AllRecorded => Noted /\ Files
    BY DEF IInv, Host, Recorded, FilesInv
  <2>2. TypeOK' /\ (opened' = opened \/ Opens)
    BY <2>1, FileSteps
  <2>3. OffAfterStop' /\ habit' = habit
    <3>1. CASE HostNext
      BY <2>1, <3>1, OffAfterStopKeeps, Shapes DEF Shape
    <3>2. CASE UNCHANGED hostVars
      BY <2>1, <3>2 DEF OffAfterStop, hostVars, Kind, SessionOf
    <3> QED BY <3>1, <3>2, StepsOfTheHost
  <2>4. opened \in Seq(OpenedFile)
    BY <2>1 DEF TypeOK, OpenedFile
  <2>5. ASSUME NEW i \in DOMAIN opened'
        PROVE  \/ i \in DOMAIN opened /\ opened'[i] = opened[i]
               \/ Opens /\ opened'[i].at = now /\ opened'[i].here = attached
    <3>1. CASE opened' = opened
      BY <3>1
    <3>2. CASE Opens
      <4>1. PICK f \in OpenedFile : f.at = now /\ f.here = attached /\ opened' = Append(opened, f)
        BY <3>2 DEF Opens
      <4>2. \/ i \in DOMAIN opened /\ opened'[i] = opened[i]
            \/ opened'[i] = f
        BY <2>4, <4>1
      <4> QED BY <3>2, <4>1, <4>2
    <3> QED BY <2>2, <3>1, <3>2
  <2>6. Seated'
    <3>1. attached' \subseteq habit'.sticks
      BY <2>1, PortsSeated, StepsOfTheHost DEF Seated
    <3>2. \A i \in DOMAIN opened' : opened'[i].here \subseteq habit.sticks
      BY <2>1, <2>5 DEF Seated
    <3> QED BY <2>3, <3>1, <3>2 DEF Seated
  <2>7. ASSUME AllRecorded', NEW i \in DOMAIN opened'
        PROVE  Seen(opened[i])'
    <3>1. AllRecorded /\ Noted /\ Files
      BY <2>1, <2>3, <2>7 DEF AllRecorded
    <3>2. PICK f : f = opened'[i]
      OBVIOUS
    <3>3. CASE i \in DOMAIN opened /\ opened'[i] = opened[i]
      <4>1. PICK s \in Nat : Moment(f.at, s) /\ Follows(f, s)
        BY <3>1, <3>2, <3>3 DEF Files, Seen
      <4>2. Moment(f.at, s)' /\ Follows(f, s)'
        <5>1. CASE HostNext
          <6>1. Shape
            BY <2>1, <5>1, Shapes
          <6> QED BY <2>1, <4>1, <6>1, MomentKeeps, FollowsKeeps
        <5>2. CASE UNCHANGED hostVars
          BY <4>1, <5>2 DEF hostVars, Moment, Follows, Still, LastBefore, Of, Time, Kind, SessionOf
        <5> QED BY <5>1, <5>2, StepsOfTheHost
      <4>3. Seen(f)'
        BY <4>1, <4>2 DEF Seen
      <4> QED BY <3>2, <4>3
    <3>4. CASE Opens /\ opened'[i].at = now /\ opened'[i].here = attached
      <4>1. Seen(f)
        BY <2>1, <3>1, <3>2, <3>4, OpenedNow DEF Opens
      <4>2. PICK s \in Nat : Moment(f.at, s) /\ Follows(f, s)
        BY <4>1 DEF Seen
      <4>3. Moment(f.at, s)' /\ Follows(f, s)'
        BY <3>4, <4>2 DEF Opens, hostVars, Moment, Follows, Still, LastBefore, Of, Time, Kind, SessionOf
      <4>4. Seen(f)'
        BY <4>2, <4>3 DEF Seen
      <4> QED BY <3>2, <4>4
    <3> QED BY <2>5, <3>3, <3>4
  <2> QED BY <2>2, <2>3, <2>6, <2>7 DEF FilesInv, Files
<1> QED BY <1>1, <1>2, Inductive, PTL DEF Spec

-----------------------------------------------------------------------------
(* What the windows cover at a moment.                                      *)

\* A device's windows are its own.
LEMMA PlacingDevice ==
  ASSUME NEW d, NEW w \in Placing(d)
  PROVE  w.dev = d
<1>1. PICK c \in Connection(d) :
        w = [dev |-> d, started |-> c.started, openedBy |-> c.openedBy, undated |-> c.undated,
             until |-> IF c.ended # Null THEN c.ended ELSE MinOf({c.hostStopped, c.stoppedAfter} \ {Null})]
  BY DEF Placing
<1> QED BY <1>1

\* What a device's window says of a moment t of session s: it was opened before it and in that
\* session, and no removal was recorded since, or one after t and in that session.
Lifts(d, o, n, t, s, until) ==
  /\ o \in Transitions(StateChange(d)) /\ State(o) = "arrival" /\ Time(o) < t /\ SessionOf(o) = s
  /\ \/ /\ \A j \in Transitions(StateChange(d)) : ~(j > o)
        /\ n = Len(log) + 1
        /\ until = MinOf({MinOf(Offs(Time(o))), MinOf(Afters(Time(o)))} \ {Null})
     \/ /\ n \in Transitions(StateChange(d)) /\ n > o /\ \A j \in Transitions(StateChange(d)) : j > o => n <= j
        /\ State(n) = "departure" /\ until = Time(n) /\ t < Time(n) /\ SessionOf(n) = s

\* It says so of every moment that it covers, but for those at which devices came and went.
LEMMA WindowThen ==
  ASSUME Typed, Kinds, Ordered, Boots, SessionsEnd, Firsts, Reports, Settled,
         NEW d \in Device, NEW w \in Placing(d), NEW t, NEW s, Moment(t, s), Still(t),
         Cover(w.started, w.until, t)
  PROVE  w.dev = d /\ \E o, n : w.started = Time(o) /\ Lifts(d, o, n, t, s, w.until)
<1> DEFINE S == StateChange(d)
           T == Transitions(S)
<1>0. w.dev = d
  BY PlacingDevice
<1>1. PICK o \in T :
         /\ State(o) = "arrival" /\ w.started = Time(o) /\ w.openedBy = o
         /\ \/ /\ \A j \in T : ~(j > o)
               /\ w.until = MinOf({MinOf(Offs(Time(o))), MinOf(Afters(Time(o)))} \ {Null})
            \/ \E n \in T :
                  /\ n > o /\ \A j \in T : j > o => n <= j
                  /\ State(n) = "departure" /\ w.until = Time(n)
  BY PlacingCases
<1>2. /\ S \subseteq DOMAIN log /\ S = Of(d) /\ T \subseteq S /\ o \in S /\ o \in DOMAIN log
      /\ \A k \in S : (State(k) = "departure" <=> Kind(k) = "disconnect") /\ log[k].dev = d
  BY States
<1>3. \A k \in DOMAIN log : k \in Nat /\ k # Null /\ Time(k) \in Nat /\ Time(k) # Null /\ SessionOf(k) \in Nat
  BY LogFacts DEF Null
<1>4. t \in Nat /\ s \in Nat /\ s <= session /\
      \A k \in DOMAIN log : (SessionOf(k) < s => Time(k) < t) /\ (s < SessionOf(k) => t < Time(k))
  BY DEF Moment
<1>5. \A k \in S : Time(k) # t
  BY <1>2, HostAssumption DEF Still, Time
<1>6. Time(o) < t
  <2>1. Time(o) <= t
    BY <1>1 DEF Cover
  <2> QED BY <1>2, <1>3, <1>4, <1>5, <2>1
<1>7. CASE /\ \A j \in T : ~(j > o)
           /\ w.until = MinOf({MinOf(Offs(Time(o))), MinOf(Afters(Time(o)))} \ {Null})
  <2>1. BootsKnown
    BY BootsAreKnown
  <2>2. Cover(Time(o), w.until, t)
    BY <1>1
  <2>3. s = SessionOf(o)
    BY <1>1, <1>4, <1>7, <2>1, <2>2, StaysAt
  <2>4. Lifts(d, o, Len(log) + 1, t, s, w.until)
    BY <1>1, <1>6, <1>7, <2>3 DEF Lifts
  <2> QED BY <1>0, <1>1, <2>4
<1>8. ASSUME NEW n \in T, n > o, \A j \in T : j > o => n <= j, State(n) = "departure", w.until = Time(n)
      PROVE  \E m : Lifts(d, o, m, t, s, w.until)
  <2>1. n \in S /\ n \in DOMAIN log /\ Kind(n) = "disconnect" /\ n \in Int
    BY <1>2, <1>3, <1>8
  <2>2. t < Time(n)
    <3>1. t <= Time(n)
      BY <1>3, <1>8, <2>1 DEF Cover
    <3> QED BY <1>3, <1>4, <1>5, <2>1, <3>1
  <2>3. SessionOf(n) = SessionOf(o)
    <3>1. PICK l : l = Lag(S, n)
      OBVIOUS
    <3>2. l \in S /\ l < n /\ o <= l /\ \A j \in S : j < n => j <= l
      BY <1>2, <1>3, <1>8, <2>1, <3>1, Neighbours
    <3>3. Precedes(d, l, n)
      BY <1>2, <3>2 DEF Precedes
    <3>4. SessionOf(l) = SessionOf(n)
      BY <1>2, <2>1, <3>2, <3>3 DEF Firsts
    <3>5. SessionOf(l) = SessionOf(o)
      BY <1>1, <1>8, <2>1, <3>2, Between
    <3> QED BY <3>4, <3>5
  <2>4. ~(SessionOf(n) < s) /\ ~(s < SessionOf(o))
    BY <1>2, <1>3, <1>4, <1>6, <2>1, <2>2
  <2>5. SessionOf(o) = s
    BY <1>2, <1>3, <1>4, <2>3, <2>4
  <2>6. Lifts(d, o, n, t, s, w.until)
    BY <1>1, <1>6, <1>8, <2>2, <2>3, <2>5 DEF Lifts
  <2> QED BY <2>6
<1> QED BY <1>0, <1>1, <1>7, <1>8

\* The latest of what a device did before a moment.
LEMMA LastExists ==
  ASSUME Typed, Ordered, NEW d \in Device, NEW t \in Nat, NEW o \in Of(d), Time(o) < t
  PROVE  \E l \in DOMAIN log : LastBefore(d, t, l) /\ o <= l
<1> DEFINE before == {j \in Of(d) : Time(j) < t}
<1>1. before \subseteq DOMAIN log /\ o \in before
  BY DEF Of
<1>2. before \in SUBSET Int /\ IsFiniteSet(before)
  BY <1>1, LogFacts
<1>3. PICK l \in before : \A j \in before : l >= j
  <2> HIDE DEF before
  <2> QED BY <1>1, <1>2, GreatestExists
<1>4. \A j \in Of(d) : Time(j) < t => j <= l
  BY <1>2, <1>3
<1> QED BY <1>1, <1>2, <1>3, <1>4 DEF LastBefore

\* A device whose window covers the moment a file was opened was there.
LEMMA ThereThen ==
  ASSUME Typed, Kinds, Ordered, Boots, SessionsEnd, Firsts, Reports, Settled,
         NEW d \in Device, NEW w \in Placing(d), NEW f, NEW s, Moment(f.at, s), Follows(f, s), Still(f.at),
         Cover(w.started, w.until, f.at)
  PROVE  d \in f.here
<1> DEFINE S == StateChange(d)
           t == f.at
<1>1. PICK o, n : Lifts(d, o, n, t, s, w.until)
  BY WindowThen
<1>2. S = Of(d) /\ S \subseteq DOMAIN log /\ o \in S /\ Time(o) < t /\ t \in Nat
      /\ \A k \in S : State(k) = "arrival" <=> Kind(k) = "connect"
  BY <1>1, States DEF Lifts, Moment
<1>3. PICK l \in DOMAIN log : LastBefore(d, t, l) /\ o <= l
  BY <1>2, LastExists
<1>4. l \in S /\ Time(l) < t /\ l \in Nat /\ Len(log) \in Nat /\ DOMAIN log = 1..Len(log)
  BY <1>2, <1>3, LogFacts DEF LastBefore
<1>5. n \in Int /\ l < n /\ \A j \in Transitions(S) : j > o => n <= j
  <2>1. CASE n = Len(log) + 1 /\ \A j \in Transitions(S) : ~(j > o)
    BY <1>4, <2>1
  <2>2. CASE n \in Transitions(S) /\ t < Time(n) /\ \A j \in Transitions(S) : j > o => n <= j
    <3>1. n \in DOMAIN log /\ n \in Nat /\ Time(n) \in Nat /\ Time(l) \in Nat
      BY <1>4, <2>2, States, LogFacts
    <3>2. n <= l => Time(n) <= Time(l)
      BY <1>4, <3>1 DEF Ordered
    <3>3. ~(n <= l)
      BY <1>2, <1>4, <2>2, <3>1, <3>2
    <3> QED BY <1>4, <2>2, <3>1, <3>3
  <2> QED BY <1>1, <2>1, <2>2 DEF Lifts
<1>6. o \in Transitions(S) /\ State(o) = "arrival" /\ SessionOf(o) = s
  BY <1>1 DEF Lifts
<1>7. State(l) = "arrival" /\ SessionOf(l) = SessionOf(o)
  BY <1>3, <1>4, <1>5, <1>6, Between
<1> QED BY <1>2, <1>3, <1>4, <1>6, <1>7 DEF Follows

\* No unclean stop cuts a window short of the moment: where a window covers it, the stop that ended
\* its session, if one did, has something later than the moment before it.
LEMMA NotCutShort ==
  ASSUME Typed, Kinds, Ordered, Boots, SessionsEnd, Reports, Settled,
         NEW t, NEW s, Moment(t, s), NEW e \in Device, NEW o, NEW n, NEW until,
         Lifts(e, o, n, t, s, until), Cover(Time(o), until, t),
         NEW r \in UncleanStop, NEW k \in DOMAIN log, SessionOf(k) = s, r.after > Time(k)
  PROVE  r.after >= t
<1> DEFINE S == StateChange(e)
           T == Transitions(S)
<1>1. /\ \A i \in DOMAIN log : i \in Nat /\ Time(i) \in 0..MaxTime /\ Time(i) \in Nat /\ SessionOf(i) \in Nat
      /\ Len(log) \in Nat /\ DOMAIN log = 1..Len(log) /\ MaxTime \in Nat
  BY LogFacts
<1>2. t \in Nat /\ s \in Nat /\ s <= session /\ session \in Nat /\
      \A i \in DOMAIN log : (SessionOf(i) < s => Time(i) < t) /\ (s < SessionOf(i) => t < Time(i))
  BY DEF Moment, Typed, HostTypeOK
<1>3. PICK u \in DOMAIN log : u = r.id /\ Kind(u) = "unexpected"
  BY StopFacts
<1>4. PICK b \in DOMAIN log : AfterStart(b, u)
  BY <1>3 DEF Reports
<1>5. r.after = MaxOf(Earlier(Time(b)))
  BY <1>3, <1>4, BootIsTheStart, StopFields
<1>6. SessionOf(b) = SessionOf(u) /\ \A i \in DOMAIN log : i < b => SessionOf(i) < SessionOf(u)
  BY <1>4 DEF AfterStart
<1>7. Earlier(Time(b)) \in SUBSET Int /\ IsFiniteSet(Earlier(Time(b)))
  <2>1. Earlier(Time(b)) \subseteq 0..MaxTime
    BY <1>1 DEF Earlier
  <2>2. Earlier(Time(b)) \subseteq -1..MaxTime
    BY <1>1, <2>1
  <2> QED BY <2>2, LogFacts
<1>8. Earlier(Time(b)) # {}
  <2>1. Earlier(Time(b)) = {} => r.after = Null
    BY <1>5, <1>7, MaxOfPicks
  <2>2. r.after # Null
    <3>1. Time(k) \in Nat /\ r.after > Time(k)
      BY <1>1
    <3> QED BY <3>1 DEF Null
  <2> QED BY <2>1, <2>2
<1>9. r.after \in Earlier(Time(b)) /\ \A x \in Earlier(Time(b)) : r.after >= x
  BY <1>5, <1>7, <1>8, MaxOfPicks
<1>10. PICK m \in DOMAIN log : r.after = Time(m) /\ Time(m) < Time(b)
  BY <1>9 DEF Earlier
<1> SUFFICES ASSUME Time(m) < t
             PROVE  FALSE
  BY <1>1, <1>2, <1>10
\* The last record before the boot is of the moment's session, and of no later one is any before it.
<1>11. SessionOf(m) = s
  <2>a. Time(m) \in Nat /\ SessionOf(m) \in Nat /\ t \in Nat /\ s \in Nat /\ (s < SessionOf(m) => t < Time(m))
    BY <1>1, <1>2
  <2>1. ~(s < SessionOf(m))
    BY <2>a
  <2>2. k <= m
    <3>1. m <= k => Time(m) <= Time(k)
      BY DEF Ordered
    <3> QED BY <1>1, <1>10, <3>1
  <2>3. SessionOf(k) <= SessionOf(m)
    BY <2>2 DEF Ordered
  <2> QED BY <2>1, <2>3, <2>a
<1>12. s < SessionOf(u)
  <2>1. b <= m => Time(b) <= Time(m)
    BY DEF Ordered
  <2>2. m < b
    BY <1>1, <1>10, <2>1
  <2> QED BY <1>6, <1>11, <2>2
<1>13. ASSUME NEW j \in DOMAIN log, SessionOf(j) <= s
       PROVE  Time(j) <= Time(m)
  <2>a. SessionOf(j) \in Nat /\ SessionOf(u) \in Nat /\ s \in Nat
    BY <1>1, <1>2
  <2>1. SessionOf(j) < SessionOf(b)
    BY <1>6, <1>12, <1>13, <2>a
  <2>2. Time(j) < Time(b)
    BY <2>1, InSessionOrder
  <2>3. Time(j) \in Earlier(Time(b))
    BY <2>2 DEF Earlier
  <2> QED BY <1>1, <1>9, <1>10, <2>3
<1>14. /\ o \in T /\ State(o) = "arrival" /\ Time(o) < t /\ SessionOf(o) = s
       /\ \/ /\ \A j \in T : ~(j > o)
             /\ until = MinOf({MinOf(Offs(Time(o))), MinOf(Afters(Time(o)))} \ {Null})
          \/ n \in T /\ t < Time(n) /\ SessionOf(n) = s
  BY DEF Lifts
<1>15. T \subseteq DOMAIN log /\ T \subseteq S /\ o \in DOMAIN log /\ Kind(o) = "connect" /\ log[o].dev = e
       /\ \A i \in S : State(i) = "departure" <=> Kind(i) = "disconnect"
  BY <1>14, States
<1>a. t \in Int /\ Time(m) \in Int /\ Time(o) \in Int
  BY <1>1, <1>2, <1>15
<1>16. CASE n \in T /\ t < Time(n) /\ SessionOf(n) = s
  <2>1. n \in DOMAIN log /\ SessionOf(n) <= s
    BY <1>2, <1>15, <1>16
  <2>2. Time(n) <= Time(m) /\ Time(n) \in Int
    BY <1>1, <1>13, <2>1
  <2> QED BY <1>16, <1>a, <2>2
<1>17. CASE /\ \A j \in T : ~(j > o)
            /\ until = MinOf({MinOf(Offs(Time(o))), MinOf(Afters(Time(o)))} \ {Null})
  <2>1. Time(m) <= Time(o)
    <3> SUFFICES ASSUME Time(m) > Time(o)
                 PROVE  FALSE
      BY <1>a
    <3>1. PICK off, after : off = MinOf(Offs(Time(o))) /\ after = MinOf(Afters(Time(o)))
      OBVIOUS
    <3>2. until \in Int /\ \A v \in UncleanStop : v.after > Time(o) => until # Null /\ until <= v.after
      BY <1>1, <1>15, <1>17, <3>1, Until
    <3>3. until # Null /\ until <= Time(m)
      BY <1>10, <3>2
    <3>4. t <= until
      BY <3>3 DEF Cover
    <3> QED BY <1>a, <3>2, <3>3, <3>4
  <2>2. s \in 1..session /\ Over(s)
    <3>1. 1 <= SessionOf(o) /\ SessionOf(u) <= session
      BY <1>15 DEF Ordered
    <3>2. s \in Int /\ session \in Int /\ SessionOf(u) \in Int
      BY <1>1, <1>2
    <3>3. 1 <= s /\ s < session
      BY <1>12, <1>14, <3>1, <3>2
    <3> QED BY <3>2, <3>3 DEF Over
  <2>3. CASE ShutDown(s)
    <3>1. PICK j \in DOMAIN log : SessionOf(j) = s /\ Time(o) < Time(j)
      BY <1>14, <1>15, <2>3 DEF ShutDown
    <3>2. Time(j) <= Time(m)
      BY <1>2, <1>13, <3>1
    <3>3. Time(j) \in Int
      BY <1>1
    <3> QED BY <1>a, <2>1, <3>1, <3>2, <3>3
  <2>4. CASE Outlasted(s)
    <3>1. \/ \E i \in DOMAIN log : i > o /\ log[i].dev = log[o].dev /\ Kind(i) = "disconnect"
          \/ \E j \in DOMAIN log : SessionOf(j) <= s /\ Time(j) > Time(o)
      BY <1>14, <1>15, <2>4 DEF Outlasted
    <3>2. ASSUME NEW i \in DOMAIN log, i > o, log[i].dev = log[o].dev, Kind(i) = "disconnect"
          PROVE  FALSE
      <4>1. i \in S
        BY <1>15, <3>2 DEF StateChange, Kind
      <4>a. o \in Nat /\ i \in Nat /\ i \in 1..Len(log) /\ Len(log) \in Nat
        BY <1>1, <1>15
      <4>2. o <= i /\ i < Len(log) + 1 /\ Len(log) + 1 \in Int
        BY <3>2, <4>a
      <4>3. \A j \in T : j > o => Len(log) + 1 <= j
        BY <1>17
      <4>4. State(i) = "arrival"
        BY <1>14, <4>1, <4>2, <4>3, Between
      <4> QED BY <1>15, <3>2, <4>1, <4>4
    <3>3. ASSUME NEW j \in DOMAIN log, SessionOf(j) <= s, Time(j) > Time(o)
          PROVE  FALSE
      <4>1. Time(j) <= Time(m)
        BY <1>13, <3>3
      <4>2. Time(j) \in Int
        BY <1>1
      <4> QED BY <1>a, <2>1, <3>3, <4>1, <4>2
    <3> QED BY <3>1, <3>2, <3>3
  <2> QED BY <2>2, <2>3, <2>4 DEF SessionsEnd
<1> QED BY <1>14, <1>16, <1>17

\* A window that places a device, of one that nothing superseded.
LEMMA PlacingOf ==
  ASSUME NEW d, NEW c \in Connection(d), c.started # Null, c.endedBefore = Null
  PROVE  \E w \in Placing(d) :
           /\ w.dev = d /\ w.started = c.started
           /\ w.until = IF c.ended # Null THEN c.ended ELSE MinOf({c.hostStopped, c.stoppedAfter} \ {Null})
<1> DEFINE w == [dev |-> d, started |-> c.started, openedBy |-> c.openedBy, undated |-> c.undated,
                 until |-> IF c.ended # Null THEN c.ended ELSE MinOf({c.hostStopped, c.stoppedAfter} \ {Null})]
<1>1. w \in Placing(d)
  BY DEF Placing
<1>2. /\ w.dev = d /\ w.started = c.started
      /\ w.until = IF c.ended # Null THEN c.ended ELSE MinOf({c.hostStopped, c.stoppedAfter} \ {Null})
  OBVIOUS
<1> HIDE DEF w
<1> QED BY <1>1, <1>2

\* A device that arrived within the day before a moment and was there, and that went next if
\* anything came of it, has a window that covers the moment.
LEMMA FollowedIsPlaced ==
  ASSUME Typed, Kinds, Ordered, Firsts, NEW t, NEW s, Moment(t, s), Still(t),
         NEW d \in Device, Followed(d, t),
         \A l \in DOMAIN log : LastBefore(d, t, l) => Kind(l) = "connect" /\ SessionOf(l) = s,
         \A r \in UncleanStop, k \in DOMAIN log : SessionOf(k) = s /\ r.after > Time(k) => r.after >= t
  PROVE  \E w \in Placing(d) : w.dev = d /\ Cover(w.started, w.until, t) /\ t <= w.started + Day
<1> DEFINE S == StateChange(d)
           T == Transitions(S)
<1>1. /\ S \subseteq DOMAIN log /\ S = Of(d) /\ T \subseteq S
      /\ \A k \in S : /\ State(k) = "departure" <=> Kind(k) = "disconnect"
                      /\ State(k) = "arrival" <=> Kind(k) = "connect"
                      /\ Kind(k) \in {"connect", "disconnect"} /\ log[k].dev = d
  BY States
<1>2. /\ \A k \in DOMAIN log : k \in Nat /\ k # Null /\ Time(k) \in 0..MaxTime /\ Time(k) \in Nat /\ Time(k) # Null
                               /\ SessionOf(k) \in Nat
      /\ MaxTime \in Nat
  BY LogFacts DEF Null
<1>3. /\ t \in Nat /\ s \in Nat
      /\ \A k \in DOMAIN log : /\ SessionOf(k) < s => Time(k) < t
                               /\ s < SessionOf(k) => t < Time(k)
                               /\ Kind(k) = "stopped" /\ SessionOf(k) = s => t <= Time(k)
  BY DEF Moment
<1>4. \A k \in S : Time(k) # t
  BY <1>1, HostAssumption DEF Still, Time
<1>5. \A k \in S : k \in T <=> FirstOf(k)
  BY FirstIsTransition
<1>6. /\ Before(d, t) = {k \in T : Time(k) < t} /\ After(d, t) = {k \in T : Time(k) > t}
  BY <1>1, <1>5 DEF Before, After, FirstOf, Time
\* The arrival.
<1>7. PICK o \in T : Time(o) < t /\ t <= Time(o) + Day /\ \A j \in T : Time(j) < t => j <= o
  <2>1. Before(d, t) # {} /\ t <= log[Max(Before(d, t))].t + Day
    BY DEF Followed, Arrived
  <2>2. Before(d, t) \in SUBSET Int /\ IsFiniteSet(Before(d, t))
    <3>1. Before(d, t) \subseteq DOMAIN log
      BY <1>1, <1>6
    <3> QED BY <3>1, LogFacts
  <2>3. PICK o : o = Max(Before(d, t))
    OBVIOUS
  <2>4. o \in Before(d, t) /\ \A y \in Before(d, t) : o >= y
    <3>1. o = MaxOf(Before(d, t))
      BY <2>1, <2>3 DEF MaxOf
    <3> QED BY <2>1, <2>2, <3>1, MaxOfPicks
  <2>5. o \in T /\ Time(o) < t /\ t <= Time(o) + Day
    BY <1>6, <2>1, <2>3, <2>4 DEF Time
  <2>6. \A j \in T : Time(j) < t => j <= o
    BY <1>1, <1>2, <1>6, <2>4, <2>5
  <2> QED BY <2>5, <2>6
<1>8. o \in S /\ o \in DOMAIN log /\ o \in Nat
  BY <1>1, <1>2
<1>9. PICK l \in DOMAIN log : LastBefore(d, t, l) /\ o <= l
  BY <1>1, <1>3, <1>7, <1>8, LastExists
<1>10. l \in S /\ Time(l) < t /\ Kind(l) = "connect" /\ SessionOf(l) = s /\ State(l) = "arrival" /\ l \in Nat
  BY <1>1, <1>2, <1>9 DEF LastBefore
\* Nothing that opens a cluster lies between it and the latest thing before the moment.
<1>11. \A j \in T : j > o => l + 1 <= j
  <2> SUFFICES ASSUME NEW j \in T, j > o, j <= l
               PROVE  FALSE
    BY <1>1, <1>2, <1>10
  <2>1. Time(j) <= Time(l)
    BY <1>1, <1>9 DEF Ordered
  <2>2. Time(j) < t /\ j \in Nat
    BY <1>1, <1>2, <1>3, <1>9, <1>10, <2>1
  <2> QED BY <1>7, <1>8, <2>2
<1>12. State(o) = "arrival"
  <2> DEFINE came == {k \in S : o <= k /\ k <= l /\ State(k) = "arrival"}
  <2>1. came \in SUBSET Int /\ IsFiniteSet(came) /\ l \in came
    <3>1. came \subseteq DOMAIN log
      BY <1>1
    <3> QED BY <1>9, <1>10, <3>1, LogFacts
  <2>2. PICK k \in came : \A j \in came : k <= j
    <3> HIDE DEF came
    <3> QED BY <2>1, LeastExists
  <2>3. k \in S /\ o <= k /\ k <= l /\ State(k) = "arrival" /\ k \in DOMAIN log /\ k \in Nat
    BY <1>1, <1>2, <2>2
  <2>4. CASE k = o
    BY <2>3, <2>4
  <2>5. CASE o < k
    <3>1. PICK p : p = Lag(S, k)
      OBVIOUS
    <3>2. p # Null /\ p \in S /\ p < k /\ o <= p
      BY <1>1, <1>8, <2>3, <2>5, <3>1, Neighbours
    <3>3. State(p) # "arrival"
      <4>1. p \in DOMAIN log /\ p \in Nat
        BY <1>1, <1>2, <3>2
      <4>2. p <= l /\ ~(k <= p)
        BY <1>10, <2>3, <3>2, <4>1
      <4> QED BY <2>2, <3>2, <4>2
    <3>4. k \in T
      BY <2>3, <3>1, <3>3 DEF Transitions
    <3>5. l + 1 <= k
      BY <1>11, <2>5, <3>4
    <3> QED BY <1>10, <2>3, <3>5
  <2> QED BY <1>8, <2>3, <2>4, <2>5
<1>13. SessionOf(o) = s
  <2>1. l + 1 \in Int /\ l < l + 1
    BY <1>10
  <2>2. SessionOf(l) = SessionOf(o)
    BY <1>9, <1>10, <1>11, <1>12, <2>1, Between
  <2> QED BY <1>10, <2>2
\* Its window.
<1>14. PICK c : c = Opened(d, o)
  OBVIOUS
<1>15. c \in Connection(d)
  BY <1>12, <1>14 DEF Connection
<1>16. /\ c.started = Time(o)
       /\ \/ /\ \A j \in T : ~(j > o)
             /\ c.ended = Null /\ c.endedBefore = Null
             /\ c.hostStopped = MinOf(Offs(Time(o))) /\ c.stoppedAfter = MinOf(Afters(Time(o)))
          \/ \E n \in T : /\ n \in DOMAIN log /\ n > o /\ \A j \in T : j > o => n <= j
                          /\ \/ State(n) = "departure" /\ c.ended = Time(n) /\ c.endedBefore = Null
                             \/ State(n) = "arrival"
  BY <1>14, OpenedWindow
<1>17. ASSUME c.endedBefore = Null,
              NEW until, until = IF c.ended # Null THEN c.ended ELSE MinOf({c.hostStopped, c.stoppedAfter} \ {Null}),
              until = Null \/ t <= until
       PROVE  \E w \in Placing(d) : w.dev = d /\ Cover(w.started, w.until, t) /\ t <= w.started + Day
  <2>1. c.started # Null
    BY <1>2, <1>8, <1>16
  <2>2. PICK w \in Placing(d) : w.dev = d /\ w.started = c.started /\ w.until = until
    BY <1>15, <1>17, <2>1, PlacingOf
  <2>3. Time(o) <= t
    BY <1>2, <1>3, <1>7, <1>8
  <2>4. Cover(w.started, w.until, t)
    BY <1>16, <1>17, <2>2, <2>3 DEF Cover
  <2> QED BY <1>7, <1>16, <2>2, <2>4
<1>18. CASE /\ \A j \in T : ~(j > o)
            /\ c.ended = Null /\ c.endedBefore = Null
            /\ c.hostStopped = MinOf(Offs(Time(o))) /\ c.stoppedAfter = MinOf(Afters(Time(o)))
  <2>1. PICK off, after, before : /\ off = MinOf(Offs(Time(o))) /\ after = MinOf(Afters(Time(o)))
                                  /\ before = MinOf(Befores(Time(o)))
    OBVIOUS
  <2>2. /\ {off, after} \subseteq {Null} \cup 0..MaxTime
        /\ off # Null => off \in HostStopped /\ off > Time(o)
        /\ after # Null => after > Time(o) /\ \E u \in BoundingStop(Time(o)) : u.after = after
    BY <1>2, <1>8, <2>1, OpenBounds
  <2>3. off # Null => t <= off
    <3> SUFFICES ASSUME off # Null
                 PROVE  t <= off
      OBVIOUS
    <3>1. PICK j \in DOMAIN log : Kind(j) = "stopped" /\ off = Time(j) /\ Time(j) > Time(o)
      BY <2>2 DEF HostStopped, Kind
    <3>2. ~(SessionOf(j) < s)
      <4>1. SessionOf(j) < SessionOf(o) => Time(j) < Time(o)
        BY <1>8, InSessionOrder
      <4> QED BY <1>2, <1>8, <1>13, <3>1, <4>1
    <3> QED BY <1>2, <1>3, <3>1, <3>2
  <2>4. after # Null => t <= after
    <3> SUFFICES ASSUME after # Null
                 PROVE  t <= after
      OBVIOUS
    <3>1. PICK u \in BoundingStop(Time(o)) : u.after = after /\ after > Time(o)
      BY <2>2
    <3>2. u \in UncleanStop
      BY <1>2, <1>8, <3>1, BoundingStops
    <3>3. u.after >= t
      BY <1>8, <1>13, <3>1, <3>2
    <3>4. after \in Int
      BY <1>2, <2>2
    <3> QED BY <1>3, <3>1, <3>3, <3>4
  <2>5. PICK until : until = MinOf({c.hostStopped, c.stoppedAfter} \ {Null})
    OBVIOUS
  <2>6. until = Null \/ until \in {off, after} \ {Null}
    <3>1. {off, after} \ {Null} \subseteq -1..MaxTime
      BY <1>2, <2>2
    <3>2. {off, after} \ {Null} \in SUBSET Int /\ IsFiniteSet({off, after} \ {Null})
      BY <3>1, LogFacts
    <3>3. until = MinOf({off, after} \ {Null})
      BY <1>18, <2>1, <2>5
    <3> QED BY <3>2, <3>3, MinOfPicks
  <2>7. until = Null \/ t <= until
    BY <2>3, <2>4, <2>6
  <2> QED BY <1>17, <1>18, <2>5, <2>7
<1>19. ASSUME NEW n \in T, n \in DOMAIN log, n > o, \A j \in T : j > o => n <= j,
              (State(n) = "departure" /\ c.ended = Time(n) /\ c.endedBefore = Null) \/ State(n) = "arrival"
       PROVE  \E w \in Placing(d) : w.dev = d /\ Cover(w.started, w.until, t) /\ t <= w.started + Day
  <2>1. Time(n) > t /\ n \in Nat
    <3>1. ~(Time(n) < t)
      BY <1>2, <1>7, <1>8, <1>19
    <3> QED BY <1>1, <1>2, <1>3, <1>4, <1>19, <3>1
  <2>2. n \in After(d, t) /\ \A j \in After(d, t) : n <= j
    <3>1. n \in After(d, t)
      BY <1>6, <2>1
    <3>2. ASSUME NEW j \in After(d, t)
          PROVE  n <= j
      <4>1. j \in T /\ Time(j) > t /\ j \in DOMAIN log /\ j \in Nat
        BY <1>1, <1>2, <1>6
      <4>2. j <= o => Time(j) <= Time(o)
        BY <1>8, <4>1 DEF Ordered
      <4>3. j > o
        BY <1>2, <1>3, <1>7, <1>8, <4>1, <4>2
      <4> QED BY <1>19, <4>1, <4>3
    <3> QED BY <3>1, <3>2
  <2>3. Min(After(d, t)) = n
    <3>1. After(d, t) \in SUBSET Int /\ IsFiniteSet(After(d, t)) /\ After(d, t) # {}
      <4>1. After(d, t) \subseteq DOMAIN log
        BY <1>1, <1>6
      <4> QED BY <2>2, <4>1, LogFacts
    <3>2. PICK m : m = MinOf(After(d, t))
      OBVIOUS
    <3>3. m \in After(d, t) /\ \A y \in After(d, t) : m <= y
      BY <3>1, <3>2, MinOfPicks
    <3>4. m = n
      <4>1. m \in Int /\ n <= m /\ m <= n
        BY <2>2, <3>1, <3>3
      <4> QED BY <2>1, <4>1
    <3> QED BY <3>1, <3>2, <3>4 DEF MinOf
  <2>4. Kind(n) = "disconnect"
    BY <2>2, <2>3 DEF Followed, Kind
  <2>5. State(n) = "departure" /\ c.ended = Time(n) /\ c.endedBefore = Null
    BY <1>1, <1>19, <2>4
  <2>6. t <= Time(n) /\ Time(n) # Null
    BY <1>2, <1>3, <1>19, <2>1
  <2> QED BY <1>17, <2>5, <2>6
<1> QED BY <1>16, <1>18, <1>19

-----------------------------------------------------------------------------
(* The attributions.                                                        *)

\* A row of the file activity is of one of the files; where it says when, it says that file's
\* moment.
LEMMA RowIsOfAFile ==
  ASSUME TypeOK, NEW r \in v_file_activity
  PROVE  /\ r.id \in DOMAIN opened
         /\ r.covering = {w \in v_connection_placing : Cover(w.started, w.until, r.t)}
         /\ r.places => r.t = opened[r.id].at
<1>0. PICK artefact \in Artefact, i \in DOMAIN opened :
        r \in {Row(artefact, i, t, v_connection_placing) : t \in RecordedAt(artefact, i)}
  BY DEF v_file_activity
<1>1. PICK t \in RecordedAt(artefact, i) : r = Row(artefact, i, t, v_connection_placing)
  BY <1>0
<1>2. /\ r.id = i /\ r.t = t /\ r.places = (Basis(artefact, i) = "instant")
      /\ r.covering = {w \in v_connection_placing : Cover(w.started, w.until, t)}
  BY <1>1 DEF Row
<1>3. r.places => t = opened[i].at
  <2> SUFFICES ASSUME Basis(artefact, i) = "instant"
               PROVE  t = opened[i].at
    BY <1>2
  <2>1. artefact # "copied_link" /\ ~(artefact = "mru" /\ i < Len(opened))
    BY DEF Basis
  <2>2. CASE artefact = "mru"
    <3>1. i \in 1..Len(opened) /\ Len(opened) \in Nat
      BY DEF TypeOK
    <3>2. i = Len(opened)
      BY <2>1, <2>2, <3>1
    <3> QED BY <2>2, <3>2 DEF RecordedAt
  <2>3. CASE artefact # "mru"
    BY <2>1, <2>3 DEF RecordedAt
  <2> QED BY <2>2, <2>3
<1> QED BY <1>1, <1>2, <1>3

\* What lifts an attribution is a window of its device over the moment; what the windows alone
\* name is the one device they place.
LEMMA HowItIsAttributed ==
  ASSUME NEW a \in v_file_attribution
  PROVE  \E r \in v_file_activity :
           /\ a.id = r.id
           /\ Windowed(a) => r.places /\ \E w \in r.covering : w.dev = a.dev
           /\ a.route = "sole_connected_device" =>
                r.places /\ a.dev \in Attached(r) /\ Cardinality(Attached(r)) = 1
<1>1. PICK r \in v_file_activity : a \in BySerial(r) \cup ByLabel(r) \cup ByLetter(r) \cup ByPrefetch(r) \cup BySole(r)
  BY DEF v_file_attribution
<1>2. CASE a \in BySerial(r)
  <2>1. PICK d : a = Attributed(r, d, "volume_serial_emdmgmt", "confirmed")
    BY <1>2 DEF BySerial
  <2>2. a.id = r.id /\ a.route = "volume_serial_emdmgmt" /\ a.confidence = "confirmed"
    BY <2>1 DEF Attributed
  <2> QED BY <2>2 DEF Windowed
<1>3. CASE a \in ByLabel(r)
  <2>1. PICK d : a = Attributed(r, d, "volume_label_unique", IF Covered(r, d) THEN "probable" ELSE "possible")
    BY <1>3 DEF ByLabel
  <2>2. /\ a.id = r.id /\ a.dev = d /\ a.route = "volume_label_unique"
        /\ a.confidence = IF Covered(r, d) THEN "probable" ELSE "possible"
    BY <2>1 DEF Attributed
  <2> QED BY <2>2 DEF Windowed, Covered
<1>4. CASE a \in ByLetter(r)
  <2>1. PICK d : a = Attributed(r, d, "drive_letter",
                                IF ~Contradicted(r) /\ Covered(r, d) THEN "probable" ELSE "possible")
    BY <1>4 DEF ByLetter
  <2>2. /\ a.id = r.id /\ a.dev = d /\ a.route = "drive_letter"
        /\ a.confidence = IF ~Contradicted(r) /\ Covered(r, d) THEN "probable" ELSE "possible"
    BY <2>1 DEF Attributed
  <2> QED BY <2>2 DEF Windowed, Covered
<1>5. CASE a \in ByPrefetch(r)
  <2>1. PICK p : a = Attributed(r, p.dev, "volume_serial_prefetch",
                       IF p.contradicted THEN "possible" ELSE IF Covered(r, p.dev) THEN "strong" ELSE "probable")
    BY <1>5 DEF ByPrefetch
  <2>2. /\ a.id = r.id /\ a.dev = p.dev /\ a.route = "volume_serial_prefetch"
        /\ a.confidence = IF p.contradicted THEN "possible"
                          ELSE IF Covered(r, p.dev) THEN "strong" ELSE "probable"
    BY <2>1 DEF Attributed
  <2> QED BY <2>2 DEF Windowed, Covered
<1>6. CASE a \in BySole(r)
  <2>1. PICK d \in v_sole_connected_device(r) : a = Attributed(r, d, "sole_connected_device", "probable")
    BY <1>6 DEF BySole
  <2>2. a.id = r.id /\ a.dev = d
    BY <2>1 DEF Attributed
  <2>3. r.places /\ d \in Attached(r) /\ Cardinality(Attached(r)) = 1
    BY <2>1 DEF v_sole_connected_device
  <2>4. \E w \in r.covering : w.dev = d
    BY <2>3 DEF Attached
  <2> QED BY <2>2, <2>3, <2>4
<1> QED BY <1>1, <1>2, <1>3, <1>4, <1>5, <1>6

\* The devices that windows place are devices of the log, and so finite in number.
LEMMA AttachedIsFinite ==
  ASSUME Typed, Kinds, Ordered, NEW r, r.covering \subseteq v_connection_placing
  PROVE  IsFiniteSet(Attached(r))
<1> DEFINE named == {log[i].dev : i \in DOMAIN log}
<1>1. IsFiniteSet(named)
  <2>1. IsFiniteSet(DOMAIN log)
    BY LogFacts
  <2> DEFINE name == [i \in DOMAIN log |-> log[i].dev]
  <2>2. name \in Surjection(DOMAIN log, named)
    BY DEF Surjection
  <2> QED BY <2>1, <2>2, FS_Surjection
<1>2. ASSUME NEW w \in r.covering
      PROVE  w.dev \in named
  <2>1. PICK d \in Device : w \in Placing(d)
    BY <1>2 DEF v_connection_placing
  <2>2. w.dev = d
    BY <2>1, PlacingDevice
  <2>3. PICK o : o \in Transitions(StateChange(d))
    BY <2>1, PlacingCases
  <2>4. o \in DOMAIN log /\ log[o].dev = d
    BY <2>3, States
  <2> QED BY <2>2, <2>4
<1>3. Attached(r) \subseteq named
  BY <1>2 DEF Attached
<1> QED BY <1>1, <1>3, FS_Subset

\* A set of one element has no other.
LEMMA OnlyOne ==
  ASSUME NEW S, IsFiniteSet(S), Cardinality(S) = 1, NEW x \in S
  PROVE  S = {x}
<1>1. \E y : S = {y}
  BY FS_Singleton
<1> QED BY <1>1

\* Of a record that says when, a file's moment: what a window placed was there, and what the
\* windows alone name was alone.
LEMMA AttributedRightly ==
  ASSUME IInv, SessionsEnd, FilesInv, SticksKnown, Settled, AllRecorded, NEW a \in v_file_attribution
  PROVE  PlacedWasThere(a) /\ SoleIsRight(a)
<1>1. /\ Typed /\ Kinds /\ Ordered /\ Boots /\ Firsts /\ Reports
      /\ TypeOK /\ Seated /\ Files
  BY DEF IInv, Host, Recorded, FilesInv
<1>2. PICK r \in v_file_activity :
        /\ a.id = r.id
        /\ Windowed(a) => r.places /\ \E w \in r.covering : w.dev = a.dev
        /\ a.route = "sole_connected_device" =>
             r.places /\ a.dev \in Attached(r) /\ Cardinality(Attached(r)) = 1
  BY HowItIsAttributed
<1>3. /\ r.id \in DOMAIN opened
      /\ r.covering = {w \in v_connection_placing : Cover(w.started, w.until, r.t)}
      /\ r.places => r.t = opened[r.id].at
  BY <1>1, RowIsOfAFile
<1>4. PICK f : f = opened[a.id]
  OBVIOUS
<1>5. f.here \subseteq Device /\ f.here \subseteq habit.sticks /\ (r.places => r.t = f.at)
  <2>1. f = opened[r.id] /\ r.id \in DOMAIN opened
    BY <1>2, <1>3, <1>4
  <2>2. f.here \subseteq Device
    <3>1. opened \in Seq(OpenedFile)
      BY <1>1 DEF TypeOK, OpenedFile
    <3>2. f \in OpenedFile
      BY <2>1, <3>1
    <3> QED BY <3>2 DEF OpenedFile
  <2> QED BY <1>1, <1>3, <2>1, <2>2 DEF Seated
<1>6. PICK s \in Nat : Moment(f.at, s) /\ Follows(f, s)
  BY <1>1, <1>2, <1>3, <1>4 DEF Files, Seen
<1>7. PICK t : t = f.at
  OBVIOUS
<1>8. ASSUME r.places, NEW w \in r.covering, Still(t)
      PROVE  w.dev \in f.here /\ \E d \in Device : w.dev = d /\ w \in Placing(d) /\ Cover(w.started, w.until, t)
  <2>1. Cover(w.started, w.until, t) /\ w \in v_connection_placing
    BY <1>3, <1>5, <1>7, <1>8
  <2>2. PICK d \in Device : w \in Placing(d)
    BY <2>1 DEF v_connection_placing
  <2>3. w.dev = d
    BY <1>1, <1>6, <1>7, <1>8, <2>1, <2>2, WindowThen
  <2>4. d \in f.here
    BY <1>1, <1>6, <1>7, <1>8, <2>1, <2>2, ThereThen
  <2> QED BY <2>1, <2>2, <2>3, <2>4
<1>9. PlacedWasThere(a)
  <2> SUFFICES ASSUME Windowed(a), Still(f.at)
               PROVE  a.dev \in f.here
    BY <1>4 DEF PlacedWasThere
  <2> QED BY <1>2, <1>7, <1>8
<1>10. SoleIsRight(a)
  <2> SUFFICES ASSUME a.route = "sole_connected_device", Still(f.at), \A d \in f.here : Followed(d, f.at)
               PROVE  f.here = {a.dev}
    BY <1>4 DEF SoleIsRight
  <2>1. r.places /\ a.dev \in Attached(r) /\ Cardinality(Attached(r)) = 1
    BY <1>2
  <2>2. Attached(r) = {a.dev}
    <3>1. r.covering \subseteq v_connection_placing
      BY <1>3
    <3>2. IsFiniteSet(Attached(r))
      BY <1>1, <3>1, AttachedIsFinite
    <3> QED BY <2>1, <3>2, OnlyOne
  <2>3. PICK w \in r.covering : w.dev = a.dev
    BY <2>1 DEF Attached
  <2>4. a.dev \in f.here
    BY <1>7, <1>8, <2>1, <2>3
  <2>5. PICK e \in Device : w.dev = e /\ w \in Placing(e) /\ Cover(w.started, w.until, t)
    BY <1>7, <1>8, <2>1
  <2>6. PICK o, n : w.started = Time(o) /\ Lifts(e, o, n, t, s, w.until)
    BY <1>1, <1>6, <1>7, <2>5, WindowThen
  <2>7. ASSUME NEW u \in UncleanStop, NEW k \in DOMAIN log, SessionOf(k) = s, u.after > Time(k)
        PROVE  u.after >= t
    <3>1. Cover(Time(o), w.until, t)
      BY <2>5, <2>6
    <3> QED BY <1>1, <1>6, <1>7, <2>6, <2>7, <3>1, NotCutShort
  <2>8. ASSUME NEW d \in f.here
        PROVE  d \in Attached(r)
    <3>1. d \in Device /\ d \in Usb
      BY <1>1, <1>5 DEF SticksKnown, Typed, HostTypeOK
    <3>2. \A l \in DOMAIN log : LastBefore(d, t, l) => Kind(l) = "connect" /\ SessionOf(l) = s
      BY <1>6, <1>7, <3>1 DEF Follows
    <3>3. PICK v \in Placing(d) : v.dev = d /\ Cover(v.started, v.until, t) /\ t <= v.started + Day
      <4>1. Followed(d, t) /\ Still(t) /\ Moment(t, s)
        BY <1>6, <1>7
      <4> QED BY <1>1, <2>7, <3>1, <3>2, <4>1, FollowedIsPlaced
    <3>4. v \in r.covering /\ r.t = t
      BY <1>3, <1>5, <1>7, <2>1, <3>1, <3>3 DEF v_connection_placing
    <3> QED BY <3>1, <3>3, <3>4 DEF Attached
  <2> QED BY <2>2, <2>4, <2>8
<1> QED BY <1>9, <1>10

\* On hosts that record every change, and something after what arrived, whose sticks are all known
\* to be storage: what a window lifted was on the host when the file was opened, whatever letters,
\* labels and lists say by then, and what the windows alone name was there alone.
THEOREM AttributionsAreRight == NoQuietCrash /\ SticksKnown => (Spec => []AttributionsHold)
<1> SUFFICES ASSUME NoQuietCrash, SticksKnown
             PROVE  Spec => []AttributionsHold
  OBVIOUS
<1>1. IInv /\ SessionsEnd /\ FilesInv => AttributionsHold
  <2> SUFFICES ASSUME IInv, SessionsEnd, FilesInv
               PROVE  AttributionsHold
    OBVIOUS
  <2>1. TypeOK
    BY DEF FilesInv
  <2>2. ASSUME Settled, AllRecorded, NEW a \in v_file_attribution
        PROVE  PlacedWasThere(a) /\ SoleIsRight(a)
    BY <2>2, AttributedRightly
  <2> QED BY <2>1, <2>2 DEF AttributionsHold
<1> QED BY <1>1, Inductive, SessionsDoEnd, FilesInductive, PTL
=============================================================================
