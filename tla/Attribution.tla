----------------------------- MODULE Attribution -----------------------------
(***************************************************************************)
(* internal/store/views.sql: on which device the file lay that a record    *)
(* names.  The records are left by files opened on the sticks of HostLog's *)
(* host, under the letters it gave them: a shortcut, a folder's bag, a     *)
(* drive root in a list of recent places, a programme's prefetch file.     *)
(* The routes lead from what such a record carries, a serial, a label or a *)
(* letter, to a device, and ask the windows of ConnectionWindows whether   *)
(* it was there; the last asks the windows alone.                          *)
(*                                                                         *)
(* The host's files and letters are not part of boobook: they are modelled *)
(* from what the views say of them.                                        *)
(***************************************************************************)
EXTENDS ConnectionWindows, Functions

CONSTANTS
    Letter,      \* the letters there are for sticks, as numbers
    None,        \* no letter, serial or label
    Serial,      \* each stick's volume serial
    Label,       \* and its label
    Portable,    \* the portable devices the SOFTWARE hive lists: a device, its name, whether it is storage
    EMDMgmt,     \* the devices whose serials ReadyBoost kept: <<device, serial>>
    Usb,         \* the devices known to be storage that is attached over USB
    Resolved,    \* the devices a mount point's target leads to
    Day          \* how long after an arrival a window answers alone

ASSUME AttributionAssumption ==
    /\ Letter \subseteq Nat /\ Day \in Nat
    /\ Serial \in [Device -> STRING] /\ Label \in [Device -> STRING]
    /\ Usb \subseteq Device /\ Resolved \subseteq Device

VARIABLES
    mount,       \* the device each letter was last given to
    hive,        \* the same as the SYSTEM hive on the disk has it
    opened       \* the files opened, in their order

filesVars == <<mount, hive, opened>>
vars == <<hostVars, filesVars>>

TypeOK ==
    /\ mount \in [Letter -> Device \cup {NoDevice}] /\ hive \in [Letter -> Device \cup {NoDevice}]
    /\ opened \in Seq([on : Device, letter : Letter, at : 0..MaxTime, here : SUBSET Device])

LetterOf(d) == {l \in Letter : mount[l] = d /\ d \in noticed}
FreeLetters == {l \in Letter : mount[l] \notin noticed}

\* A volume keeps the letter it had where that is free, and takes the first free one
\* where it had none or that was handed on.
Assign(d) ==
    \/ \E l \in FreeLetters : mount[l] = d /\ UNCHANGED mount
    \/ /\ \A l \in FreeLetters : mount[l] # d
       /\ FreeLetters # {}
       /\ mount' = [mount EXCEPT ![Min(FreeLetters)] = d]

\* The registry is written out then, or not before the next arrival or a shutdown, and
\* not by a crash.  The letters of a host on which no file is opened are not followed.
Mounted(d) ==
    \/ habit.files = 0 /\ UNCHANGED filesVars
    \/ habit.files > 0 /\ Assign(d) /\ hive' \in {hive, mount'} /\ UNCHANGED opened
Arrive(d) == Plug(d) /\ Mounted(d)
Notice(d) == BootNotices(d) /\ IF d \in attached THEN Mounted(d) ELSE UNCHANGED filesVars
ShutdownFlushes == Shutdown /\ hive' = mount /\ UNCHANGED <<mount, opened>>
CrashLoses == Crash /\ mount' = hive /\ UNCHANGED <<hive, opened>>

\* A file is opened on a stick.
Open(d) ==
    /\ Len(opened) < habit.files /\ host = "on" /\ d \in attached
    /\ opened # <<>> => now > opened[Len(opened)].at
    /\ \E l \in LetterOf(d) :
          opened' = Append(opened, [on |-> d, letter |-> l, at |-> now, here |-> attached])
    /\ UNCHANGED <<hostVars, mount, hive>>

Elsewhere ==
    \/ Tick \/ Activity \/ Sleep \/ Wake \/ Boot \/ BootWrites \/ BootEnds
    \/ \E d \in habit.sticks : Echo(d) \/ Unplug(d) \/ MoveUnseen(d) \/ Fault(d)

Init == HostInit /\ opened = <<>> /\ mount = [l \in Letter |-> NoDevice] /\ hive = mount

Next ==
    \/ Elsewhere /\ UNCHANGED filesVars
    \/ ShutdownFlushes \/ CrashLoses
    \/ \E d \in habit.sticks : Arrive(d) \/ Notice(d) \/ Open(d)

Spec == Init /\ [][Next]_vars

-----------------------------------------------------------------------------
\* Every file that was opened left one of each.  A bag has a letter alone, a drive root
\* in a list its caption too, a prefetch file the serial alone; a link that was copied
\* has no time but its target's, which may be any and of another computer.
Artefact == {"shell_link", "copied_link", "shell_bag", "mru", "prefetch"}

\* Mutant: the key's write time read as the time of every entry of its list.
BasisOfTheKey(artefact, i) == IF artefact = "copied_link" THEN "target_metadata" ELSE "instant"

\* What the recorded time dates: one key holds a list, and its time is its latest
\* entry's.
Basis(artefact, i) ==
    CASE artefact = "copied_link" -> "target_metadata"
      [] artefact = "mru" /\ i < Len(opened) -> "not_after_bound"
      [] OTHER -> "instant"

RecordedAt(artefact, i) ==
    CASE artefact = "copied_link" -> {0, now}
      [] artefact = "mru" -> {opened[Len(opened)].at}
      [] OTHER -> {opened[i].at}

\* Each row with the windows that place some device at its time.
v_connection_placing == UNION {Placing(d) : d \in Device}

Row(artefact, i, t, placing) ==
    LET link == artefact \in {"shell_link", "copied_link"}
        mine == opened[i]
    IN  [id |-> i, artefact |-> artefact, t |-> t, places |-> Basis(artefact, i) = "instant", removable |-> link,
         letter |-> IF artefact = "prefetch" THEN None ELSE mine.letter,
         serial |-> IF link \/ artefact = "prefetch" THEN Serial[mine.on] ELSE None,
         label |-> IF link \/ artefact = "mru" THEN Label[mine.on] ELSE None,
         covering |-> {w \in placing : Cover(w.started, w.until, t)}]

v_file_activity ==
    LET placing == v_connection_placing
    IN  UNION {{Row(artefact, i, t, placing) : t \in RecordedAt(artefact, i)} : artefact \in Artefact, i \in DOMAIN opened}

\* From a letter to a device, as the hive has it, and from a label, where one portable
\* device alone has the name and it is storage.
LetterLinks == {[letter |-> l, dev |-> hive[l]] : l \in {k \in Letter : hive[k] \in Resolved}}
LabelLinks ==
    {[label |-> p.name, dev |-> p.dev] :
        p \in {q \in Portable : q.storage /\ \A other \in Portable : other.name = q.name => other.dev = q.dev}}

\* The shortcuts say which letters and serials were removable; so does the hive, of its
\* letters.
v_serial_letter ==
    {[serial |-> Serial[f.on], letter |-> f.letter, label |-> Label[f.on]] : f \in Range(opened)}
v_removable_letter ==
    {s.letter : s \in v_serial_letter} \cup {l.letter : l \in {k \in LetterLinks : k.dev \in Usb}}

OnRemovable(r) ==
    \/ r.removable
    \/ r.letter \in v_removable_letter
    \/ r.serial # None /\ \E s \in v_serial_letter : s.serial = r.serial

\* The devices that arrived within a day before and are placed at the time; alone, one
\* of them answers.
Attached(r) == {w.dev : w \in {c \in r.covering : r.t <= c.started + Day}} \cap Usb
v_sole_connected_device(r) ==
    IF r.places /\ OnRemovable(r) /\ Cardinality(Attached(r)) = 1 THEN Attached(r) ELSE {}

\* A window that places the device has the time of the record.
Covered(r, d) == r.places /\ \E w \in r.covering : w.dev = d

\* The record's own label names one device, and its letter leads to others.
LabelDevices(r) == {l.dev : l \in {k \in LabelLinks : k.label = r.label}}
LetterDevices(letter) == {l.dev : l \in {k \in LetterLinks : k.letter = letter}}
Contradicted(r) ==
    /\ Cardinality(LabelDevices(r)) = 1 /\ LetterDevices(r.letter) # {}
    /\ LabelDevices(r) \cap LetterDevices(r.letter) = {}

Attributed(r, d, route, confidence) == [id |-> r.id, dev |-> d, route |-> route, confidence |-> confidence]

BySerial(r) == {Attributed(r, e[1], "volume_serial_emdmgmt", "confirmed") : e \in {x \in EMDMgmt : x[2] = r.serial}}
ByLabel(r) ==
    {Attributed(r, d, "volume_label_unique", IF Covered(r, d) THEN "probable" ELSE "possible") : d \in LabelDevices(r)}
ByLetter(r) ==
    {Attributed(r, d, "drive_letter", IF ~Contradicted(r) /\ Covered(r, d) THEN "probable" ELSE "possible") :
       d \in LetterDevices(r.letter)}

\* A prefetch file's serial is a shortcut's, whose letter leads to a device.
v_prefetch_device_link(r) ==
    UNION {{[dev |-> d, contradicted |-> \E n \in LabelLinks : n.label = s.label /\ n.dev # d] :
              d \in LetterDevices(s.letter)} : s \in {x \in v_serial_letter : x.serial = r.serial}}
ByPrefetch(r) ==
    {Attributed(r, p.dev, "volume_serial_prefetch",
                IF p.contradicted THEN "possible" ELSE IF Covered(r, p.dev) THEN "strong" ELSE "probable") :
       p \in IF r.artefact = "prefetch" THEN v_prefetch_device_link(r) ELSE {}}

BySole(r) == {Attributed(r, d, "sole_connected_device", "probable") : d \in v_sole_connected_device(r)}

v_file_attribution ==
    UNION {BySerial(r) \cup ByLabel(r) \cup ByLetter(r) \cup ByPrefetch(r) \cup BySole(r) : r \in v_file_activity}

-----------------------------------------------------------------------------
\* No device came or went in the moment a file was opened.
Still(t) == \A i \in DOMAIN log : log[i].dev # NoDevice => log[i].t # t

\* What a window lifted: without one a label and a letter are possible, a serial probable.
Windowed(a) == a.confidence = IF a.route = "volume_serial_prefetch" THEN "strong" ELSE "probable"

\* Wherever a window lifts an attribution, by whatever route, and whatever letters,
\* labels and lists say by then, the device was on the host when the file was opened
\* (views.sql:2711-2943).
PlacedWasThere(a) == Windowed(a) /\ Still(opened[a.id].at) => a.dev \in opened[a.id].here

\* A device's arrival, on record and not a day before, however many channels echoed it; and
\* that what came of it next, if anything, was its removal.
Before(d, t) == {i \in Of(d) : log[i].first /\ log[i].t < t}
After(d, t) == {i \in Of(d) : log[i].first /\ log[i].t > t}
Arrived(d, t) == Before(d, t) # {} /\ t <= log[Max(Before(d, t))].t + Day
Followed(d, t) == Arrived(d, t) /\ (After(d, t) # {} => log[Min(After(d, t))].kind = "disconnect")

\* The windows alone name the device a file was on, letters reused or not, where every
\* device then attached was followed from its arrival to its removal (views.sql:2615-2651).
SoleIsRight(a) ==
    LET f == opened[a.id] IN
    a.route = "sole_connected_device" /\ Still(f.at) /\ (\A d \in f.here : Followed(d, f.at)) => f.here = {a.dev}

\* "It abstains where two devices were connected at once, which is the case the letter is
\* actually needed for" (views.sql:2591): of the devices there, each arrived on record and
\* within the day, the answer is the only one.
SoleAbstains ==
    Settled /\ AllRecorded =>
        \A a \in v_file_attribution :
            LET f == opened[a.id] IN
            a.route = "sole_connected_device" /\ Still(f.at) /\ (\A d \in f.here : Arrived(d, f.at))
                => f.here = {a.dev}

\* The attributions claim no more than the windows support: what they place was there, and
\* what they name alone was alone.
AttributionsHold ==
    /\ TypeOK
    /\ Settled /\ AllRecorded => \A a \in v_file_attribution : PlacedWasThere(a) /\ SoleIsRight(a)
=============================================================================
