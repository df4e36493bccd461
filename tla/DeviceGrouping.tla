--------------------------- MODULE DeviceGrouping ---------------------------
(***************************************************************************)
(* Which identities are one physical device.  A stick is named by a USB    *)
(* node, a USBSTOR node and an installation section; the views of the case *)
(* link identities (v_device_link), keep the links that assert something   *)
(* apart from the candidates, and take the closure of the former           *)
(* (v_device_grouping).  What the views can say depends on what of each    *)
(* identity was in the collection, and that is the state here: a run reads *)
(* the keys and records of a host in whatever order its artefacts come,    *)
(* lacking any part of them, and then fills device_group, once.            *)
(***************************************************************************)
EXTENDS Naturals, FiniteSets

CONSTANTS
  Identity,   \* the keys devices are known by
  Hosts,      \* the sets of identities one host's artefacts may hold
  DeviceOf,   \* the physical device an identity is of: what the views are to find
  Trace,      \* what the artefacts hold of an identity
  NoValue,    \* a value that was never recorded
  Placeholder,\* the container of the devices that are put in none
  Short,      \* the serials of fewer than five characters
  Truncates,  \* the pairs of serials of which the first, of twenty characters or more, begins the second
  Before      \* the order of keys, each identity's place in it

Storage == {"USB", "USBSTOR", "SCSI", "WPDBUSENUM"}

\* The values of a device's key, beside the key itself.
Values == {"container", "prefix", "service", "hardware"}
Has(i, v) == IF v = "hardware" THEN Trace[i].hardware # {} ELSE Trace[i][v] # NoValue
ValuesOf(i) == {v \in Values : Has(i, v)}
WholeOf(i) == {"key"} \cup ValuesOf(i) \cup (IF Trace[i].devnode THEN {"devnode"} ELSE {})

Real(id) == id \notin {NoValue, Placeholder}

\* A serial is not a device's own where one enumerator has it under two products, or
\* where it goes with two pairs of vendor and product id.
Conflict(I, serial) ==
  \/ \E i, j \in I : /\ Trace[i].serial = serial /\ Trace[j].serial = serial
                     /\ Trace[i].enumerator = Trace[j].enumerator
                     /\ Trace[i].product # Trace[j].product
  \/ \E i, j \in I : /\ Trace[i].serial = serial /\ Trace[j].serial = serial
                     /\ NoValue \notin {Trace[i].vidPid, Trace[j].vidPid}
                     /\ Trace[i].vidPid # Trace[j].vidPid

Hub(i) == Trace[i].rootHub \/ Trace[i].service = "usbhub"

\* The names hold of every host: a container is one device's, and so is a serial
\* within one product; devices that share a serial show it, where all they left is
\* read, in two products or two product ids; only a hub leads other devices'
\* instances; a hardware id is declared by the device it was installed for, and in a key.
ASSUME HostAssumption ==
  /\ IsFiniteSet(Identity) /\ Hosts \subseteq SUBSET Identity
  /\ Before \in [Identity -> Nat] /\ NoValue # "usbhub"
  /\ \A i \in Identity : Trace[i].hardware # {} => Trace[i].devnode
  /\ \A host \in Hosts : \A i, j \in host : DeviceOf[i] # DeviceOf[j] =>
       /\ Real(Trace[i].container) => Trace[i].container # Trace[j].container
       /\ Trace[i].serial # NoValue /\ Trace[i].vidPid # NoValue =>
            <<Trace[i].serial, Trace[i].vidPid>> # <<Trace[j].serial, Trace[j].vidPid>>
       /\ Trace[i].serial # NoValue /\ Trace[i].serial = Trace[j].serial => Conflict(host, Trace[i].serial)
       /\ Trace[i].prefix # NoValue /\ Trace[j].under = Trace[i].prefix => Hub(i)
       /\ i \in Trace[j].hardware => \E k \in host \ {j} : i \in Trace[k].hardware

VARIABLES
  host,       \* the identities this host's artefacts hold
  read,       \* what of each identity is in the case: {} where nothing names it
  device_group \* the table that all that follows reads

vars == <<host, read, device_group>>

NotFilled == <<>>

TypeOK ==
  /\ host \in Hosts
  /\ read \in [Identity -> SUBSET ({"key", "devnode"} \cup Values)]
  /\ \A i \in Identity : read[i] # {} => i \in host /\ "key" \in read[i]
  /\ \A i \in Identity : read[i] \subseteq WholeOf(i)

Init == host \in Hosts /\ read = [i \in Identity |-> {}] /\ device_group = NotFilled

\* An event, an installation section, a letter or a portable device names it.
Named(i) ==
  /\ device_group = NotFilled /\ read[i] = {}
  /\ read' = [read EXCEPT ![i] = {"key"}]
  /\ UNCHANGED <<host, device_group>>

\* Its key is read in one control set, with all of its values or all but one: a
\* control set, a damaged cell or a hive's missing log may lack the other.
ReadDevnode(i) ==
  /\ device_group = NotFilled /\ Trace[i].devnode
  /\ \E lost \in {{}} \cup {{v} : v \in ValuesOf(i)} :
       read' = [read EXCEPT ![i] = @ \cup {"key", "devnode"} \cup (ValuesOf(i) \ lost)]
  /\ UNCHANGED <<host, device_group>>

-----------------------------------------------------------------------------
Known == {i \in Identity : read[i] # {}}
Nodes == {i \in Known : "devnode" \in read[i]}
Value(i, v) == IF v \in read[i] THEN Trace[i][v] ELSE NoValue
Hardware(i) == IF "hardware" \in read[i] THEN Trace[i].hardware ELSE {}

\* The links, each from the lesser key to the greater, the method that made it, and
\* whether it asserts that the two are one device.
Link(i, j, method, asserts) ==
  IF Before[i] < Before[j] THEN [left |-> i, right |-> j, method |-> method, asserts |-> asserts]
                           ELSE [left |-> j, right |-> i, method |-> method, asserts |-> asserts]

SameSerial(i, j) == i # j /\ Trace[i].serial # NoValue /\ Trace[i].serial = Trace[j].serial

container ==
  {Link(p[1], p[2], "container_id", TRUE) :
     p \in {q \in Known \X Known : /\ q[1] # q[2] /\ Real(Value(q[1], "container"))
                                   /\ Value(q[1], "container") = Value(q[2], "container")}}

\* Mutant: a serial that is in use on two products asserts as any other.
serial_across_asserting ==
  {Link(p[1], p[2], "serial_across_enumerators", TRUE) :
     p \in {q \in Known \X Known : /\ SameSerial(q[1], q[2]) /\ Trace[q[1]].serial \notin Short
                                   /\ Trace[q[1]].enumerator # Trace[q[2]].enumerator
                                   /\ {Trace[q[1]].enumerator, Trace[q[2]].enumerator} \subseteq Storage}}
serial_across ==
  {Link(p[1], p[2], "serial_across_enumerators", ~Conflict(Known, Trace[p[1]].serial)) :
     p \in {q \in Known \X Known : /\ SameSerial(q[1], q[2]) /\ Trace[q[1]].serial \notin Short
                                   /\ Trace[q[1]].enumerator # Trace[q[2]].enumerator
                                   /\ {Trace[q[1]].enumerator, Trace[q[2]].enumerator} \subseteq Storage}}

vid_pid_serial ==
  {Link(p[1], p[2], "vid_pid_and_serial", TRUE) :
     p \in {q \in Known \X Known : /\ SameSerial(q[1], q[2])
                                   /\ Trace[q[1]].vidPid # NoValue /\ Trace[q[1]].vidPid = Trace[q[2]].vidPid}}

\* A node leads the instance ids of its children, but for a hub, which leads those of
\* whatever is plugged into it.
\* Mutant: hubs are not told from the devices behind them.
parentage_of_hubs ==
  {Link(p[1], p[2], "parent_id_prefix", TRUE) :
     p \in {q \in Nodes \X Nodes :
              /\ q[1] # q[2]
              /\ Value(q[1], "prefix") # NoValue /\ Trace[q[2]].under = Value(q[1], "prefix")
              /\ Trace[q[1]].enumerator \in {"USB", "HID"}}}
parentage ==
  {Link(p[1], p[2], "parent_id_prefix", TRUE) :
     p \in {q \in Nodes \X Nodes :
              /\ q[1] # q[2]
              /\ Value(q[1], "prefix") # NoValue /\ Trace[q[2]].under = Value(q[1], "prefix")
              /\ Trace[q[1]].enumerator \in {"USB", "HID"}
              /\ ~Trace[q[1]].rootHub /\ Value(q[1], "service") # "usbhub"}}

\* An identity that names no instance is a hardware id; the nodes that declare it.
Declaring(i) == {j \in Nodes : i \in Hardware(j)}
hardware_link ==
  {Link(p[1], p[2], "hardware_id", Cardinality(Declaring(p[1])) = 1) :
     p \in {q \in Known \X Nodes : ~Trace[q[1]].instance /\ q[2] \in Declaring(q[1])}}

serial_prefix ==
  {Link(p[1], p[2], "serial_prefix_candidate", FALSE) :
     p \in {q \in Known \X Known : /\ <<Trace[q[1]].serial, Trace[q[2]].serial>> \in Truncates
                                   /\ Trace[q[1]].enumerator # Trace[q[2]].enumerator}}

v_device_link ==
  container \cup serial_across \cup vid_pid_serial \cup parentage \cup hardware_link \cup serial_prefix

Asserted == {l \in v_device_link : l.asserts}

v_device_grouping_edge ==
  {<<l.left, l.right>> : l \in Asserted} \cup {<<l.right, l.left>> : l \in Asserted}

\* Grouping is transitive: what is reached from an identity, the least set that has it
\* and that no link leaves.
\* Mutant: the links are read pairwise.
ReachOne(edges) == [i \in Known |-> {i} \cup {e[2] : e \in {d \in edges : d[1] = i}}]
Closed(edges) == {S \in SUBSET Known : \A e \in edges : e[1] \in S => e[2] \in S}
Reach(edges) ==
  LET closed == Closed(edges) IN [i \in Known |-> {j \in Known : \A S \in closed : i \in S => j \in S}]
\* The identity that speaks for a group: one that reported a serial, then one that
\* names an instance, then by its enumerator, then by its key.
identity_rank == [USBSTOR |-> 1, SCSI |-> 2, USB |-> 3, HID |-> 4, SWD |-> 6]
Rank(i) ==
  <<IF Trace[i].serial # NoValue THEN 0 ELSE 1, IF Trace[i].instance THEN 0 ELSE 1,
    IF Trace[i].enumerator \in DOMAIN identity_rank THEN identity_rank[Trace[i].enumerator] ELSE 5, Before[i]>>
Ahead(i, j) ==
  \E k \in 1 .. 4 : Rank(i)[k] < Rank(j)[k] /\ \A n \in 1 .. k - 1 : Rank(i)[n] = Rank(j)[n]
Spokesman(S) == CHOOSE i \in S : \A j \in S \ {i} : Ahead(i, j)

v_device_grouping ==
  LET reach == Reach(v_device_grouping_edge)
  IN  [i \in Known |-> [members |-> reach[i], physical_device_id |-> Spokesman(reach[i])]]

\* The derived table is filled from its view, after the last load.
Consolidate ==
  /\ device_group = NotFilled /\ Known # {}
  /\ device_group' = v_device_grouping
  /\ UNCHANGED <<host, read>>

\* The case is read from then on.
Rest == device_group # NotFilled /\ UNCHANGED vars

Next == (\E i \in host : Named(i) \/ ReadDevnode(i)) \/ Consolidate \/ Rest

Spec == Init /\ [][Next]_vars

-----------------------------------------------------------------------------
\* A link is wrong where it asserts that two devices are one.
Wrong(l) == l.asserts /\ DeviceOf[l.left] # DeviceOf[l.right]

\* What a wrong link is owed to: something of the host that is not in the case.
SerialUnread(serial) == \E k \in host \ Known : Trace[k].serial = serial
ServiceUnread(p) == Hub(p) /\ "service" \notin read[p]
DeclarationUnread(i) == \E k \in host : i \in Trace[k].hardware /\ k \notin Declaring(i)

\* No link joins two devices but for the want of a named piece of evidence: another
\* identity with the serial, the service of a hub, another declaration of the hardware
\* id.  A container, a serial with its product, and a candidate never join two, and
\* with all of the host's artefacts read no link does (views.sql:507-709).
WrongLinksExplained ==
  \A l \in v_device_link : Wrong(l) =>
    \/ l.method = "serial_across_enumerators" /\ SerialUnread(Trace[l.left].serial)
    \/ l.method = "parent_id_prefix" /\ \E p \in {l.left, l.right} : ServiceUnread(p)
    \/ l.method = "hardware_id" /\ \E i \in {l.left, l.right} : DeclarationUnread(i)

\* The groups part what is known: each identity is in one group, for which one identity
\* speaks, and only a wrong link makes a group of two devices, however long the chain
\* (views.sql:712-765).
GroupsArePartition ==
  device_group # NotFilled =>
    /\ \A i \in Known : i \in device_group[i].members
    /\ \A i \in Known : \A j \in device_group[i].members : device_group[j] = device_group[i]
    /\ (~\E l \in v_device_link : Wrong(l)) =>
         \A i \in Known : \A j \in device_group[i].members : DeviceOf[j] = DeviceOf[i]

\* What of a host's evidence, read whole, joins two of its identities: a container, a
\* serial with its product, a serial that is in use on one product alone, a parent that is
\* no hub, the only declaration of a hardware id.
Joins(h, i, j) ==
  /\ i # j
  /\ \/ Real(Trace[i].container) /\ Trace[i].container = Trace[j].container
     \/ /\ SameSerial(i, j) /\ Trace[i].serial \notin Short /\ Trace[i].enumerator # Trace[j].enumerator
        /\ {Trace[i].enumerator, Trace[j].enumerator} \subseteq Storage /\ ~Conflict(h, Trace[i].serial)
     \/ SameSerial(i, j) /\ Trace[i].vidPid # NoValue /\ Trace[i].vidPid = Trace[j].vidPid
     \/ /\ Trace[i].devnode /\ Trace[j].devnode /\ Trace[i].prefix # NoValue /\ Trace[j].under = Trace[i].prefix
        /\ Trace[i].enumerator \in {"USB", "HID"} /\ ~Hub(i)
     \/ ~Trace[i].instance /\ {k \in h : i \in Trace[k].hardware} = {j}

\* The keys of each device are joined by some route: however they are divided in two,
\* something joins a key of the one part to one of the other.
Joined ==
  \A h \in Hosts : \A i, j \in {k \in h : Trace[k].instance} : DeviceOf[i] = DeviceOf[j] =>
    \A S \in SUBSET h : i \in S /\ j \notin S =>
      \E a \in S, b \in h \ S : Joins(h, a, b) \/ Joins(h, b, a)

\* The case has all that the host's artefacts hold.
Whole == \A i \in host : read[i] = WholeOf(i)

\* Where everything was read, the groups are the devices: nothing that two keys share,
\* a placeholder, a serial, a hub or a hardware id, joins two sticks, and some route
\* joins the keys of each (views.sql:476-709).
WholeEvidenceIsDevices ==
  device_group # NotFilled /\ Whole =>
    \A i, j \in {k \in host : Trace[k].instance} :
      j \in device_group[i].members <=> DeviceOf[i] = DeviceOf[j]

\* The groups hold, and what they were made of is what was read.
GroupingHolds == TypeOK /\ GroupsArePartition
=============================================================================
