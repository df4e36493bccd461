------------------------ MODULE DeviceGroupingProofs ------------------------
(***************************************************************************)
(* The groups of identities, for every host, every device that left them    *)
(* and whatever of the evidence was read.  A group is what every closed set *)
(* of identities has that has one of them; that the groups part the         *)
(* identities is that the rest of a closed set is closed too, as the edges  *)
(* go both ways, and that they are one device each is that the identities   *)
(* of a device are closed where no link is wrong.  Read whole, the evidence  *)
(* makes no wrong link, and whatever joins two keys of a host is an edge, so *)
(* that a closed set with one key of a device has them all.                 *)
(***************************************************************************)
EXTENDS DeviceGrouping, FiniteSetTheorems, TLAPS

\* The table is what its view gave, as nothing is read after it is filled.
Filled == device_group # NotFilled => device_group = v_device_grouping

\* The identities a link is between are known.
LEMMA LinkEnds ==
  ASSUME NEW l \in v_device_link
  PROVE  l.left \in Known /\ l.right \in Known
<1>1. ASSUME NEW i \in Known, NEW j \in Known, NEW method, NEW asserts, l = Link(i, j, method, asserts)
      PROVE  l.left \in Known /\ l.right \in Known
  <2>1. CASE Before[i] < Before[j]
    BY <1>1, <2>1 DEF Link
  <2>2. CASE ~(Before[i] < Before[j])
    BY <1>1, <2>2 DEF Link
  <2> QED BY <2>1, <2>2
<1>2. Nodes \subseteq Known
  BY DEF Nodes
<1>3. CASE l \in container
  BY <1>1, <1>3 DEF container
<1>4. CASE l \in serial_across
  BY <1>1, <1>4 DEF serial_across
<1>5. CASE l \in vid_pid_serial
  BY <1>1, <1>5 DEF vid_pid_serial
<1>6. CASE l \in parentage
  <2>1. PICK i \in Nodes, j \in Nodes : l = Link(i, j, "parent_id_prefix", TRUE)
    BY <1>6 DEF parentage
  <2> QED
    BY <1>1, <1>2, <2>1
<1>7. CASE l \in hardware_link
  BY <1>1, <1>2, <1>7 DEF hardware_link
<1>8. CASE l \in serial_prefix
  BY <1>1, <1>8 DEF serial_prefix
<1> QED
  BY <1>3, <1>4, <1>5, <1>6, <1>7, <1>8 DEF v_device_link

\* The edges run both ways between known identities, and each is a link that asserts.
LEMMA EdgesBothWays ==
  ASSUME NEW e \in v_device_grouping_edge
  PROVE  /\ e = <<e[1], e[2]>> /\ e[1] \in Known /\ e[2] \in Known
         /\ <<e[2], e[1]>> \in v_device_grouping_edge
         /\ \E l \in Asserted : {l.left, l.right} = {e[1], e[2]}
<1>1. PICK l \in Asserted : e = <<l.left, l.right>> \/ e = <<l.right, l.left>>
  BY DEF v_device_grouping_edge
<1>2. l.left \in Known /\ l.right \in Known
  BY LinkEnds DEF Asserted
<1>3. <<l.left, l.right>> \in v_device_grouping_edge /\ <<l.right, l.left>> \in v_device_grouping_edge
  BY DEF v_device_grouping_edge
<1>4. CASE e = <<l.left, l.right>>
  BY <1>2, <1>3, <1>4
<1>5. CASE e = <<l.right, l.left>>
  BY <1>2, <1>3, <1>5
<1> QED
  BY <1>1, <1>4, <1>5

\* What no edge leaves no edge enters.
LEMMA RestIsClosed ==
  ASSUME NEW S \in Closed(v_device_grouping_edge)
  PROVE  Known \ S \in Closed(v_device_grouping_edge)
<1>1. ASSUME NEW e \in v_device_grouping_edge, e[1] \in Known \ S
      PROVE  e[2] \in Known \ S
  <2>1. e[2] \in Known /\ <<e[2], e[1]>> \in v_device_grouping_edge
    BY EdgesBothWays
  <2>2. ASSUME e[2] \in S PROVE FALSE
    <3>1. <<e[2], e[1]>>[1] \in S => <<e[2], e[1]>>[2] \in S
      BY <2>1 DEF Closed
    <3> QED
      BY <1>1, <2>2, <3>1
  <2> QED
    BY <2>1, <2>2
<1> QED
  BY <1>1 DEF Closed

\* What is reached from an identity reaches the same.
LEMMA ReachParts ==
  ASSUME NEW i \in Known, NEW j \in Reach(v_device_grouping_edge)[i]
  PROVE  Reach(v_device_grouping_edge)[j] = Reach(v_device_grouping_edge)[i]
<1> DEFINE closed == Closed(v_device_grouping_edge)
<1>1. j \in Known /\ \A S \in closed : i \in S => j \in S
  BY DEF Reach
<1>2. ASSUME NEW S \in closed, j \in S PROVE i \in S
  <2>1. Known \ S \in closed
    BY RestIsClosed
  <2> QED
    BY <1>1, <1>2, <2>1
<1>3. ASSUME NEW k \in Known PROVE k \in Reach(v_device_grouping_edge)[j] <=> k \in Reach(v_device_grouping_edge)[i]
  <2>1. k \in Reach(v_device_grouping_edge)[j] <=> \A S \in closed : j \in S => k \in S
    BY <1>1 DEF Reach
  <2>2. k \in Reach(v_device_grouping_edge)[i] <=> \A S \in closed : i \in S => k \in S
    BY DEF Reach
  <2> HIDE DEF closed
  <2> QED
    BY <1>1, <1>2, <2>1, <2>2
<1>4. Reach(v_device_grouping_edge)[j] \subseteq Known /\ Reach(v_device_grouping_edge)[i] \subseteq Known
  BY <1>1 DEF Reach
<1> QED
  BY <1>3, <1>4

\* The identities of one device, where no link is wrong.
LEMMA DeviceIsClosed ==
  ASSUME NEW i \in Known, ~\E l \in v_device_link : Wrong(l)
  PROVE  {k \in Known : DeviceOf[k] = DeviceOf[i]} \in Closed(v_device_grouping_edge)
<1>1. ASSUME NEW e \in v_device_grouping_edge, e[1] \in Known, DeviceOf[e[1]] = DeviceOf[i]
      PROVE  e[2] \in Known /\ DeviceOf[e[2]] = DeviceOf[i]
  <2>1. PICK l \in Asserted : {l.left, l.right} = {e[1], e[2]}
    BY EdgesBothWays
  <2>2. DeviceOf[l.left] = DeviceOf[l.right]
    BY DEF Asserted, Wrong
  <2>3. DeviceOf[e[1]] = DeviceOf[e[2]]
    BY <2>1, <2>2
  <2> QED
    BY <1>1, <2>3, EdgesBothWays
<1> QED
  BY <1>1 DEF Closed

\* The views partition whatever is known.
LEMMA FilledIsPartition == Filled => GroupsArePartition
<1> SUFFICES ASSUME Filled, device_group # NotFilled
             PROVE  /\ \A i \in Known : i \in device_group[i].members
                    /\ \A i \in Known : \A j \in device_group[i].members : device_group[j] = device_group[i]
                    /\ (~\E l \in v_device_link : Wrong(l)) =>
                         \A i \in Known : \A j \in device_group[i].members : DeviceOf[j] = DeviceOf[i]
  BY DEF GroupsArePartition
<1> DEFINE reach == Reach(v_device_grouping_edge)
<1>1. ASSUME NEW i \in Known
      PROVE  device_group[i] = [members |-> reach[i], physical_device_id |-> Spokesman(reach[i])]
  BY DEF Filled, v_device_grouping
<1>2. ASSUME NEW i \in Known PROVE i \in reach[i] /\ reach[i] \subseteq Known
  BY DEF Reach
<1>3. ASSUME NEW i \in Known, NEW j \in reach[i] PROVE reach[j] = reach[i]
  BY ReachParts
<1>4. ASSUME ~\E l \in v_device_link : Wrong(l), NEW i \in Known, NEW j \in reach[i]
      PROVE  DeviceOf[j] = DeviceOf[i]
  <2>1. {k \in Known : DeviceOf[k] = DeviceOf[i]} \in Closed(v_device_grouping_edge)
    BY <1>4, DeviceIsClosed
  <2> QED
    BY <2>1 DEF Reach
<1>5. ASSUME NEW i \in Known PROVE device_group[i].members = reach[i]
  <2>1. device_group[i] = [members |-> reach[i], physical_device_id |-> Spokesman(reach[i])]
    BY <1>1
  <2> HIDE DEF reach
  <2> QED
    BY <2>1
<1> HIDE DEF reach
<1>6. ASSUME NEW i \in Known, NEW j \in reach[i] PROVE device_group[j] = device_group[i]
  <2>1. j \in Known
    BY <1>2
  <2> QED
    BY <1>1, <1>3, <2>1
<1> QED
  BY <1>2, <1>4, <1>5, <1>6

-----------------------------------------------------------------------------
\* The views read what is in the case and nothing else.
LEMMA SameEvidenceSameGroups == ASSUME UNCHANGED <<host, read>> PROVE v_device_grouping' = v_device_grouping
<1>1. Known' = Known /\ Nodes' = Nodes
  BY DEF Known, Nodes
<1>2. container' = container
  BY <1>1 DEF container, Value
<1>3. serial_across' = serial_across
  BY <1>1 DEF serial_across
<1>4. vid_pid_serial' = vid_pid_serial
  BY <1>1 DEF vid_pid_serial
<1>5. parentage' = parentage
  BY <1>1 DEF parentage, Value
<1>6. hardware_link' = hardware_link
  BY <1>1 DEF hardware_link, Declaring, Hardware
<1>7. serial_prefix' = serial_prefix
  BY <1>1 DEF serial_prefix
<1>8. v_device_grouping_edge' = v_device_grouping_edge
  BY <1>2, <1>3, <1>4, <1>5, <1>6, <1>7 DEF v_device_grouping_edge, Asserted, v_device_link
<1> QED
  BY <1>1, <1>8 DEF v_device_grouping, Reach, Closed

\* Nothing is read and nothing is filled at first.
LEMMA InitHolds == Init => TypeOK /\ Filled
  BY DEF Init, TypeOK, Filled

\* An identity named elsewhere is one of the host's.
LEMMA NamedKeepsType == ASSUME TypeOK, NEW i \in host, Named(i) PROVE TypeOK'
<1>1. i \in Identity /\ "key" \in WholeOf(i)
  BY HostAssumption DEF TypeOK, WholeOf
<1> QED
  BY <1>1 DEF Named, TypeOK

\* What is read of a key is some of what the host left there.
LEMMA ReadKeepsType == ASSUME TypeOK, NEW i \in host, ReadDevnode(i) PROVE TypeOK'
<1>1. i \in Identity
  BY HostAssumption DEF TypeOK
<1>2. PICK lost : read' = [read EXCEPT ![i] = @ \cup {"key", "devnode"} \cup (ValuesOf(i) \ lost)]
  BY DEF ReadDevnode
<1>3. {"key", "devnode"} \cup ValuesOf(i) \subseteq WholeOf(i)
  BY DEF ReadDevnode, WholeOf
<1>4. ValuesOf(i) \subseteq Values
  BY DEF ValuesOf
<1> QED
  BY <1>1, <1>2, <1>3, <1>4 DEF ReadDevnode, TypeOK

\* A step reads while the table is empty, or fills it from what was read.
LEMMA NextHolds == ASSUME TypeOK, Filled, [Next]_vars PROVE TypeOK' /\ Filled'
<1>1. ASSUME NEW i \in host, Named(i) PROVE TypeOK' /\ Filled'
  BY <1>1, NamedKeepsType DEF Named, Filled
<1>2. ASSUME NEW i \in host, ReadDevnode(i) PROVE TypeOK' /\ Filled'
  BY <1>2, ReadKeepsType DEF ReadDevnode, Filled
<1>3. ASSUME Consolidate PROVE TypeOK' /\ Filled'
  <2>1. TypeOK'
    BY <1>3 DEF Consolidate, TypeOK
  <2>2. device_group' = v_device_grouping'
    BY <1>3, SameEvidenceSameGroups DEF Consolidate
  <2> QED
    BY <2>1, <2>2 DEF Filled
<1>4. ASSUME UNCHANGED vars PROVE TypeOK' /\ Filled'
  <2>1. v_device_grouping' = v_device_grouping
    BY <1>4, SameEvidenceSameGroups DEF vars
  <2> QED
    BY <1>4, <2>1 DEF vars, TypeOK, Filled
<1> QED
  BY <1>1, <1>2, <1>3, <1>4 DEF Next, Rest

\* The invariant holds of every host in every behaviour.
LEMMA AlwaysFilled == Spec => [](TypeOK /\ Filled)
<1>1. TypeOK /\ Filled /\ [Next]_vars => (TypeOK /\ Filled)'
  BY NextHolds
<1> QED
  BY InitHolds, <1>1, PTL DEF Spec

\* However many identities a device left, and however long the chains of links between
\* them, each is in one group for which one identity speaks, and two devices are in one
\* group only where a link joined two devices (v_device_grouping).
THEOREM GroupingAlwaysHolds == Spec => []GroupingHolds
<1>1. TypeOK /\ Filled => GroupingHolds
  BY FilledIsPartition DEF GroupingHolds
<1> QED
  BY AlwaysFilled, <1>1, PTL

-----------------------------------------------------------------------------
\* Only what the host left is known.
LEMMA KnownOfHost == TypeOK => Known \subseteq host /\ host \in Hosts /\ Nodes \subseteq Known
  BY DEF TypeOK, Known, Nodes

\* What the evidence of two devices has in common, in both orders.
LEMMA TwoDevices ==
  ASSUME TypeOK, NEW i \in Known, NEW j \in Known, DeviceOf[i] # DeviceOf[j]
  PROVE  /\ Real(Trace[i].container) => Trace[i].container # Trace[j].container
         /\ Trace[i].serial # NoValue /\ Trace[i].vidPid # NoValue =>
              <<Trace[i].serial, Trace[i].vidPid>> # <<Trace[j].serial, Trace[j].vidPid>>
         /\ Trace[i].serial # NoValue /\ Trace[i].serial = Trace[j].serial => Conflict(host, Trace[i].serial)
         /\ Trace[i].prefix # NoValue /\ Trace[j].under = Trace[i].prefix => Hub(i)
         /\ i \in Trace[j].hardware => \E k \in host \ {j} : i \in Trace[k].hardware
  BY KnownOfHost, HostAssumption

\* Identities of one container are one device's.
LEMMA ContainerRight == ASSUME TypeOK, NEW l \in container PROVE ~Wrong(l)
<1>1. PICK i \in Known, j \in Known :
        /\ l = Link(i, j, "container_id", TRUE)
        /\ Real(Value(i, "container")) /\ Value(i, "container") = Value(j, "container")
  BY DEF container
<1>2. Trace[i].container = Trace[j].container /\ Real(Trace[i].container)
  BY <1>1 DEF Value, Real
<1>3. Wrong(l) => DeviceOf[i] # DeviceOf[j]
  BY <1>1 DEF Link, Wrong
<1> QED
  BY <1>2, <1>3, TwoDevices

\* A serial shared by two devices was not read whole.
LEMMA SerialExplained ==
  ASSUME TypeOK, NEW l \in serial_across, Wrong(l)
  PROVE  l.method = "serial_across_enumerators" /\ SerialUnread(Trace[l.left].serial)
<1>1. PICK i \in Known, j \in Known :
        /\ l = Link(i, j, "serial_across_enumerators", ~Conflict(Known, Trace[i].serial))
        /\ SameSerial(i, j)
  BY DEF serial_across
<1>2. DeviceOf[i] # DeviceOf[j] /\ ~Conflict(Known, Trace[i].serial) /\ {l.left, l.right} = {i, j}
      /\ l.method = "serial_across_enumerators"
  BY <1>1 DEF Link, Wrong
<1>3. Conflict(host, Trace[i].serial)
  BY <1>1, <1>2, TwoDevices DEF SameSerial
<1>4. SerialUnread(Trace[i].serial)
  BY <1>2, <1>3 DEF Conflict, SerialUnread
<1>5. Trace[l.left].serial = Trace[i].serial
  BY <1>1, <1>2 DEF SameSerial
<1> QED
  BY <1>2, <1>4, <1>5

\* Identities of one product and one serial are one device's.
LEMMA ProductRight == ASSUME TypeOK, NEW l \in vid_pid_serial PROVE ~Wrong(l)
<1>1. PICK i \in Known, j \in Known :
        /\ l = Link(i, j, "vid_pid_and_serial", TRUE)
        /\ SameSerial(i, j) /\ Trace[i].vidPid # NoValue /\ Trace[i].vidPid = Trace[j].vidPid
  BY DEF vid_pid_serial
<1>2. Wrong(l) => DeviceOf[i] # DeviceOf[j]
  BY <1>1 DEF Link, Wrong
<1> QED
  BY <1>1, <1>2, TwoDevices DEF SameSerial

\* A parent that is another device is a hub whose service was not read.
LEMMA ParentageExplained ==
  ASSUME TypeOK, NEW l \in parentage, Wrong(l)
  PROVE  l.method = "parent_id_prefix" /\ \E p \in {l.left, l.right} : ServiceUnread(p)
<1>1. PICK i \in Nodes, j \in Nodes :
        /\ l = Link(i, j, "parent_id_prefix", TRUE)
        /\ Value(i, "prefix") # NoValue /\ Trace[j].under = Value(i, "prefix")
        /\ ~Trace[i].rootHub /\ Value(i, "service") # "usbhub"
  BY DEF parentage
<1>2. DeviceOf[i] # DeviceOf[j] /\ {l.left, l.right} = {i, j} /\ l.method = "parent_id_prefix"
  BY <1>1 DEF Link, Wrong
<1>3. Trace[i].prefix # NoValue /\ Trace[j].under = Trace[i].prefix
  BY <1>1 DEF Value
<1>4. Hub(i)
  BY <1>2, <1>3, KnownOfHost, TwoDevices
<1>5. "service" \notin read[i]
  BY <1>1, <1>4 DEF Hub, Value
<1> QED
  BY <1>2, <1>4, <1>5 DEF ServiceUnread

\* One declaration is all there is where the count is one.
LEMMA OneDeclares ==
  ASSUME TypeOK, NEW i, Cardinality(Declaring(i)) = 1, NEW j \in Declaring(i), NEW k \in Declaring(i)
  PROVE  j = k
<1>1. Declaring(i) \subseteq Identity
  BY DEF Declaring, Nodes, Known
<1>2. IsFiniteSet(Declaring(i))
  BY <1>1, HostAssumption, FS_Subset
<1>3. PICK m : Declaring(i) = {m}
  BY <1>2, FS_Singleton
<1> QED
  BY <1>3

\* A hardware id that names another device is declared by one more key, which was not read.
LEMMA HardwareExplained ==
  ASSUME TypeOK, NEW l \in hardware_link, Wrong(l)
  PROVE  l.method = "hardware_id" /\ \E i \in {l.left, l.right} : DeclarationUnread(i)
<1>1. PICK i \in Known, j \in Nodes :
        /\ l = Link(i, j, "hardware_id", Cardinality(Declaring(i)) = 1)
        /\ j \in Declaring(i)
  BY DEF hardware_link
<1>2. DeviceOf[i] # DeviceOf[j] /\ Cardinality(Declaring(i)) = 1 /\ {l.left, l.right} = {i, j}
      /\ l.method = "hardware_id"
  BY <1>1 DEF Link, Wrong
<1>3. i \in Trace[j].hardware
  BY <1>1 DEF Declaring, Hardware
<1>4. PICK k \in host \ {j} : i \in Trace[k].hardware
  BY <1>1, <1>2, <1>3, KnownOfHost, TwoDevices
<1>5. k \notin Declaring(i)
  BY <1>1, <1>2, <1>4, OneDeclares
<1> QED
  BY <1>2, <1>4, <1>5 DEF DeclarationUnread

\* Whatever hosts there are, whatever their identities hold and whatever of it was read,
\* a link between two devices is owed to a piece of evidence that is not in the case
\* (v_device_link).
THEOREM WrongLinksHaveACause == Spec => []WrongLinksExplained
<1>1. ASSUME TypeOK, NEW l \in v_device_link, Wrong(l)
      PROVE  \/ l.method = "serial_across_enumerators" /\ SerialUnread(Trace[l.left].serial)
             \/ l.method = "parent_id_prefix" /\ \E p \in {l.left, l.right} : ServiceUnread(p)
             \/ l.method = "hardware_id" /\ \E i \in {l.left, l.right} : DeclarationUnread(i)
  <2>1. l \notin serial_prefix
    <3>1. ASSUME NEW i \in Known, NEW j \in Known, l = Link(i, j, "serial_prefix_candidate", FALSE) PROVE FALSE
      BY <1>1, <3>1 DEF Link, Wrong
    <3> QED
      BY <3>1 DEF serial_prefix
  <2> QED
    BY <1>1, <2>1, ContainerRight, SerialExplained, ProductRight, ParentageExplained, HardwareExplained
       DEF v_device_link
<1>2. TypeOK => WrongLinksExplained
  BY <1>1 DEF WrongLinksExplained
<1> QED
  BY AlwaysFilled, <1>2, PTL

-----------------------------------------------------------------------------
\* Where the case has all that the host's artefacts hold, what is known is what there is.
LEMMA WholeIsHost ==
  ASSUME TypeOK, Whole
  PROVE  /\ Known = host /\ Nodes = {i \in host : Trace[i].devnode}
         /\ \A i \in host : \A v \in {"container", "prefix", "service"} : Value(i, v) = Trace[i][v]
         /\ \A i \in host : Hardware(i) = Trace[i].hardware
<1>1. host \subseteq Identity
  BY HostAssumption DEF TypeOK
<1>2. ASSUME NEW i \in host PROVE read[i] = WholeOf(i)
  BY DEF Whole
<1>3. ASSUME NEW i \in host
      PROVE  "key" \in WholeOf(i) /\ ("devnode" \in WholeOf(i) <=> Trace[i].devnode)
  BY DEF WholeOf, ValuesOf, Values
<1>4. Known = host
  BY <1>1, <1>2, <1>3 DEF Known, TypeOK
<1>5. Nodes = {i \in host : Trace[i].devnode}
  BY <1>2, <1>3, <1>4 DEF Nodes
<1>6. ASSUME NEW i \in host, NEW v \in {"container", "prefix", "service"} PROVE Value(i, v) = Trace[i][v]
  <2>1. v \in WholeOf(i) <=> Trace[i][v] # NoValue
    BY DEF WholeOf, ValuesOf, Values, Has
  <2> QED BY <1>2, <2>1 DEF Value
<1>7. ASSUME NEW i \in host PROVE Hardware(i) = Trace[i].hardware
  <2>1. "hardware" \in WholeOf(i) <=> Trace[i].hardware # {}
    BY DEF WholeOf, ValuesOf, Values, Has
  <2> QED BY <1>2, <2>1 DEF Hardware
<1> QED BY <1>4, <1>5, <1>6, <1>7

\* No link is then wrong.
LEMMA WholeIsRight == ASSUME TypeOK, Whole, NEW l \in v_device_link PROVE ~Wrong(l)
<1> SUFFICES ASSUME Wrong(l) PROVE FALSE
  OBVIOUS
<1>1. CASE l \in serial_across
  BY <1>1, SerialExplained, WholeIsHost DEF SerialUnread
<1>2. CASE l \in parentage
  <2>1. PICK i \in Nodes, j \in Nodes :
          /\ l = Link(i, j, "parent_id_prefix", TRUE)
          /\ Value(i, "prefix") # NoValue /\ Trace[j].under = Value(i, "prefix")
          /\ ~Trace[i].rootHub /\ Value(i, "service") # "usbhub"
    BY <1>2 DEF parentage
  <2>2. i \in Known /\ j \in Known /\ i \in host /\ DeviceOf[i] # DeviceOf[j]
    BY <2>1, WholeIsHost DEF Link, Wrong
  <2>3. Value(i, "prefix") = Trace[i].prefix /\ Value(i, "service") = Trace[i].service
    BY <2>2, WholeIsHost
  <2>4. Hub(i)
    BY <2>1, <2>2, <2>3, TwoDevices
  <2> QED BY <2>1, <2>3, <2>4 DEF Hub
<1>3. CASE l \in hardware_link
  <2>1. PICK i \in {l.left, l.right} : DeclarationUnread(i)
    BY <1>3, HardwareExplained
  <2>2. PICK k \in host : i \in Trace[k].hardware /\ k \notin Declaring(i)
    BY <2>1 DEF DeclarationUnread
  <2>3. k \in Nodes /\ i \in Hardware(k)
    <3>1. k \in Identity
      BY HostAssumption DEF TypeOK
    <3>2. Trace[k].devnode
      BY <2>2, <3>1, HostAssumption
    <3> QED BY <2>2, <3>2, WholeIsHost
  <2> QED BY <2>2, <2>3 DEF Declaring
<1>4. CASE l \in serial_prefix
  <2>1. ASSUME NEW i \in Known, NEW j \in Known, l = Link(i, j, "serial_prefix_candidate", FALSE) PROVE FALSE
    BY <2>1 DEF Link, Wrong
  <2> QED BY <1>4, <2>1 DEF serial_prefix
<1> QED BY <1>1, <1>2, <1>3, <1>4, ContainerRight, ProductRight DEF v_device_link

\* The edge of a link that asserts, both ways.
LEMMA EdgeOf ==
  ASSUME NEW i, NEW j, NEW method, NEW asserts, asserts, Link(i, j, method, asserts) \in v_device_link
  PROVE  <<i, j>> \in v_device_grouping_edge /\ <<j, i>> \in v_device_grouping_edge
<1> DEFINE l == Link(i, j, method, asserts)
<1>1. l.asserts = asserts /\ ((l.left = i /\ l.right = j) \/ (l.left = j /\ l.right = i))
  <2>1. CASE Before[i] < Before[j]
    <3>1. l = [left |-> i, right |-> j, method |-> method, asserts |-> asserts]
      BY <2>1 DEF Link
    <3> HIDE DEF l
    <3> QED BY <3>1, Zenon
  <2>2. CASE ~(Before[i] < Before[j])
    <3>1. l = [left |-> j, right |-> i, method |-> method, asserts |-> asserts]
      BY <2>2 DEF Link
    <3> HIDE DEF l
    <3> QED BY <3>1, Zenon
  <2> QED BY <2>1, <2>2
<1> HIDE DEF l
<1>2. l \in Asserted
  BY <1>1 DEF Asserted, l
<1>3. <<l.left, l.right>> \in v_device_grouping_edge /\ <<l.right, l.left>> \in v_device_grouping_edge
  BY <1>2 DEF v_device_grouping_edge
<1> QED BY <1>1, <1>3

\* What joins two identities of a host is a link of the whole case.
LEMMA JoinsIsEdge ==
  ASSUME TypeOK, Whole, NEW i \in host, NEW j \in host, Joins(host, i, j)
  PROVE  <<i, j>> \in v_device_grouping_edge /\ <<j, i>> \in v_device_grouping_edge
<1>1. i \in Known /\ j \in Known /\ i # j
  BY WholeIsHost DEF Joins
<1> DEFINE p == <<i, j>>
<1>0. p[1] = i /\ p[2] = j /\ p \in Known \X Known
  BY <1>1
<1> HIDE DEF p
<1>2. CASE Real(Trace[i].container) /\ Trace[i].container = Trace[j].container
  <2>1. Value(i, "container") = Trace[i].container /\ Value(j, "container") = Trace[j].container
    BY WholeIsHost
  <2>2. Link(i, j, "container_id", TRUE) \in container
    BY <1>0, <1>1, <1>2, <2>1 DEF container
  <2> QED BY <2>2, EdgeOf DEF v_device_link
<1>3. CASE /\ SameSerial(i, j) /\ Trace[i].serial \notin Short /\ Trace[i].enumerator # Trace[j].enumerator
           /\ {Trace[i].enumerator, Trace[j].enumerator} \subseteq Storage /\ ~Conflict(host, Trace[i].serial)
  <2>1. ~Conflict(Known, Trace[i].serial)
    BY <1>3, WholeIsHost
  <2>2. Link(i, j, "serial_across_enumerators", ~Conflict(Known, Trace[i].serial)) \in serial_across
    BY <1>0, <1>1, <1>3 DEF serial_across
  <2> QED BY <2>1, <2>2, EdgeOf DEF v_device_link
<1>4. CASE SameSerial(i, j) /\ Trace[i].vidPid # NoValue /\ Trace[i].vidPid = Trace[j].vidPid
  <2>1. Link(i, j, "vid_pid_and_serial", TRUE) \in vid_pid_serial
    BY <1>0, <1>1, <1>4 DEF vid_pid_serial
  <2> QED BY <2>1, EdgeOf DEF v_device_link
<1>5. CASE /\ Trace[i].devnode /\ Trace[j].devnode /\ Trace[i].prefix # NoValue /\ Trace[j].under = Trace[i].prefix
           /\ Trace[i].enumerator \in {"USB", "HID"} /\ ~Hub(i)
  <2>1. Value(i, "prefix") = Trace[i].prefix /\ Value(i, "service") = Trace[i].service
    BY WholeIsHost
  <2>2. i \in Nodes /\ j \in Nodes /\ ~Trace[i].rootHub /\ Trace[i].service # "usbhub"
    BY <1>5, WholeIsHost DEF Hub
  <2>3. Link(i, j, "parent_id_prefix", TRUE) \in parentage
    <3>1. p \in Nodes \X Nodes
      BY <2>2 DEF p
    <3> QED BY <1>0, <1>1, <1>5, <2>1, <2>2, <3>1 DEF parentage
  <2> QED BY <2>3, EdgeOf DEF v_device_link
<1>6. CASE ~Trace[i].instance /\ {k \in host : i \in Trace[k].hardware} = {j}
  <2>1. \A k \in host : i \in Trace[k].hardware => k \in Nodes
    BY WholeIsHost, HostAssumption DEF TypeOK
  <2>2. Declaring(i) = {j}
    <3>1. Declaring(i) = {k \in host : i \in Trace[k].hardware}
      BY <2>1, WholeIsHost DEF Declaring
    <3> QED BY <1>6, <3>1
  <2>3. Cardinality(Declaring(i)) = 1 /\ j \in Declaring(i) /\ j \in Nodes
    BY <2>2, FS_Singleton DEF Declaring
  <2>4. Link(i, j, "hardware_id", Cardinality(Declaring(i)) = 1) \in hardware_link
    <3>1. p \in Known \X Nodes
      BY <1>1, <2>3 DEF p
    <3> QED BY <1>0, <1>6, <2>3, <3>1 DEF hardware_link
  <2> QED BY <2>3, <2>4, EdgeOf DEF v_device_link
<1> QED BY <1>2, <1>3, <1>4, <1>5, <1>6 DEF Joins

\* Whatever hosts there are: where all that a host's artefacts hold was read, no group has
\* keys of two devices, and where the keys of each are joined by some route the groups are
\* the devices (v_device_link, v_device_grouping).
THEOREM WholeEvidenceGroups == ASSUME Joined PROVE Spec => []WholeEvidenceIsDevices
<1>1. ASSUME TypeOK, Filled, device_group # NotFilled, Whole,
             NEW i \in {k \in host : Trace[k].instance}, NEW j \in {k \in host : Trace[k].instance}
      PROVE  j \in device_group[i].members <=> DeviceOf[i] = DeviceOf[j]
  <2> DEFINE reach == Reach(v_device_grouping_edge)
  <2>1. Known = host /\ host \in Hosts
    BY <1>1, WholeIsHost DEF TypeOK
  <2>2. device_group[i].members = reach[i]
    <3>1. device_group[i] = [members |-> reach[i], physical_device_id |-> Spokesman(reach[i])]
      BY <1>1, <2>1 DEF Filled, v_device_grouping
    <3> HIDE DEF reach
    <3> QED BY <3>1
  <2>3. ASSUME j \in reach[i] PROVE DeviceOf[i] = DeviceOf[j]
    <3>1. GroupsArePartition /\ ~\E l \in v_device_link : Wrong(l)
      BY <1>1, FilledIsPartition, WholeIsRight
    <3> QED BY <1>1, <2>1, <2>2, <2>3, <3>1 DEF GroupsArePartition
  <2>4. ASSUME DeviceOf[i] = DeviceOf[j] PROVE j \in reach[i]
    <3>1. ASSUME NEW S \in Closed(v_device_grouping_edge), i \in S PROVE j \in S
      <4> SUFFICES ASSUME j \notin S PROVE FALSE
        OBVIOUS
      <4>1. S \in SUBSET host /\ \A e \in v_device_grouping_edge : e[1] \in S => e[2] \in S
        BY <2>1 DEF Closed
      <4>2. PICK a \in S, b \in host \ S : Joins(host, a, b) \/ Joins(host, b, a)
        BY <1>1, <2>1, <2>4, <3>1, <4>1 DEF Joined
      <4>3. <<a, b>> \in v_device_grouping_edge
        BY <1>1, <4>1, <4>2, JoinsIsEdge
      <4>4. <<a, b>>[1] = a /\ <<a, b>>[2] = b
        OBVIOUS
      <4> QED BY <4>1, <4>2, <4>3, <4>4
    <3> QED BY <2>1, <3>1 DEF Reach
  <2> QED BY <2>2, <2>3, <2>4
<1>2. TypeOK /\ Filled => WholeEvidenceIsDevices
  BY <1>1 DEF WholeEvidenceIsDevices, Whole
<1> QED BY AlwaysFilled, <1>2, PTL
=============================================================================
