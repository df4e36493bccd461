----------------------------- MODULE MCDiscovery -----------------------------
(***************************************************************************)
(* Instances of Discovery for TLC: a volume with one of everything, as a     *)
(* directory of a collection and below a collector's uploads, in which any   *)
(* two entries are other than they should be.  The same volume is there      *)
(* outside the evidence and elsewhere inside it, for junctions to lead to.   *)
(***************************************************************************)
EXTENDS Discovery, TLC

Dir == [is |-> "dir"]
File == [is |-> "file"]
Absent == [is |-> "absent"]
Denied == [is |-> "denied"]
Link(p) == [is |-> "link", to |-> p]

Directories == {<<>>, <<"Windows">>, <<"Windows", "config">>, <<"Windows", "Logs">>, <<"Windows", "INF">>,
  <<"Windows", "Prefetch">>, <<"Users">>, <<"Users", "ann">>, <<"Users", "ann", "AppData">>,
  <<"Users", "ann", "Recent">>, <<"Users", "ann", "Recent", "sub">>}
Files == {<<"Windows", "config", "SYSTEM">>, <<"Windows", "config", "SYSTEM.LOG1">>,
  <<"Windows", "Logs", "a.evtx">>, <<"Windows", "INF", "setupapi.dev.log">>,
  <<"Windows", "INF", "setupapi.dev.1.log">>, <<"Windows", "Prefetch", "A.pf">>,
  <<"Users", "ann", "NTUSER.DAT">>, <<"Users", "ann", "AppData", "UsrClass.dat">>,
  <<"Users", "ann", "Recent", "a.lnk">>, <<"Users", "ann", "Recent", "sub", "b.dest">>,
  <<"Users", "ann", "Recent", "desktop.ini">>}
\* The same names in another case.
Others == {<<"Windows", "config", "system">>, <<"Windows", "config", "System">>,
  <<"Users", "ann", "ntuser.dat">>}

Volume(at) == [p \in {at \o d : d \in Directories} |-> Dir] @@
              [p \in {at \o f : f \in Files} |-> File] @@ [p \in {at \o f : f \in Others} |-> Absent]

Aside == <<"E", "aside", "m">>
Outside == <<"X">>
\* The logs outside were cleared.
Around == Outside \o <<"Windows", "Logs", "a.evtx">> :> Absent @@ Volume(Aside) @@ Volume(Outside)
  @@ [p \in {<<"E">>, <<"E", "aside">>} |-> Dir]
  @@ <<"mnt">> :> Link(<<"E">>) @@ <<"into">> :> Link(<<"E", "aside">>)

Kape == <<"E", "C">>
Uploads == <<"E", "uploads">>
KapeTree == Volume(Kape) @@ Around

Small(at) == [p \in {at, at \o <<"Windows">>, at \o <<"Windows", "config">>} |-> Dir]
               @@ (at \o <<"Windows", "config", "SYSTEM">>) :> File
UploadsTree ==
  Small(Uploads \o <<"auto", "C">>) @@ Small(Uploads \o <<"ntfs", "D">>)
    @@ Small(Outside \o <<"auto", "C">>)
    @@ [p \in {Uploads, Uploads \o <<"auto">>, Uploads \o <<"ntfs">>, Outside \o <<"auto">>} |-> Dir]
    @@ Around
PlainTree == Small(<<"E">>) @@ Around

\* What may be wrong with an entry: it is not there, may not be read, or is a
\* junction that leads out, elsewhere inside, nowhere, or back to itself.
Out(rest) == Link(Outside \o rest)
In(rest) == Link(Aside \o rest)
Nowhere == Link(<<"gone">>)
Wrong(p, rest) == {Absent, Denied, File, Out(rest), In(rest), Nowhere, Link(p)}

ChangesAt(rest) == LET p == Kape \o rest IN
  IF rest \in Others THEN {<<p, File>>}
  ELSE {<<p, c>> : c \in IF rest \in Files THEN {Absent, Out(rest), In(rest), Nowhere, Link(p)}
                         ELSE Wrong(p, rest)}

\* The junctions that lead elsewhere inside, crossing one that leads out.
Crossing == <<Aside, Link(Outside)>>

Changes == {Crossing} \cup UNION {ChangesAt(rest) : rest \in Directories \cup Files \cup Others}
UploadsChanges == LET auto == Uploads \o <<"auto">> IN
  {<<auto, c>> : c \in {Absent, Denied, Out(<<"auto">>)}}

Changed(t, changes) == {[t EXCEPT ![a[1]] = a[2], ![b[1]] = b[2]] : a, b \in changes}
SomeTrees == Changed(KapeTree, Changes) \cup Changed(UploadsTree, UploadsChanges) \cup {PlainTree, UploadsTree}

SomeRoot == <<"mnt">>
SomeOutputs == {<<"O", "case">>, <<"E", "case">>, <<"into", "case">>, <<"mnt">>}

Names == UNION {{p[k] : k \in DOMAIN p} : p \in DOMAIN KapeTree \cup DOMAIN UploadsTree}
Known == [n \in {"a.lnk"} |-> "lnk"] @@ "b.dest" :> "automaticDestinations-ms" @@ "a.evtx" :> "evtx"
  @@ "setupapi.dev.1.log" :> "rotated" @@ "A.pf" :> "pf" @@ "SYSTEM.LOG1" :> "log"
SomeExtension == Known @@ [n \in Names |-> ""]
SomeFolded == "system" :> "SYSTEM" @@ "System" :> "SYSTEM" @@ "ntuser.dat" :> "NTUSER.DAT"
  @@ [n \in Names |-> n]
SomeRank == "System" :> 2 @@ "system" :> 3 @@ "ntuser.dat" :> 2 @@ [n \in Names |-> 1]
SomeLogs == "SYSTEM" :> {"SYSTEM.LOG1"} @@ "NTUSER.DAT" :> {} @@ "UsrClass.dat" :> {}
SomeShortcutDirs == {[context |-> "recent", path |-> <<"Recent">>]}
=============================================================================
