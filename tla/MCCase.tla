------------------------------ MODULE MCCase ------------------------------
(***************************************************************************)
(* A collection with one of everything: two volumes' SYSTEM hives, of which *)
(* one has no prefetch setting, two event logs with a disk layout each, and   *)
(* records of each kind that name what they name in each way they can.       *)
(***************************************************************************)
EXTENDS Case

MCDiscovered ==
  <<"system", "system2", "software", "ntuser", "usrclass", "driver.evtx", "disk.evtx", "setup.log",
    "recent.lnk", "jump", "run.pf">>
MCKind ==
  "system" :> "SYSTEM" @@ "system2" :> "SYSTEM" @@ "software" :> "SOFTWARE" @@ "ntuser" :> "NTUSER"
  @@ "usrclass" :> "USRCLASS" @@ "driver.evtx" :> "EVTX" @@ "disk.evtx" :> "EVTX"
  @@ "setup.log" :> "SETUPAPI" @@ "recent.lnk" :> "LNK" @@ "jump" :> "JUMPLIST"
  @@ "run.pf" :> "PREFETCH"
MCLogsOf == [a \in Artefacts |-> IF MCKind[a] = "SYSTEM" THEN <<a \o ".LOG1">> ELSE <<>>]

Mount(name, target) ==
  [name |-> name, target |-> target, device |-> IF target = "device" THEN "usbstor" ELSE "",
   partition |-> IF target = "gpt" THEN "guid" ELSE "", volume |-> IF target = "volume" THEN "vol" ELSE "",
   offset |-> "0", signature |-> IF target = "mbr_signature" THEN "sig" ELSE ""]
Event(file, at, torn, layout) ==
  [file |-> file, at |-> at, instance |-> "usb", fields |-> {"Model"}, torn |-> torn,
   layout |-> layout, partitions |-> IF layout = "none" THEN {} ELSE {"p1"}]

MCHolds ==
  "system" :>
    [zone |-> "GMT", setting |-> "3",
     devnodes |-> {[key |-> "usbstor", stored |-> {"Disk", ""}, written |-> TRUE, properties |-> {"Arrival"}],
                   [key |-> "wpdbusenum", stored |-> {""}, written |-> FALSE, properties |-> {"Name"}]},
     mounts |-> {Mount("E:", "device"), Mount("F:", "gpt"), Mount("G:", "volume"), Mount("H:", "mbr_signature")}]
  @@ "system2" :> [zone |-> "Perth", setting |-> "", devnodes |-> {}, mounts |-> {Mount("E:", "device")}]
  @@ "software" :>
    [portable |-> {[path |-> "wpd1", instance |-> "usbstor", volume |-> "", offset |-> ""],
                   [path |-> "wpd2", instance |-> "", volume |-> "vol", offset |-> "0"]},
     volumes |-> {[path |-> "emd1", serial |-> "1234"]}]
  @@ "ntuser" :>
    [points |-> {[path |-> "mp1", volume |-> "vol", letter |-> "", remote |-> ""],
                 [path |-> "mp2", volume |-> "", letter |-> "E", remote |-> ""],
                 [path |-> "mp3", volume |-> "", letter |-> "", remote |-> "share"]},
     mru |-> {[key |-> "mru1", path |-> "", name |-> "a.txt", partial |-> FALSE]},
     launched |-> {[key |-> "ua1", name |-> "tool", partial |-> FALSE]},
     bags |-> {[key |-> "bag1", path |-> "E:\\x", partial |-> TRUE]}]
  @@ "usrclass" :> [bags |-> {[key |-> "bag2", path |-> "E:\\y", partial |-> FALSE]}]
  @@ "driver.evtx" :> [records |-> {Event("driver.evtx", "1", FALSE, "none"), Event("driver.evtx", "2", TRUE, "none")}]
  @@ "disk.evtx" :> [records |-> {Event("disk.evtx", "3", FALSE, "gpt"), Event("disk.evtx", "4", FALSE, "undecoded")}]
  @@ "setup.log" :> [sections |-> {[line |-> "12", instance |-> "usb"]}]
  @@ "recent.lnk" :> [link |-> [at |-> "", path |-> "E:\\x\\a.txt", recorded |-> "", partial |-> FALSE]]
  @@ "jump" :>
    [entries |-> {[at |-> "1", path |-> "", recorded |-> "E:\\x\\b.txt", partial |-> FALSE],
                  [at |-> "2", path |-> "E:\\x\\c.txt", recorded |-> "E:\\old", partial |-> FALSE]}]
  @@ "run.pf" :>
    [launch |-> [path |-> "TOOL.EXE", times |-> {"t1", "t2"}, files |-> {"f1"}, partial |-> TRUE,
                 serials |-> {"1234"}]]

MCRules ==
  [classes |-> {"disk"}, categories |-> {"storage"}, rules |-> {[id |-> "r1", facts |-> {"storage_identity"}]},
   indicators |-> {"file_activity"}, reviews |-> {[fact |-> "no_serial", unless |-> {"internal_bus"}]}]
MCMissing == <<"AMCACHE">>
MCUnlooked == <<"LNK">>
=============================================================================
