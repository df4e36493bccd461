-------------------------- MODULE MCDeviceGrouping --------------------------
(***************************************************************************)
(* Hosts for TLC.  Two sticks of different makes with one cloned serial; a *)
(* hub with two sticks of one model and no serial behind it, and the       *)
(* hardware id they were installed by; a stick whose serial its disk node  *)
(* cuts short, with an interface node of its own and a stick whose serial  *)
(* begins the same; a short serial and a keyboard below a root hub.        *)
(***************************************************************************)
EXTENDS DeviceGrouping, TLC

Plain == [enumerator |-> "USB", product |-> "", vidPid |-> NoValue, serial |-> NoValue, instance |-> TRUE,
          devnode |-> TRUE, under |-> NoValue, rootHub |-> FALSE, container |-> NoValue, prefix |-> NoValue,
          service |-> NoValue, hardware |-> {}]

MCTrace ==
  "Au" :> [Plain EXCEPT !.product = "vpA", !.vidPid = "vpA", !.serial = "cloned", !.container = "cA"] @@
  "As" :> [Plain EXCEPT !.enumerator = "USBSTOR", !.product = "Ven_A", !.serial = "cloned", !.container = "cA"] @@
  "Bu" :> [Plain EXCEPT !.product = "vpB", !.vidPid = "vpB", !.serial = "cloned", !.container = "cB"] @@
  "Bs" :> [Plain EXCEPT !.enumerator = "USBSTOR", !.product = "Ven_B", !.serial = "cloned", !.container = "cB"] @@
  "H" :> [Plain EXCEPT !.product = "vpH", !.vidPid = "vpH", !.prefix = "6&h", !.service = "usbhub"] @@
  "Du" :> [Plain EXCEPT !.product = "vpD", !.vidPid = "vpD", !.under = "6&h", !.prefix = "7&d",
                        !.container = Placeholder, !.service = "usbstor", !.hardware = {"hwD"}] @@
  "Ds" :> [Plain EXCEPT !.enumerator = "USBSTOR", !.product = "Ven_D", !.under = "7&d"] @@
  "Eu" :> [Plain EXCEPT !.product = "vpD", !.vidPid = "vpD", !.under = "6&h", !.container = Placeholder,
                        !.hardware = {"hwD"}] @@
  "hwD" :> [Plain EXCEPT !.product = "vpD", !.vidPid = "vpD", !.instance = FALSE, !.devnode = FALSE] @@
  "Cu" :> [Plain EXCEPT !.product = "vpC", !.vidPid = "vpC", !.serial = "long", !.container = "cC"] @@
  "Cs" :> [Plain EXCEPT !.enumerator = "USBSTOR", !.product = "Ven_C", !.serial = "cut", !.container = "cC"] @@
  "Cm" :> [Plain EXCEPT !.product = "vpC&mi", !.vidPid = "vpC", !.serial = "long"] @@
  "Fu" :> [Plain EXCEPT !.product = "vpF", !.vidPid = "vpF", !.serial = "next"] @@
  "R" :> [Plain EXCEPT !.product = "ROOT_HUB30", !.rootHub = TRUE, !.prefix = "4&r"] @@
  "Gu" :> [Plain EXCEPT !.product = "vpG", !.vidPid = "vpG", !.serial = "1234", !.under = "4&r", !.prefix = "5&g"] @@
  "Gs" :> [Plain EXCEPT !.enumerator = "SCSI", !.product = "Ven_G", !.serial = "1234", !.under = "5&g"] @@
  "Ku" :> [Plain EXCEPT !.product = "vpK", !.vidPid = "vpK", !.under = "4&r", !.prefix = "6&k"] @@
  "Kh" :> [Plain EXCEPT !.enumerator = "HID", !.product = "vpK", !.vidPid = "vpK", !.under = "6&k"]

MCDeviceOf ==
  ("Au" :> "A" @@ "As" :> "A" @@ "Bu" :> "B" @@ "Bs" :> "B" @@ "H" :> "H" @@ "Du" :> "D" @@ "Ds" :> "D" @@
   "Eu" :> "E" @@ "hwD" :> "E" @@ "Cu" :> "C" @@ "Cs" :> "C" @@ "Cm" :> "C" @@ "Fu" :> "F" @@ "R" :> "R" @@
   "Gu" :> "G" @@ "Gs" :> "G" @@ "Ku" :> "K" @@ "Kh" :> "K")

MCIdentity == DOMAIN MCTrace
MCHosts == {{"Au", "As", "Bu", "Bs"}, {"H", "Du", "Ds", "Eu", "hwD"}, {"Cu", "Cs", "Cm", "Fu"},
            {"R", "Gu", "Gs", "Ku", "Kh"}, {"Au", "As", "Bu", "Eu", "hwD", "Cs"}}
MCTruncates == {<<"cut", "long">>, <<"cut", "next">>}
MCBefore ==
  ("Ds" :> 1 @@ "As" :> 2 @@ "Bu" :> 3 @@ "Au" :> 4 @@ "Bs" :> 5 @@ "H" :> 6 @@ "Eu" :> 7 @@ "Du" :> 8 @@
   "hwD" :> 9 @@ "Cm" :> 10 @@ "Cs" :> 11 @@ "Cu" :> 12 @@ "Fu" :> 13 @@ "R" :> 14 @@ "Kh" :> 15 @@ "Gs" :> 16 @@
   "Gu" :> 17 @@ "Ku" :> 18)

\* The keys of each device of these hosts are joined by some route.
ASSUME HostsAreJoined == Joined
=============================================================================
