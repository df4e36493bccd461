--------------------------- MODULE EvidenceProofs ---------------------------
(***************************************************************************)
(* What a run takes from the evidence and what reading it may cost.         *)
(*                                                                         *)
(* For every file system, root and set of names: nothing is taken that the   *)
(* boundary did not admit.  What each collector says is put together from     *)
(* admissions and refusals, and putting together keeps what holds of each.   *)
(*                                                                         *)
(* For every jump list, length and two bounds: what its streams make the     *)
(* program allocate stays within the budget of a file.                       *)
(***************************************************************************)
EXTENDS Discovery, JumpList, TLAPS

\* Every path of every artefact said to be found in s was admitted.
Admitted(s) == \A a \in s.found :
  Contains(tree, root, a.path) /\ \A l \in a.logs : Contains(tree, root, l)

\* What is found before the boundary is fixed is nothing.
IInv == Admitted(set) /\ (stage = "start" => set.found = {})

-----------------------------------------------------------------------------
\* What says nothing of artefacts is admitted.
LEMMA SaysNoArtefact ==
  /\ Admitted(Nothing)
  /\ \A kind, path : Admitted(Missing(kind, path))
  /\ \A kind, path, why : Admitted(Failed(kind, path, why))
  /\ \A c : Admitted(Say({}, {}, {}, c))
BY DEF Admitted, Nothing, Missing, Failed, Say

\* Putting together keeps what is admitted.
LEMMA TogetherAdmitted ==
  ASSUME NEW S, \A s \in S : Admitted(s)
  PROVE  Admitted(Together(S))
BY DEF Admitted, Together, Say

\* Of two, of an admission.
LEMMA TwoAdmitted ==
  ASSUME NEW s, NEW t, Admitted(s), Admitted(t)
  PROVE  Admitted(Together({s, t}))
BY TogetherAdmitted

\* An artefact whose path and logs are inside.
LEMMA ArtefactAdmitted ==
  ASSUME NEW kind, NEW path, NEW logs, NEW context,
         Contains(tree, root, path), \A l \in logs : Contains(tree, root, l)
  PROVE  Admitted(Artefact(kind, path, logs, context))
BY DEF Admitted, Artefact, Say

\* What is taken only where the path is inside is admitted if it is so there.
LEMMA AdmitAdmitted ==
  ASSUME NEW kind, NEW path, NEW taken, Contains(tree, root, path) => Admitted(taken)
  PROVE  Admitted(Admit(kind, path, taken))
BY SaysNoArtefact DEF Admit

\* What resolving a name says is of no artefact.
LEMMA ResolveAdmitted ==
  ASSUME NEW kind, NEW dir, NEW name
  PROVE  Admitted(Resolve(kind, dir, name).said)
BY SaysNoArtefact, Zenon DEF Resolve

\* A hive's logs were each admitted.
LEMMA LogsAdmitted ==
  ASSUME NEW dir, NEW name, NEW l \in TransactionLogs(dir, name)
  PROVE  Admitted(l.said) /\ \A p \in l.paths : Contains(tree, root, p)
<1>1. PICK r \in {Resolve("TRANSACTION_LOG", dir, n) : n \in LogsOf[name]} :
        l = IF r.outcome # "resolved" THEN [paths |-> {}, said |-> r.said]
            ELSE IF Contains(tree, root, r.path) THEN [paths |-> {r.path}, said |-> r.said]
            ELSE [paths |-> {},
                  said |-> Together({r.said, Failed("TRANSACTION_LOG", r.path, "boundary_refused")})]
  BY DEF TransactionLogs
<1>2. Admitted(r.said)
  BY ResolveAdmitted
<1>3. Admitted(Together({r.said, Failed("TRANSACTION_LOG", r.path, "boundary_refused")}))
  BY <1>2, TwoAdmitted, SaysNoArtefact
<1> QED BY <1>1, <1>2, <1>3

\* A hive and its logs.
LEMMA HiveAdmitted ==
  ASSUME NEW kind, NEW dir, NEW name, NEW ifAbsent, Admitted(ifAbsent)
  PROVE  Admitted(Hive(kind, dir, name, ifAbsent))
<1> DEFINE r == Resolve(kind, dir, name)
           logs == TransactionLogs(dir, name)
           paths == UNION {l.paths : l \in logs}
           taken == Together({Artefact(kind, r.path, paths, "")} \cup {l.said : l \in logs})
<1>1. \A p \in paths : Contains(tree, root, p)
  BY LogsAdmitted
<1>2. Contains(tree, root, r.path) => Admitted(taken)
  <2> SUFFICES ASSUME Contains(tree, root, r.path) PROVE Admitted(taken)
    OBVIOUS
  <2>1. Admitted(Artefact(kind, r.path, paths, ""))
    BY <1>1, ArtefactAdmitted
  <2>2. \A s \in {Artefact(kind, r.path, paths, "")} \cup {l.said : l \in logs} : Admitted(s)
    BY <2>1, LogsAdmitted
  <2> QED BY <2>2, TogetherAdmitted
<1>3. Admitted(Admit(kind, r.path, taken))
  BY <1>2, AdmitAdmitted
<1>4. Admitted(r.said)
  BY ResolveAdmitted
<1>5. Admitted(Together({r.said, Admit(kind, r.path, taken)}))
  BY <1>3, <1>4, TwoAdmitted
<1> HIDE DEF taken
<1>7. Hive(kind, dir, name, ifAbsent) =
        IF r.outcome = "absent" THEN ifAbsent
        ELSE IF r.outcome = "unreadable" THEN r.said
        ELSE Together({r.said, Admit(kind, r.path, taken)})
  BY DEF Hive, taken
<1> QED BY <1>4, <1>5, <1>7

\* A directory entered, with what it holds.
LEMMA EnterAdmitted ==
  ASSUME NEW kind, NEW dir, NEW contents, Admitted(contents)
  PROVE  Admitted(Enter(kind, dir, contents))
<1>2. Admitted(Together({Failed(kind, dir, "unreadable"), Missing(kind, dir)}))
  BY SaysNoArtefact, TwoAdmitted
<1> QED BY <1>2, SaysNoArtefact DEF Enter

\* The files of a directory.
LEMMA FilesAdmitted ==
  ASSUME NEW kind, NEW dir, NEW extension
  PROVE  Admitted(FilesOf(kind, dir, extension))
<1>1. \A n : Admitted(Admit(kind, Append(dir, n), Artefact(kind, Append(dir, n), {}, "")))
  BY ArtefactAdmitted, AdmitAdmitted
<1> QED BY <1>1, TogetherAdmitted DEF FilesOf

\* What a walk visits is a path of its own, admitted or refused.
LEMMA VisitAdmitted ==
  ASSUME NEW context, NEW path, NEW name
  PROVE  Admitted(Visit(context, path, name))
BY SaysNoArtefact, ArtefactAdmitted, AdmitAdmitted DEF Visit

\* However deep it goes, a walk finds what was admitted.
LEMMA WalkAdmitted ==
  ASSUME NEW context, NEW start
  PROVE  Admitted(Walk(context, start))
<1> DEFINE top == Lands(tree, start)
           named(q) == start \o SubSeq(q, Len(top) + 1, Len(q))
           files(q) == Together({Visit(context, Append(named(q), n), n) :
                         n \in {n \in Entries(tree, q) : ~EntryIsDir(tree, q, n)}})
<1>1. \A q : Admitted(files(q))
  BY VisitAdmitted, TogetherAdmitted
<1> HIDE DEF files
<1>2. \A q : Admitted(IF EntryAt(tree, q) = "denied" THEN Failed("LNK", named(q), "walk_failed")
                      ELSE files(q))
  BY <1>1, SaysNoArtefact
<1>3. \A Q : Admitted(Together({IF EntryAt(tree, q) = "denied" THEN Failed("LNK", named(q), "walk_failed")
                                ELSE files(q) : q \in Q}))
  BY <1>2, TogetherAdmitted
<1> QED BY <1>3, VisitAdmitted DEF Walk, files

\* A profile's shortcut directories.
LEMMA FileActivityAdmitted ==
  ASSUME NEW profileDir
  PROVE  Admitted(FileActivity(profileDir))
<1> DEFINE dir(d) == profileDir \o d.path
           said(d) == IF Stat(tree, dir(d)) = "error" THEN Failed("LNK", dir(d), "unreadable")
                      ELSE IF Stat(tree, dir(d)) = "dir"
                      THEN Admit("LNK", dir(d), Walk(d.context, dir(d)))
                      ELSE Nothing
<1>1. \A d : Admitted(said(d))
  BY SaysNoArtefact, WalkAdmitted, AdmitAdmitted
<1> HIDE DEF said
<1>2. Admitted(Together({said(d) : d \in ShortcutDirs}))
  BY <1>1, TogetherAdmitted
<1> QED BY <1>2 DEF FileActivity, said

\* A profile: its two hives and its shortcuts.
LEMMA UserHivesAdmitted ==
  ASSUME NEW profileDir
  PROVE  Admitted(UserHivesOf(profileDir))
<1>1. /\ Admitted(Hive("NTUSER", profileDir, "NTUSER.DAT", Nothing))
      /\ Admitted(Hive("USRCLASS", Append(profileDir, "AppData"), "UsrClass.dat", Nothing))
      /\ Admitted(FileActivity(profileDir))
  BY HiveAdmitted, FileActivityAdmitted, SaysNoArtefact
<1>2. \A s \in {Hive("NTUSER", profileDir, "NTUSER.DAT", Nothing),
                Hive("USRCLASS", Append(profileDir, "AppData"), "UsrClass.dat", Nothing),
                FileActivity(profileDir)} : Admitted(s)
  BY <1>1
<1> QED BY <1>2, TogetherAdmitted DEF UserHivesOf

\* The installation logs.
LEMMA SetupAPIAdmitted == Admitted(SetupAPILogs)
<1> DEFINE inf == Windows("INF")
           current == Resolve("SETUPAPI", inf, "setupapi.dev.log")
           taken == Together({current.said, Admit("SETUPAPI", current.path,
                                              Artefact("SETUPAPI", current.path, {}, ""))})
           first == IF current.outcome = "absent"
                    THEN Missing("SETUPAPI", Append(inf, "setupapi.dev.log"))
                    ELSE IF current.outcome = "unreadable" THEN current.said ELSE taken
           rest == IF ReadDir(tree, inf) = "ok" THEN FilesOf("SETUPAPI_ROTATED", inf, "rotated")
                   ELSE IF ReadDir(tree, inf) = "error"
                   THEN Failed("SETUPAPI_ROTATED", inf, "unreadable")
                   ELSE Nothing
<1>1. Admitted(current.said)
  BY ResolveAdmitted
<1>2. Admitted(Admit("SETUPAPI", current.path, Artefact("SETUPAPI", current.path, {}, "")))
  BY ArtefactAdmitted, AdmitAdmitted
<1>3. Admitted(taken)
  BY <1>1, <1>2, TwoAdmitted
<1> HIDE DEF taken
<1>4. Admitted(first)
  BY <1>1, <1>3, SaysNoArtefact
<1>5. Admitted(rest)
  BY FilesAdmitted, SaysNoArtefact
<1> HIDE DEF first, rest
<1>6. Admitted(Together({first, rest}))
  BY <1>4, <1>5, TwoAdmitted
<1> QED BY <1>6, SaysNoArtefact DEF SetupAPILogs, first, rest, taken

\* What deciding on the volumes says is of refusals.
LEMMA VolumesSayNothing ==
  /\ DetectVolumes.said.found = {}
  /\ Admitted(DetectVolumes.said)
<1>1. \A c : Admit("VOLUME", c, Nothing).found = {}
  BY DEF Admit, Nothing, Failed, Say
<1>2. \A S : (\A s \in S : s.found = {}) => Together(S).found = {}
  BY DEF Together, Say
<1>3. \A dir : VolumesIn(dir).said.found = {}
  BY <1>1, <1>2, Zenon DEF VolumesIn
<1> DEFINE uploads == {VolumesIn(root \o <<"uploads", a>>) :
                         a \in {a \in Accessors : ReadDir(tree, root \o <<"uploads", a>>) = "ok"}}
           said == Together({u.said : u \in uploads})
<1>4. said.found = {}
  BY <1>2, <1>3
<1> HIDE DEF said
<1>5. Together({said, VolumesIn(root).said}).found = {}
  BY <1>2, <1>3, <1>4
<1>6. DetectVolumes.said \in {Nothing, said, Together({said, VolumesIn(root).said})}
  BY Zenon DEF DetectVolumes, said
<1>7. DetectVolumes.said.found = {}
  BY <1>4, <1>5, <1>6 DEF Nothing, Say
<1> QED BY <1>7 DEF Admitted
-----------------------------------------------------------------------------
\* A set that grows by what is admitted stays admitted: the boundary and the file
\* system it was drawn on do not change under it.
LEMMA CollectKeeps ==
  ASSUME IInv, tree' = tree, root' = root, NEW what, Admitted(what), set' = Together({set, what}),
         stage' # "start"
  PROVE  IInv'
<1>1. Admitted(Together({set, what}))
  BY TwoAdmitted DEF IInv
<1>2. Admitted(set)'
  BY <1>1 DEF Admitted
<1> QED BY <1>2 DEF IInv

\* Nothing is found before the boundary is fixed.
LEMMA InitEstablishes == Init => IInv
BY SaysNoArtefact DEF Init, IInv, Nothing, Say

\* Every stage adds what was admitted, or adds nothing.
LEMMA StepKeeps ==
  ASSUME IInv, [Next]_vars
  PROVE  IInv'
<1>1. CASE Begin
  <2>1. stage = "start" /\ set' = set /\ set.found = {} /\ stage' # "start"
    BY <1>1 DEF Begin, IInv
  <2> QED BY <2>1 DEF IInv, Admitted
<1>2. CASE Locate
  <2>1. set' = DetectVolumes.said /\ stage' # "start"
    BY <1>2, Zenon DEF Locate
  <2>2. set'.found = {}
    BY <2>1, VolumesSayNothing
  <2> QED BY <2>2 DEF IInv, Admitted
<1>3. CASE NextVolume
  BY <1>3 DEF NextVolume, IInv, Admitted
<1>4. CASE CollectMachineHives
  <2> DEFINE hive(kind) == Hive(kind, Windows("config"), kind,
                                Missing(kind, Append(Windows("config"), kind)))
  <2>1. \A kind : Admitted(hive(kind))
    BY HiveAdmitted, SaysNoArtefact
  <2> HIDE DEF hive
  <2>2. Admitted(Together({hive(kind) : kind \in MachineHives}))
    BY <2>1, TogetherAdmitted
  <2>3. Admitted(MachineHivesFound)
    BY <2>2 DEF MachineHivesFound, hive
  <2> QED BY <1>4, <2>3, CollectKeeps DEF CollectMachineHives, Collect
<1>5. CASE CollectUserHives
  <2> DEFINE users == Append(volume, "Users")
             said == {UserHivesOf(Append(users, p)) :
                        p \in {p \in Entries(tree, users) : EntryIsDir(tree, users, p)}}
  <2>1. Admitted(Together(said))
    BY UserHivesAdmitted, TogetherAdmitted
  <2> HIDE DEF said
  <2>2. Admitted(Enter("NTUSER", users, Together(said)))
    BY <2>1, EnterAdmitted
  <2>3. /\ set' = Together({set, Enter("NTUSER", users, Together(said))})
        /\ tree' = tree /\ root' = root /\ stage' # "start"
    BY <1>5 DEF CollectUserHives, Collect, said
  <2> QED BY <2>2, <2>3, CollectKeeps
<1>6. CASE CollectEventLogs
  <2>1. Admitted(Enter("EVTX", Windows("Logs"), FilesOf("EVTX", Windows("Logs"), "evtx")))
    BY FilesAdmitted, EnterAdmitted
  <2> QED BY <1>6, <2>1, CollectKeeps DEF CollectEventLogs, Collect
<1>7. CASE CollectSetupAPI
  BY <1>7, SetupAPIAdmitted, CollectKeeps DEF CollectSetupAPI, Collect
<1>8. CASE CollectPrefetch
  <2>1. Admitted(Enter("PREFETCH", Windows("Prefetch"),
                       FilesOf("PREFETCH", Windows("Prefetch"), "pf")))
    BY FilesAdmitted, EnterAdmitted
  <2> QED BY <1>8, <2>1, CollectKeeps DEF CollectPrefetch, Collect
<1>9. CASE UNCHANGED vars
  BY <1>9 DEF vars, IInv, Admitted
<1> QED BY <1>1, <1>2, <1>3, <1>4, <1>5, <1>6, <1>7, <1>8, <1>9 DEF Next

\* Whatever reparse points, denied directories and names a collection holds, every
\* path a run takes from it, a hive's transaction logs included, was admitted by the
\* boundary it was started with (admit, locate.go:158, and every caller of it).
THEOREM EverythingOpenedWasAdmitted == Spec => []EveryPathAdmitted
<1>1. IInv => EveryPathAdmitted
  BY DEF IInv, Admitted, EveryPathAdmitted, OpenedPaths
<1> QED BY <1>1, InitEstablishes, StepKeeps, PTL DEF Spec

-----------------------------------------------------------------------------
(* The reading of jump lists, among that of the other artefacts.            *)

CONSTANTS Links, CustomFiles, ItemLists, PrefetchFiles, Layouts, JumpLists, FolderTrees, Logs, Lists,
          usbDevices, hostVolumes, Huge
VARIABLES format, whole, file, intact, reading, done

Reader == INSTANCE Artefacts WITH Trees <- FolderTrees

StreamRecord == [name : Int, size : Int, data : Seq(Int)]
Streams == Seq(StreamRecord)

\* The budget, and what it rests on: a size that was added is one that was believed, and
\* the streams are looked at in their order.
Budgeted ==
  /\ streams \in Streams
  /\ at \in Nat \ {0}
  /\ spent \in Nat
  /\ WithinBudget

\* The stream that is looked at is one of the file's, and its size a number.
LEMMA SizeIsNumber == ASSUME Budgeted, Reader!Remaining PROVE streams[at].size \in Int
<1>1. at \in 1 .. Len(streams)
  BY DEF Budgeted, Reader!Remaining, Streams
<1>2. streams[at] \in StreamRecord
  BY <1>1 DEF Budgeted, Streams
<1> QED
  BY <1>2 DEF StreamRecord

\* A size that is believed fits what is left of the budget.
LEMMA BelievedFits ==
  ASSUME Budgeted, Reader!Remaining, ~Reader!Oversized(streams[at].size),
         spent' = spent + streams[at].size
  PROVE  spent' \in Nat /\ spent' <= maxFileBudget
<1>1. streams[at].size \in Int
  BY SizeIsNumber
<1>2. streams[at].size >= 0 /\ spent + streams[at].size <= maxFileBudget
  BY <1>1, BudgetAssumption DEF Reader!Oversized, Budgeted
<1> QED
  BY <1>1, <1>2 DEF Budgeted

\* Opening a file spends nothing.
LEMMA OpenedBudgeted ==
  ASSUME NEW list \in Streams, NEW bytes, Reader!Opened(list, bytes)
  PROVE  Budgeted
  BY BudgetAssumption DEF Reader!Opened, Budgeted, WithinBudget

\* A stream that is not read costs nothing, one that is read fits.
LEMMA StreamKeepsBudget ==
  ASSUME Budgeted, Reader!NextStream
  PROVE  Budgeted'
<1>1. ASSUME Reader!SkipStream \/ Reader!EmptyStream PROVE Budgeted'
  <2>1. streams' = streams /\ spent' = spent
    BY <1>1 DEF Reader!SkipStream, Reader!EmptyStream
  <2>2. at' = at + 1
    BY <1>1 DEF Reader!SkipStream, Reader!EmptyStream, Reader!Next1
  <2> QED
    BY <2>1, <2>2 DEF Budgeted, WithinBudget
<1>2. ASSUME Reader!UnreadableStream PROVE Budgeted'
  <2>1. spent' \in Nat /\ spent' <= maxFileBudget
    BY <1>2, BelievedFits DEF Reader!UnreadableStream
  <2>2. streams' = streams /\ at' = at + 1
    BY <1>2 DEF Reader!UnreadableStream, Reader!Next1
  <2> QED
    BY <2>1, <2>2 DEF Budgeted, WithinBudget
<1>3. ASSUME Reader!ReadDestList \/ Reader!OtherStream \/ Reader!ReadLinkStream PROVE Budgeted'
  <2>1. Reader!ReadingStream(streams[at])
    BY <1>3 DEF Reader!ReadDestList, Reader!OtherStream, Reader!ReadLinkStream
  <2>2. spent' \in Nat /\ spent' <= maxFileBudget
    BY <2>1, BelievedFits DEF Reader!ReadingStream
  <2>3. streams' = streams
    BY <2>1 DEF Reader!ReadingStream
  <2>4. at' = at + 1
    BY <1>3 DEF Reader!ReadDestList, Reader!OtherStream, Reader!ReadLinkStream, Reader!Next1
  <2> QED
    BY <2>2, <2>3, <2>4 DEF Budgeted, WithinBudget
<1>4. ASSUME Reader!Attach PROVE Budgeted'
  BY <1>4 DEF Reader!Attach, Budgeted, WithinBudget
<1> QED
  BY <1>1, <1>2, <1>3, <1>4 DEF Reader!NextStream

\* What reads no stream leaves the budget.
LEMMA UnchangedKeepsBudget == ASSUME Budgeted, UNCHANGED Reader!jumpVars PROVE Budgeted'
  BY DEF Reader!jumpVars, Budgeted, WithinBudget

\* Every kind of artefact but one leaves the reading of jump lists alone.
LEMMA InitBudgeted ==
  ASSUME Reader!JumpListsAssumption, Reader!Init
  PROVE  Budgeted
<1>1. <<>> \in Streams
  BY DEF Streams
<1>2. CASE Reader!Opened(<<>>, 0)
  BY <1>1, <1>2, OpenedBudgeted
<1>3. CASE \E list \in JumpLists : \E bytes \in {0, 20} : Reader!Opened(list, bytes)
  <2>1. PICK list \in JumpLists, bytes \in {0, 20} : Reader!Opened(list, bytes)
    BY <1>3
  <2>2. list \in Streams
    BY DEF Reader!JumpListsAssumption, Streams, StreamRecord
  <2> QED
    BY <2>1, <2>2, OpenedBudgeted
<1>4. Reader!Opened(<<>>, 0) \/ \E list \in JumpLists : \E bytes \in {0, 20} : Reader!Opened(list, bytes)
  BY DEF Reader!Init
<1> QED
  BY <1>2, <1>3, <1>4

\* A step looks at one stream or at none.
LEMMA NextKeepsBudget ==
  ASSUME Budgeted, [Reader!Next]_Reader!vars
  PROVE  Budgeted'
<1>1. Reader!NextStream \/ UNCHANGED Reader!jumpVars
  BY DEF Reader!Next, Reader!vars, Reader!Read, Reader!ReadLink, Reader!ReadCustom, Reader!ReadItems,
         Reader!ReadPrefetch, Reader!ReadLayout, Reader!ReadBags, Reader!ReadLists, Reader!ReadLog,
         Reader!ReadJumpList, Reader!Rest
<1> QED
  BY <1>1, StreamKeepsBudget, UnchangedKeepsBudget

\* Whatever sizes the directory of a jump list declares, in whatever order, what is
\* allocated for its streams stays within the budget of one file (oversized,
\* parseAutomatic).
THEOREM BudgetHolds ==
  ASSUME Reader!JumpListsAssumption
  PROVE  Reader!Spec => []WithinBudget
<1>1. Reader!Init => Budgeted
  BY InitBudgeted
<1>2. Budgeted /\ [Reader!Next]_Reader!vars => Budgeted'
  BY NextKeepsBudget
<1>3. Budgeted => WithinBudget
  BY DEF Budgeted
<1> QED
  BY <1>1, <1>2, <1>3, PTL DEF Reader!Spec
=============================================================================
