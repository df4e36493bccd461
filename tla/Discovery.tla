------------------------------ MODULE Discovery ------------------------------
(***************************************************************************)
(* internal/evidence/locate.go: what a run finds in a collection, and what   *)
(* it says of everything it looked for and did not take.  The evidence does  *)
(* not change while it is looked at.                                         *)
(*                                                                         *)
(* Directories several levels down are one component: "config" stands for    *)
(* System32\config.  A name is given its extension, the name it is equal to  *)
(* but for its case, and its place in the order names sort in.               *)
(***************************************************************************)
EXTENDS Boundary, FiniteSets

CONSTANTS
  EvidenceRoot,   \* -evidence
  Outputs,        \* what -output may be
  Trees,          \* the file systems
  Accessors,      \* the directories of uploads\ that are looked in
  MachineHives,   \* machineHives
  ShortcutDirs,   \* RecentDirs: [context, path]
  LogsOf,         \* the names of a hive's transaction logs
  ExtensionOf, Folded, Rank

VARIABLES tree,     \* the file system: what is at each path
          stage,    \* what runs next
          root,     \* the boundary's root
          output,   \* -output
          volume,   \* the volume being looked at
          volumes,  \* those still to be looked at
          set       \* the Set so far

vars == <<tree, stage, root, output, volume, volumes, set>>

Say(found, missing, failed, collisions) ==
  [found |-> found, missing |-> missing, failed |-> failed, collisions |-> collisions]

Nothing == Say({}, {}, {}, {})
Together(S) == Say(UNION {s.found : s \in S}, UNION {s.missing : s \in S},
                   UNION {s.failed : s \in S}, UNION {s.collisions : s \in S})

Missing(kind, path) == Say({}, {[kind |-> kind, path |-> path]}, {}, {})
Failed(kind, path, why) == Say({}, {}, {[kind |-> kind, path |-> path, why |-> why]}, {})
Artefact(kind, path, logs, context) ==
  Say({[kind |-> kind, path |-> path, logs |-> logs, context |-> context]}, {}, {}, {})

\* admit: what is taken where the path is inside, or the refusal.
Admit(kind, path, taken) ==
  IF Contains(tree, root, path) THEN taken ELSE Failed(kind, path, "boundary_refused")

Init ==
  /\ tree \in Trees /\ output \in Outputs
  /\ stage = "start" /\ root = NoPath /\ volume = NoPath /\ volumes = {} /\ set = Nothing

-----------------------------------------------------------------------------
(* Names.                                                                   *)

\* Mutant: a directory that cannot be read is one that does not hold the name.
ResolveAsAbsent(kind, dir, name) ==
  LET direct == Append(dir, name)
      matches == {n \in Entries(tree, dir) : ~EntryIsDir(tree, dir, n) /\ Folded[n] = name}
  IN  IF Stat(tree, direct) = "file" THEN [outcome |-> "resolved", path |-> direct, said |-> Nothing]
      ELSE IF ReadDir(tree, dir) # "ok" \/ matches = {}
      THEN [outcome |-> "absent", path |-> NoPath, said |-> Nothing]
      ELSE LET first == CHOOSE n \in matches : \A m \in matches : Rank[n] <= Rank[m]
           IN  [outcome |-> "resolved", path |-> Append(dir, first), said |-> Nothing]

\* resolveInsensitive.
Resolve(kind, dir, name) ==
  LET direct == Append(dir, name)
      matches == {n \in Entries(tree, dir) : ~EntryIsDir(tree, dir, n) /\ Folded[n] = name}
      Unread == [outcome |-> "unreadable", path |-> NoPath,
                 said |-> Failed(kind, dir, "unreadable")]
      Absent == [outcome |-> "absent", path |-> NoPath, said |-> Nothing]
      first == CHOOSE n \in matches : \A m \in matches : Rank[n] <= Rank[m]
      Collided == Say({}, {}, {}, {[dir |-> dir, names |-> matches]})
  IN  IF Stat(tree, direct) = "file" THEN [outcome |-> "resolved", path |-> direct, said |-> Nothing]
      ELSE IF Stat(tree, dir) = "absent" THEN Absent
      ELSE IF Stat(tree, dir) # "dir" \/ ReadDir(tree, dir) # "ok" THEN Unread
      ELSE IF matches = {} THEN Absent
      ELSE [outcome |-> "resolved", path |-> Append(dir, first),
            said |-> IF Cardinality(matches) > 1 THEN Collided ELSE Nothing]

\* Mutant: the logs beside a hive that was admitted are taken with it.
LogsUnchecked(dir, name) ==
  {[paths |-> IF r.outcome = "resolved" THEN {r.path} ELSE {}, said |-> r.said] :
     r \in {Resolve("TRANSACTION_LOG", dir, n) : n \in LogsOf[name]}}

\* transactionLogs.
TransactionLogs(dir, name) ==
  {IF r.outcome # "resolved" THEN [paths |-> {}, said |-> r.said]
   ELSE IF Contains(tree, root, r.path) THEN [paths |-> {r.path}, said |-> r.said]
   ELSE [paths |-> {},
         said |-> Together({r.said, Failed("TRANSACTION_LOG", r.path, "boundary_refused")})] :
     r \in {Resolve("TRANSACTION_LOG", dir, n) : n \in LogsOf[name]}}

\* A hive by its name, with its logs, or what ifAbsent says where it is absent.
Hive(kind, dir, name, ifAbsent) ==
  LET r == Resolve(kind, dir, name)
      logs == TransactionLogs(dir, name)
      paths == UNION {l.paths : l \in logs}
  IN  IF r.outcome = "absent" THEN ifAbsent
      ELSE IF r.outcome = "unreadable" THEN r.said
      ELSE Together({r.said, Admit(kind, r.path, Together(
             {Artefact(kind, r.path, paths, "")} \cup {l.said : l \in logs}))})

-----------------------------------------------------------------------------
(* Directories.                                                             *)

\* Mutant: a directory is not admitted before what it holds.
EnterUnchecked(kind, dir, contents) ==
  IF ReadDir(tree, dir) = "ok" THEN contents
  ELSE IF ReadDir(tree, dir) = "absent" THEN Missing(kind, dir)
  ELSE Together({Failed(kind, dir, "unreadable"), Missing(kind, dir)})

\* A directory before its contents, which are looked at only where it is inside.
Enter(kind, dir, contents) ==
  IF Stat(tree, dir) \in {"dir", "file"} /\ ~Contains(tree, root, dir)
  THEN Failed(kind, dir, "boundary_refused")
  ELSE IF ReadDir(tree, dir) = "ok" THEN contents
  ELSE IF ReadDir(tree, dir) = "absent" THEN Missing(kind, dir)
  ELSE Together({Failed(kind, dir, "unreadable"), Missing(kind, dir)})

\* The files of a directory that have an extension.
FilesOf(kind, dir, extension) ==
  Together({Admit(kind, Append(dir, n), Artefact(kind, Append(dir, n), {}, "")) :
              n \in {n \in Entries(tree, dir) : ~EntryIsDir(tree, dir, n) /\ ExtensionOf[n] = extension}})

ShortcutKind(name) ==
  CASE ExtensionOf[name] = "lnk" -> "LNK"
    [] ExtensionOf[name] \in {"automaticDestinations-ms", "customDestinations-ms"} -> "JUMPLIST"
    [] OTHER -> ""

\* Mutant: every file below a shortcut directory is a shortcut.
VisitAll(context, path, name) == Admit("LNK", path, Artefact(ShortcutKind(name), path, {}, context))

Visit(context, path, name) ==
  Admit("LNK", path, IF ShortcutKind(name) = "" THEN Nothing
                     ELSE Artefact(ShortcutKind(name), path, {}, context))

\* filepath.WalkDir below a shortcut directory.  It does not descend a reparse
\* point, the directory it was started at included.
Walk(context, start) ==
  LET at == Lands(tree, start)
      named(q) == start \o SubSeq(q, Len(at) + 1, Len(q))
      entered == {q \in DOMAIN tree : /\ Within(at, q) /\ EntryAt(tree, q) \in {"dir", "denied"}
                                      /\ \A k \in Len(at)..(Len(q) - 1) : EntryAt(tree, Upto(q, k)) = "dir"}
  IN  IF ~EntryIsDir(tree, Upto(start, Len(start) - 1), start[Len(start)])
      THEN Visit(context, start, start[Len(start)])
      ELSE Together({IF EntryAt(tree, q) = "denied" THEN Failed("LNK", named(q), "walk_failed")
                     ELSE Together({Visit(context, Append(named(q), n), n) :
                            n \in {n \in Entries(tree, q) : ~EntryIsDir(tree, q, n)}}) : q \in entered})

\* collectFileActivity.
FileActivity(profileDir) ==
  Together({LET dir == profileDir \o d.path IN
            IF Stat(tree, dir) = "error" THEN Failed("LNK", dir, "unreadable")
            ELSE IF Stat(tree, dir) = "dir" THEN Admit("LNK", dir, Walk(d.context, dir))
            ELSE Nothing : d \in ShortcutDirs})

-----------------------------------------------------------------------------
(* Volumes.                                                                 *)

\* The volumes below dir, by the Windows directory each has.
VolumesIn(dir) ==
  LET candidates == {Append(dir, n) : n \in {n \in Entries(tree, dir) :
                       EntryIsDir(tree, dir, n) /\ Stat(tree, dir \o <<n, "Windows">>) = "dir"}}
  IN  [volumes |-> {c \in candidates : Contains(tree, root, c)},
       said |-> Together({Admit("VOLUME", c, Nothing) : c \in candidates})]

\* detectVolumes: a volume, else what a collector made, else a directory for each.
DetectVolumes ==
  LET plain == Stat(tree, Append(root, "Windows")) = "dir"
      uploads == {VolumesIn(root \o <<"uploads", a>>) :
                    a \in {a \in Accessors : ReadDir(tree, root \o <<"uploads", a>>) = "ok"}}
      collected == UNION {u.volumes : u \in uploads}
      folders == VolumesIn(root)
      saidOfUploads == Together({u.said : u \in uploads})
  IN  IF plain THEN [volumes |-> {root}, said |-> Nothing]
      ELSE IF collected # {} THEN [volumes |-> collected, said |-> saidOfUploads]
      ELSE IF ReadDir(tree, root) # "ok" THEN [volumes |-> {}, said |-> saidOfUploads]
      ELSE [volumes |-> folders.volumes, said |-> Together({saidOfUploads, folders.said})]

-----------------------------------------------------------------------------
(* The steps.                                                               *)

\* run: the boundary, and the output tested against it before anything is made.
Begin ==
  /\ stage = "start"
  /\ root' = BoundaryRoot(tree, EvidenceRoot)
  /\ stage' = IF root' = NoPath \/ RefuseWrite(tree, root', output) THEN "refused" ELSE "locate"
  /\ UNCHANGED <<tree, output, volume, volumes, set>>

Locate ==
  /\ stage = "locate"
  /\ set' = DetectVolumes.said
  /\ volumes' = DetectVolumes.volumes
  /\ stage' = IF volumes' = {} THEN "refused" ELSE "next"
  /\ UNCHANGED <<tree, root, output, volume>>

NextVolume ==
  /\ stage = "next" /\ volumes # {}
  /\ volume' \in volumes /\ volumes' = volumes \ {volume'}
  /\ stage' = "machine"
  /\ UNCHANGED <<tree, root, output, set>>

Collect(here, what, next) ==
  /\ stage = here /\ stage' = next
  /\ set' = Together({set, what})
  /\ UNCHANGED <<tree, root, output, volume, volumes>>

Windows(name) == volume \o <<"Windows", name>>

MachineHivesFound == Together({
  Hive(kind, Windows("config"), kind, Missing(kind, Append(Windows("config"), kind))) :
    kind \in MachineHives})

CollectMachineHives == Collect("machine", MachineHivesFound, "users")

UserHivesOf(profileDir) == Together({
  Hive("NTUSER", profileDir, "NTUSER.DAT", Nothing),
  Hive("USRCLASS", Append(profileDir, "AppData"), "UsrClass.dat", Nothing),
  FileActivity(profileDir)})

CollectUserHives ==
  LET users == Append(volume, "Users") IN
  Collect("users",
    Enter("NTUSER", users, Together({UserHivesOf(Append(users, p)) :
                                       p \in {p \in Entries(tree, users) : EntryIsDir(tree, users, p)}})),
    "logs")

CollectEventLogs == Collect("logs",
  Enter("EVTX", Windows("Logs"), FilesOf("EVTX", Windows("Logs"), "evtx")),
  "setupapi")

\* The current log by its name, then the copies it was rotated into.
SetupAPILogs ==
  LET inf == Windows("INF")
      current == Resolve("SETUPAPI", inf, "setupapi.dev.log")
  IN  IF Stat(tree, inf) \in {"dir", "file"} /\ ~Contains(tree, root, inf)
      THEN Failed("SETUPAPI", inf, "boundary_refused")
      ELSE Together({
        IF current.outcome = "absent" THEN Missing("SETUPAPI", Append(inf, "setupapi.dev.log"))
        ELSE IF current.outcome = "unreadable" THEN current.said
        ELSE Together({current.said, Admit("SETUPAPI", current.path,
                                           Artefact("SETUPAPI", current.path, {}, ""))}),
        IF ReadDir(tree, inf) = "ok" THEN FilesOf("SETUPAPI_ROTATED", inf, "rotated")
        ELSE IF ReadDir(tree, inf) = "error" THEN Failed("SETUPAPI_ROTATED", inf, "unreadable")
        ELSE Nothing})

CollectSetupAPI == Collect("setupapi", SetupAPILogs, "prefetch")

CollectPrefetch == Collect("prefetch",
  Enter("PREFETCH", Windows("Prefetch"),
        FilesOf("PREFETCH", Windows("Prefetch"), "pf")),
  "next")

Next == Begin \/ Locate \/ NextVolume \/ CollectMachineHives \/ CollectUserHives
          \/ CollectEventLogs \/ CollectSetupAPI \/ CollectPrefetch

Spec == Init /\ [][Next]_vars

-----------------------------------------------------------------------------
(* Properties.                                                              *)

Done == stage = "next" /\ volumes = {}

\* The stages, and every artefact one of the kinds a run reads.
TypeOK ==
  /\ stage \in {"start", "refused", "locate", "next", "machine", "users", "logs", "setupapi", "prefetch"}
  /\ stage \notin {"start", "refused", "locate", "next"} => volume # NoPath
  /\ \A a \in set.found : a.path # NoPath /\ a.kind # ""

OpenedPaths == UNION {{a.path} \cup a.logs : a \in set.found}

\* No path a run will open leads out of the evidence, whatever reparse points it
\* passes through: each was admitted, a hive's transaction logs included.
EveryPathAdmitted == \A p \in OpenedPaths : Contains(tree, root, p)

\* A path that is admitted is one the system opens inside the evidence, through
\* junctions that cross junctions too.
AdmittedLandsInside ==
  stage = "locate" => \A p \in DOMAIN tree : Contains(tree, root, p) => Within(root, Lands(tree, p))

\* Nothing a run writes lands in the evidence, though the directory it will
\* write into is not there yet when it is asked about.
NothingWrittenInside == stage \notin {"start", "refused"} => ~Within(root, Lands(tree, output))

\* A directory on the way to p was read, inside the evidence, and does not hold it.
TrulyAbsent(p) == \E k \in 1..Len(p) :
  /\ ReadDir(tree, Upto(p, k - 1)) = "ok" /\ p[k] \notin Entries(tree, Upto(p, k - 1))
  /\ k > Len(root) => Within(root, Lands(tree, Upto(p, k - 1)))

SaidOf(p) == \E f \in set.failed : Within(f.path, p)

\* The files a run exists to read, in the places it looks for volumes.
Expected ==
  LET below(p) == SubSeq(p, Len(root) + 1, Len(p))
      volumesOf == {p \in DOMAIN tree :
        /\ Within(root, p) /\ EntryAt(tree, Append(p, "Windows")) # "absent"
        /\ Len(below(p)) = 3 => below(p)[1] = "uploads"
        /\ Len(below(p)) \in {0, 1, 3}}
      last(p) == p[Len(p)]
      roles == {"SYSTEM", "NTUSER.DAT", "UsrClass.dat", "setupapi.dev.log"}
      kinds == {"evtx", "rotated", "pf", "lnk", "automaticDestinations-ms"}
      besideHive(p) == \E a \in set.found :
        LET dir == Upto(a.path, Len(a.path) - 1)  name == Folded[last(a.path)] IN
        /\ name \in DOMAIN LogsOf /\ last(p) \in LogsOf[name] /\ p = Append(dir, last(p))
  IN  {p \in DOMAIN tree : /\ \E v \in volumesOf, d \in {"Windows", "Users"} : Within(Append(v, d), p)
                           /\ last(p) \in roles \/ ExtensionOf[last(p)] \in kinds \/ besideHive(p)}

\* There is no directory for p to be in: on its way a file has a directory's place, or a
\* reparse point leads to nothing.
DeadEnd(p) == \E k \in (Len(root) + 1)..(Len(p) - 1) : Stat(tree, Upto(p, k)) \in {"absent", "file"}

EntryIsLink(p) == EntryAt(tree, Append(Lands(tree, Upto(p, Len(p) - 1)), p[Len(p)])) = "link"

\* Where the code goes on without a word, so that p is not looked for: a collector's
\* directory that cannot be listed (locate.go:234), a candidate for a volume that is a
\* reparse point or whose Windows directory is not found (238, 242, 268, 272), a profile
\* that is a reparse point (345), a shortcut directory that is one, or that holds one (440).
PassedOver(p) == \E k \in (Len(root) + 1)..(Len(p) - 1) :
  LET dir == Upto(p, k)
      isAccessor == \E a \in Accessors : dir = root \o <<"uploads", a>>
      isCandidate == p[k + 1] \in {"Windows", "Users"}
      isProfile == p[k - 1] = "Users"
      inShortcuts == \E d \in ShortcutDirs, j \in (Len(root) + 1)..k :
        Upto(dir, j) = Upto(p, j - Len(d.path)) \o d.path
  IN  \/ isAccessor /\ ReadDir(tree, dir) # "ok"
      \/ isCandidate /\ (EntryIsLink(dir) \/ Stat(tree, Append(dir, "Windows")) # "dir")
      \/ (isProfile \/ inShortcuts) /\ EntryIsLink(dir)

\* The claim of locate.go (118-131), which the entries passed over contradict, so that no run
\* checks it: a silence means there was nothing. A file a run exists to read is taken, or a
\* failure names it or a directory above it, or it is not in the collection.
SilenceIsAbsence ==
  Done => \A p \in Expected : p \in OpenedPaths \/ SaidOf(p) \/ TrulyAbsent(p)

\* What the code does: a file a run exists to read is taken, or a failure names it or a
\* directory above it, or it is not there, or its way is one of those that are passed over.
SilenceIsAccountedFor ==
  Done => \A p \in Expected :
    p \in OpenedPaths \/ SaidOf(p) \/ TrulyAbsent(p) \/ DeadEnd(p) \/ PassedOver(p)

\* What is said to be missing is not there, or could not be looked for.
MissingIsNotThere ==
  \A m \in set.missing :
    LET isDirectory == m.kind \in {"NTUSER", "EVTX", "PREFETCH"}
        content == IF isDirectory THEN Append(m.path, "content") ELSE m.path
    IN  TrulyAbsent(m.path) \/ DeadEnd(content) \/ SaidOf(m.path)

\* The boundary holds both ways: what is admitted is read inside the evidence, and what is
\* written lands outside it (boundary.go).
BoundaryHolds == AdmittedLandsInside /\ NothingWrittenInside

\* Discovery answers for the collection: a silence is an absence, a dead end, or one of the
\* entries it passes over, and what is called missing is missing (locate.go).
CollectionAnswered == TypeOK /\ SilenceIsAccountedFor /\ MissingIsNotThere
=============================================================================
