---------------------------- MODULE CustodyProofs ----------------------------
(***************************************************************************)
(* For any collection of hives, logs and shortcuts, and any number of       *)
(* changes made to it while it is read: what the case calls verified was    *)
(* read as hashed, a replay claimed is a replay made, nothing that was      *)
(* hashed goes unanswered, and the manifest says what the case says.        *)
(***************************************************************************)
EXTENDS Custody, TLAPS, SequenceTheorems, FiniteSetTheorems

Reading == {"hives", "events", "links"}
Over == {"done", "failed"}

Sourced(f) == sources[f] # NoSource
Warned(f) == \E w \in warnings : w.file = f
Moved(f) == \E w \in warnings : w.file = f /\ w.severity = "moved"

\* The artefact at the head of todo is hashed, and is being read.
InHand == step \in {"read", "compare", "record"}

\* The artefacts of this phase of which nothing has been read.
Awaited == IF InHand THEN InSeq(Tail(todo)) ELSE InSeq(todo)

\* Nothing the run has recorded or holds was read from f.
Unopened(f) ==
  \/ /\ phase = "hives"
     /\ \/ f \in EventFiles \cup LinkFiles \cup Awaited
        \/ \E h \in Awaited : f \in InSeq(LogsOf[h])
  \/ phase = "events" /\ f \in EventFiles \cup LinkFiles
  \/ phase = "links" /\ f \in Awaited

\* Where a phase is: the steps it takes, and what it still has to do.
Placed ==
  /\ phase = "hives" => step \in {"stat", "hash", "read", "compare"} /\ InSeq(todo) \subseteq HiveFiles
  /\ phase = "events" => step \in {"stat", "hash", "parse"} /\ InSeq(todo) \subseteq EventFiles
  /\ phase = "links" => step \in {"stat", "hash", "read", "record"} /\ InSeq(todo) \subseteq LinkFiles
  /\ phase = "verify" => step \in {"stat", "hash"} /\ \A f \in InSeq(todo) : Sourced(f)
  /\ IsInjective(todo)
  /\ step \notin {"stat", "parse"} => todo # <<>>
  /\ logs # <<>> => /\ phase = "hives" /\ step \in {"stat", "hash"} /\ todo # <<>>
                    /\ InSeq(logs) \subseteq InSeq(LogsOf[Head(todo)])

\* Bytes and times only grow: what is on the disk is no older than what was hashed.
NoOlder ==
  \A f \in Files :
    /\ disk[f].bytes <= changes /\ disk[f].modified <= changes
    /\ Sourced(f) => /\ sources[f].digest <= disk[f].bytes
                     /\ sources[f].modified <= disk[f].modified

\* What os.Stat said was so, and in the second pass came after all that was read.
HeldWas ==
  step = "hash" =>
    /\ phase \in Reading => held.modified <= disk[Current].modified
    /\ phase = "verify" =>
         \A o \in observations :
           o.source = Head(todo) /\ o.time # NoTime => o.time <= held.modified

\* A source has a number of its own.
Numbered ==
  /\ \A f \in Files : Sourced(f) =>
       sources[f].sequence <= sequence
       /\ (phase \in Reading /\ step = "hash" => sources[f].sequence < sequence)
  /\ \A f, g \in Files :
       Sourced(f) /\ Sourced(g) /\ sources[f].sequence = sources[g].sequence => f = g

\* The bytes b were read from f after its first hash, and before now.
ReadSince(f, b) == b <= disk[f].bytes /\ (Sourced(f) => sources[f].digest <= b)

\* What was read of a file was read after it was hashed.
ReadAfterHash ==
  /\ \A o \in observations : \A r \in o.read : r[1] \notin EventFiles => ReadSince(r[1], r[2])
  /\ \A r \in copied : r[1] \notin EventFiles => ReadSince(r[1], r[2])
  /\ \A o \in observations : o.time # NoTime =>
       o.source \in Files /\ Sourced(o.source)
       /\ sources[o.source].modified <= o.time /\ o.time <= disk[o.source].modified

\* What is still to be hashed has not been read.
HashedFirst ==
  \A f \in Files : Unopened(f) =>
    /\ \A o \in observations : (\A r \in o.read : r[1] # f) /\ (o.time # NoTime => o.source # f)
    /\ \A r \in copied : r[1] # f

\* What the second hash allowed was read as it was first hashed.
Attested ==
  \A f \in Files : Sourced(f) /\ sources[f].verified =>
    \A o \in observations :
      /\ f \notin EventFiles => \A r \in o.read : r[1] = f => r[2] = sources[f].digest
      /\ o.source = f /\ o.time # NoTime => o.time = sources[f].modified

LogRead(f) == \E o \in observations : o.source = f /\ \E r \in o.read : r[1] \in LogFiles

\* A hive said to have been replayed gave values out of a log, or it changed after its copy
\* was taken and will not verify.
Replays ==
  /\ \A f \in HiveFiles : Sourced(f) /\ sources[f].replayed =>
       LogRead(f) \/ (sources[f].digest < disk[f].bytes /\ ~sources[f].verified)
  /\ phase = "hives" /\ step = "compare" =>
       \E b \in 0..changes :
         /\ <<Head(todo), b>> \in copied
         /\ \A r \in copied : r = <<Head(todo), b>> \/ r[1] \in InSeq(LogsOf[Head(todo)])
  /\ phase = "links" /\ step = "record" => \A r \in copied : r[1] = Head(todo)

Accounted(f) == Sourced(f) \/ Warned(f)

\* What was read, and what the artefact in hand is read with, is a source or warned of.
InputsKnown ==
  /\ \A o \in observations : \A r \in o.read : Accounted(r[1])
  /\ \A r \in copied : Accounted(r[1])
  /\ phase \in Reading /\ InHand => Sourced(Head(todo))
  /\ phase = "hives" /\ (InHand \/ logs # <<>>) =>
       Sourced(Head(todo)) /\ \A l \in InSeq(LogsOf[Head(todo)]) \ InSeq(logs) : Accounted(l)

Answering(f) == (\E o \in observations : o.source = f) \/ Warned(f)

\* The artefacts the run has still to come to.
Awaiting(f) ==
  \/ phase = "hives" /\ (f \in InSeq(todo) \/ f \notin HiveFiles)
  \/ /\ phase = "events"
     /\ f \in LinkFiles \cup InSeq(todo) \cup Recorded \/ (f \in EventFiles /\ step = "parse")
  \/ phase = "links" /\ f \in InSeq(todo)
  \/ phase = "failed" /\ case = Nothing

\* The artefacts of the kinds that may be passed over that the run has still to hash.
ToHash(f) ==
  \/ phase = "hives" /\ f \in LinkFiles \cup (IF logs = <<>> THEN Awaited ELSE InSeq(Tail(todo)))
  \/ phase = "events" /\ f \in LinkFiles
  \/ phase = "links" /\ f \in Awaited

\* Passed over: the ledger has no digest of it.
Left(f) == f \in Unwarned /\ ~Sourced(f)

\* An artefact is still to come, or has given a fact or a warning, or was passed over; what
\* is still to be hashed is not in the ledger.
NonePassedOver ==
  /\ \A f \in Artefacts : Answering(f) \/ Awaiting(f) \/ Left(f)
  /\ \A f \in Artefacts \ EventFiles : ToHash(f) => ~Sourced(f)

Undecided(f) == ~sources[f].checked /\ ~sources[f].verified /\ ~Moved(f)
Decided(f) == sources[f].checked /\ (~sources[f].verified <=> Moved(f))

\* A source is decided on when it leaves todo in the second pass, and once.
Verdicts ==
  /\ phase \in Reading => /\ \A f \in Files : Sourced(f) => Undecided(f)
                          /\ \A w \in warnings : w.severity # "moved"
  /\ phase = "verify" =>
       \A f \in Files : Sourced(f) => IF f \in InSeq(todo) THEN Undecided(f) ELSE Decided(f)
  /\ phase \in {"load", "finalise", "done"} \/ case # Nothing =>
       \A f \in Files : Sourced(f) => Decided(f)

\* The case and the manifest hold the ledger as it stands.
Kept ==
  /\ phase \in Reading \cup {"verify", "load"} => case = Nothing
  /\ phase \in {"finalise", "done"} \/ case # Nothing => case = Ledger
  /\ phase # "done" => manifest = Nothing
  /\ manifest # Nothing => manifest = [sources |-> sources, warnings |-> warnings]

IInv ==
  /\ TypeOK /\ Placed /\ NoOlder /\ HeldWas /\ Numbered /\ ReadAfterHash /\ HashedFirst
  /\ Attested /\ Replays /\ InputsKnown /\ NonePassedOver /\ Verdicts /\ Kept

-----------------------------------------------------------------------------
(* Sequences.                                                               *)

\* What a sequence that is not empty has at its head, and after it.
LEMMA HeadAndTail ==
    ASSUME NEW S, NEW s \in Seq(S), s # <<>>
    PROVE  /\ Head(s) \in S /\ Tail(s) \in Seq(S)
           /\ InSeq(s) = {Head(s)} \cup InSeq(Tail(s))
           /\ IsInjective(s) => IsInjective(Tail(s)) /\ Head(s) \notin InSeq(Tail(s))
<1>1. /\ Len(s) \in Nat \ {0} /\ Head(s) = s[1] /\ Head(s) \in S
      /\ Tail(s) \in Seq(S) /\ Len(Tail(s)) = Len(s) - 1
      /\ \A i \in 1..(Len(s) - 1) : Tail(s)[i] = s[i + 1]
  OBVIOUS
<1>2. InSeq(Tail(s)) = {s[i] : i \in 2..Len(s)}
  BY <1>1 DEF InSeq
<1>3. InSeq(s) = {Head(s)} \cup InSeq(Tail(s))
  BY <1>1, <1>2 DEF InSeq
<1>4. IsInjective(s) => IsInjective(Tail(s))
  BY <1>1 DEF IsInjective
<1>5. IsInjective(s) => Head(s) \notin InSeq(Tail(s))
  BY <1>1, <1>2 DEF IsInjective
<1> QED BY <1>1, <1>3, <1>4, <1>5

\* The elements of a sequence are of the set it is over, and only the empty one has none.
LEMMA InItsSet == ASSUME NEW S, NEW s \in Seq(S) PROVE InSeq(s) \subseteq S
BY DEF InSeq

\* The empty sequence has no element.
LEMMA EmptyHasNone == InSeq(<<>>) = {} /\ IsInjective(<<>>)
BY DEF InSeq, IsInjective

\* A sequence without its i-th element.
Without(s, i) == SubSeq(s, 1, i - 1) \o SubSeq(s, i + 1, Len(s))

\* What is behind the element taken out moves up by one, and the order stays.
LEMMA WithoutAt ==
    ASSUME NEW S, NEW s \in Seq(S), NEW i \in 1..Len(s)
    PROVE  /\ Without(s, i) \in Seq(S) /\ Len(Without(s, i)) = Len(s) - 1
           /\ \A j \in 1..(Len(s) - 1) : Without(s, i)[j] = IF j < i THEN s[j] ELSE s[j + 1]
<1> DEFINE before == SubSeq(s, 1, i - 1)
           after == SubSeq(s, i + 1, Len(s))
<1>1. Len(s) \in Nat /\ i \in Nat /\ i >= 1 /\ i <= Len(s) /\ \A j \in 1..Len(s) : s[j] \in S
  OBVIOUS
<1>2. /\ before \in Seq(S) /\ Len(before) = i - 1
      /\ \A j \in 1..(i - 1) : before[j] = s[j]
  BY <1>1, SubSeqProperties
<1>3. /\ after \in Seq(S) /\ Len(after) = Len(s) - i
      /\ \A j \in 1..(Len(s) - i) : after[j] = s[i + j]
  BY <1>1, SubSeqProperties
<1>4. Without(s, i) = before \o after
  BY DEF Without
<1> HIDE DEF before, after
<1>5. /\ before \o after \in Seq(S) /\ Len(before \o after) = Len(s) - 1
      /\ \A j \in 1..(Len(s) - 1) :
           (before \o after)[j] = IF j <= i - 1 THEN before[j] ELSE after[j - (i - 1)]
  <2>1. /\ before \o after \in Seq(S) /\ Len(before \o after) = Len(before) + Len(after)
        /\ \A j \in 1..(Len(before) + Len(after)) :
             (before \o after)[j] = IF j <= Len(before) THEN before[j] ELSE after[j - Len(before)]
    BY <1>2, <1>3, ConcatProperties
  <2>2. Len(before) + Len(after) = Len(s) - 1
    BY <1>1, <1>2, <1>3
  <2>3. ASSUME NEW j \in 1..(Len(s) - 1)
        PROVE  (before \o after)[j] = IF j <= i - 1 THEN before[j] ELSE after[j - (i - 1)]
    BY <1>2, <2>1, <2>2
  <2> QED BY <2>1, <2>2, <2>3
<1>6. ASSUME NEW j \in 1..(Len(s) - 1)
      PROVE  (before \o after)[j] = IF j < i THEN s[j] ELSE s[j + 1]
  <2>1. CASE j < i
    BY <1>1, <1>2, <1>5, <2>1
  <2>2. CASE j >= i
    <3>1. j - (i - 1) \in 1..(Len(s) - i) /\ i + (j - (i - 1)) = j + 1
      BY <1>1, <2>2
    <3>2. (before \o after)[j] = after[j - (i - 1)]
      BY <1>1, <1>5, <2>2
    <3>3. after[j - (i - 1)] = s[i + (j - (i - 1))]
      BY <1>3, <3>1
    <3> QED BY <1>1, <2>2, <3>1, <3>2, <3>3
  <2>3. j < i \/ j >= i
    BY <1>1
  <2> QED BY <2>1, <2>2, <2>3
<1> QED BY <1>4, <1>5, <1>6

\* What is left has the others, once each.
LEMMA WithoutOne ==
    ASSUME NEW S, NEW s \in Seq(S), NEW i \in 1..Len(s), IsInjective(s)
    PROVE  /\ Without(s, i) \in Seq(S) /\ IsInjective(Without(s, i))
           /\ InSeq(Without(s, i)) = InSeq(s) \ {s[i]}
<1>1. /\ Without(s, i) \in Seq(S) /\ Len(Without(s, i)) = Len(s) - 1
      /\ \A j \in 1..(Len(s) - 1) : Without(s, i)[j] = IF j < i THEN s[j] ELSE s[j + 1]
  BY WithoutAt
<1>2. /\ Len(s) \in Nat /\ i \in Nat /\ DOMAIN s = 1..Len(s)
      /\ DOMAIN Without(s, i) = 1..(Len(s) - 1)
  BY <1>1
<1>3. IsInjective(Without(s, i))
  <2>1. ASSUME NEW j \in 1..(Len(s) - 1), NEW k \in 1..(Len(s) - 1), Without(s, i)[j] = Without(s, i)[k]
        PROVE  j = k
    <3> DEFINE at(m) == IF m < i THEN m ELSE m + 1
    <3>1. \A m \in 1..(Len(s) - 1) : at(m) \in DOMAIN s /\ Without(s, i)[m] = s[at(m)]
      BY <1>1, <1>2
    <3>2. at(j) = at(k)
      <4> HIDE DEF at
      <4> QED BY <2>1, <3>1 DEF IsInjective
    <3> QED BY <1>2, <3>2
  <2> QED BY <1>2, <2>1 DEF IsInjective
<1>4. ASSUME NEW x \in InSeq(Without(s, i)) PROVE x \in InSeq(s) \ {s[i]}
  <2>1. PICK j \in 1..(Len(s) - 1) : x = Without(s, i)[j]
    BY <1>1 DEF InSeq
  <2>2. PICK k \in 1..Len(s) : k # i /\ x = s[k]
    BY <1>1, <1>2, <2>1
  <2> QED BY <1>2, <2>2 DEF InSeq, IsInjective
<1>5. ASSUME NEW x \in InSeq(s), x # s[i] PROVE x \in InSeq(Without(s, i))
  <2>1. PICK j \in 1..Len(s) : x = s[j]
    BY DEF InSeq
  <2>2. PICK k \in 1..(Len(s) - 1) : x = Without(s, i)[k]
    <3>1. CASE j < i
      BY <1>1, <1>2, <2>1, <3>1
    <3>2. CASE j > i
      <4>1. j - 1 \in 1..(Len(s) - 1) /\ Without(s, i)[j - 1] = s[j]
        BY <1>1, <1>2, <3>2
      <4> QED BY <2>1, <4>1
    <3> QED BY <1>2, <1>5, <2>1, <3>1, <3>2
  <2> QED BY <1>1, <2>2 DEF InSeq
<1> QED BY <1>1, <1>3, <1>4, <1>5

-----------------------------------------------------------------------------
(* The collection.                                                          *)

\* The kinds of file are apart, and each is of the files.
LEMMA Kinds ==
    /\ Files = HiveFiles \cup LogFiles \cup EventFiles \cup LinkFiles
    /\ HiveFiles \cap LogFiles = {} /\ LinkFiles \cap (HiveFiles \cup LogFiles) = {}
    /\ EventFiles \cap (HiveFiles \cup LogFiles \cup LinkFiles) = {}
    /\ Hives \in Seq(Files) /\ EventLogs \in Seq(Files) /\ Links \in Seq(Files)
    /\ IsInjective(Hives) /\ IsInjective(EventLogs) /\ IsInjective(Links)
    /\ HiveFiles = InSeq(Hives) /\ EventFiles = InSeq(EventLogs) /\ LinkFiles = InSeq(Links)
    /\ \A h \in HiveFiles : LogsOf[h] \in Seq(LogFiles) /\ InSeq(LogsOf[h]) \subseteq LogFiles
<1>1. \A h \in HiveFiles : InSeq(LogsOf[h]) \subseteq LogFiles
  BY DEF LogFiles
<1> QED BY <1>1, CustodyAssumption, PlacedOnceAssumption DEF Files, HiveFiles, EventFiles, LinkFiles

\* What is at the head of todo is one of the files, and is not there again.
LEMMA AtHead ==
    ASSUME TypeOK, Placed, todo # <<>>
    PROVE  /\ Head(todo) \in Files /\ Tail(todo) \in Seq(Files)
           /\ InSeq(todo) = {Head(todo)} \cup InSeq(Tail(todo))
           /\ Head(todo) \notin InSeq(Tail(todo)) /\ IsInjective(Tail(todo))
           /\ InSeq(todo) \subseteq Files
BY HeadAndTail, InItsSet DEF TypeOK, Placed

\* Of each kind's phase it is that kind.
LEMMA HeadKind ==
    ASSUME TypeOK, Placed, todo # <<>>
    PROVE  /\ phase = "hives" => Head(todo) \in HiveFiles
           /\ phase = "events" => Head(todo) \in EventFiles
           /\ phase = "links" => Head(todo) \in LinkFiles
BY AtHead DEF Placed

\* Warnings of the first pass are added to those there are.
WarnsMore ==
  /\ warnings' \subseteq Warnings
  /\ \A f : Warned(f) => Warned(f)'
  /\ \A f : Moved(f)' <=> Moved(f)
  /\ (\A w \in warnings : w.severity # "moved") => \A w \in warnings' : w.severity # "moved"

\* A warning of the first pass warns of its file, and leaves the verdicts as they are.
LEMMA Warns ==
    ASSUME TypeOK
    PROVE  /\ UNCHANGED warnings => WarnsMore
           /\ \A severity \in {"failed", "malformed"}, f \in Files :
                warnings' = warnings \cup {[severity |-> severity, file |-> f]} => WarnsMore /\ Warned(f)'
<1>1. ASSUME UNCHANGED warnings PROVE WarnsMore
  BY <1>1 DEF WarnsMore, Warned, Moved, TypeOK
<1>2. ASSUME NEW severity \in {"failed", "malformed"}, NEW f \in Files,
             warnings' = warnings \cup {[severity |-> severity, file |-> f]}
      PROVE  WarnsMore /\ Warned(f)'
  <2> DEFINE new == [severity |-> severity, file |-> f]
  <2>1. warnings' = warnings \cup {new} /\ new.severity # "moved" /\ new.file = f /\ new \in Warnings
    BY <1>2 DEF Warnings
  <2> HIDE DEF new
  <2>2. Warned(f)' /\ \A g : Warned(g) => Warned(g)'
    BY <2>1 DEF Warned
  <2>3. \A g : Moved(g)' <=> Moved(g)
    BY <2>1 DEF Moved
  <2> QED BY <2>1, <2>2, <2>3 DEF WarnsMore, TypeOK
<1> QED BY <1>1, <1>2

-----------------------------------------------------------------------------
(* The evidence changes.                                                    *)

\* The file to be hashed next is known, and nothing was read of it yet.
LEMMA CurrentKnown ==
    ASSUME TypeOK, Placed, phase \in Reading, step \in {"stat", "hash"}, todo # <<>>
    PROVE  /\ Current \in Files /\ Unopened(Current)
           /\ logs = <<>> => Current = Head(todo)
           /\ logs # <<>> => /\ phase = "hives" /\ Current = Head(logs)
                             /\ Head(logs) \in InSeq(LogsOf[Head(todo)]) /\ Head(logs) \in LogFiles
                             /\ Tail(logs) \in Seq(LogFiles)
                             /\ InSeq(logs) = {Head(logs)} \cup InSeq(Tail(logs))
<1>1. Head(todo) \in Files /\ Head(todo) \in Awaited
  BY AtHead DEF Awaited, InHand
<1>2. CASE logs = <<>>
  BY <1>1, <1>2, HeadKind DEF Current, Unopened, Reading
<1>3. CASE logs # <<>>
  <2>1. /\ Head(logs) \in LogFiles /\ Tail(logs) \in Seq(LogFiles)
        /\ InSeq(logs) = {Head(logs)} \cup InSeq(Tail(logs))
    BY <1>3, HeadAndTail DEF TypeOK
  <2>2. phase = "hives" /\ Head(logs) \in InSeq(LogsOf[Head(todo)])
    BY <1>3, <2>1 DEF Placed
  <2> QED BY <1>1, <1>3, <2>1, <2>2, Kinds DEF Current, Unopened
<1> QED BY <1>2, <1>3

\* Nothing on the disk gets older.
LEMMA EvidenceGrows ==
    ASSUME TypeOK, NoOlder, EvidenceChanges
    PROVE  /\ changes' = changes + 1
           /\ disk' \in [Files -> [there : BOOLEAN, bytes : Nat, size : Nat, modified : Nat]]
           /\ \A f \in Files :
                /\ disk[f].bytes <= disk'[f].bytes /\ disk'[f].bytes <= changes'
                /\ disk[f].modified <= disk'[f].modified /\ disk'[f].modified <= changes'
<1>1. changes' = changes + 1 /\ changes \in Nat
  BY DEF EvidenceChanges, TypeOK
<1>2. PICK f \in Files : Rewrite(f) \/ Touch(f) \/ ComesOrGoes(f)
  BY DEF EvidenceChanges
<1>3. \A g \in Files : /\ disk[g] \in [there : BOOLEAN, bytes : Nat, size : Nat, modified : Nat]
                       /\ disk[g].bytes <= changes /\ disk[g].modified <= changes
  BY DEF TypeOK, NoOlder
<1> DEFINE Record == [there : BOOLEAN, bytes : Nat, size : Nat, modified : Nat]
<1>4. /\ disk' \in [Files -> Record] /\ \A g \in Files \ {f} : disk'[g] = disk[g]
      /\ disk[f].bytes <= disk'[f].bytes /\ disk'[f].bytes <= changes + 1
      /\ disk[f].modified <= disk'[f].modified /\ disk'[f].modified <= changes + 1
  <2>1. ASSUME NEW now \in Record, disk' = [disk EXCEPT ![f] = now]
        PROVE  disk' \in [Files -> Record] /\ disk'[f] = now /\ \A g \in Files \ {f} : disk'[g] = disk[g]
    BY <2>1 DEF TypeOK
  <2>2. CASE Rewrite(f)
    <3>1. PICK size \in {disk[f].size, disk[f].size + 1}, modified \in {disk[f].modified, changes + 1} :
            disk' = [disk EXCEPT ![f] = [there |-> TRUE, bytes |-> changes + 1,
                                         size |-> size, modified |-> modified]]
      BY <2>2 DEF Rewrite
    <3>2. [there |-> TRUE, bytes |-> changes + 1, size |-> size, modified |-> modified] \in Record
      BY <1>1, <1>3
    <3>3. /\ disk'[f].bytes = changes + 1 /\ disk'[f].modified = modified
          /\ disk' \in [Files -> Record] /\ \A g \in Files \ {f} : disk'[g] = disk[g]
      BY <2>1, <3>1, <3>2
    <3> QED BY <1>1, <1>3, <3>3
  <2>3. CASE Touch(f)
    <3>1. [disk[f] EXCEPT !.modified = changes + 1] \in Record
      BY <1>1, <1>3
    <3>2. /\ disk'[f] = [disk[f] EXCEPT !.modified = changes + 1]
          /\ disk' \in [Files -> Record] /\ \A g \in Files \ {f} : disk'[g] = disk[g]
      BY <2>1, <2>3, <3>1 DEF Touch
    <3>3. disk'[f].bytes = disk[f].bytes /\ disk'[f].modified = changes + 1
      BY <1>3, <3>2
    <3> QED BY <1>1, <1>3, <3>2, <3>3
  <2>4. CASE ComesOrGoes(f)
    <3>1. [disk[f] EXCEPT !.there = ~@] \in Record
      BY <1>3
    <3>2. /\ disk'[f] = [disk[f] EXCEPT !.there = ~@]
          /\ disk' \in [Files -> Record] /\ \A g \in Files \ {f} : disk'[g] = disk[g]
      BY <2>1, <2>4, <3>1 DEF ComesOrGoes
    <3>3. disk'[f].bytes = disk[f].bytes /\ disk'[f].modified = disk[f].modified
      BY <1>3, <3>2
    <3> QED BY <1>1, <1>3, <3>2, <3>3
  <2> QED BY <1>2, <2>2, <2>3, <2>4
<1>5. ASSUME NEW g \in Files
      PROVE  /\ disk[g].bytes <= disk'[g].bytes /\ disk'[g].bytes <= changes'
             /\ disk[g].modified <= disk'[g].modified /\ disk'[g].modified <= changes'
  BY <1>1, <1>3, <1>4
<1> QED BY <1>1, <1>4, <1>5

\* A rewrite, a touch, a file that goes or comes: what was read is still no newer than what
\* is there, and no source has verified a second time.
LEMMA EvidenceKeeps == ASSUME IInv, EvidenceChanges PROVE IInv'
<1>1. UNCHANGED <<phase, step, todo, logs, held, copied, parsed, sequence, sources, observations,
                  warnings, case, manifest>>
  BY DEF EvidenceChanges, control, ledger, written
<1>2. /\ changes' = changes + 1 /\ changes \in Nat
      /\ disk' \in [Files -> [there : BOOLEAN, bytes : Nat, size : Nat, modified : Nat]]
      /\ \A f \in Files :
           /\ disk[f].bytes <= disk'[f].bytes /\ disk'[f].bytes <= changes'
           /\ disk[f].modified <= disk'[f].modified /\ disk'[f].modified <= changes'
  BY EvidenceGrows DEF IInv, TypeOK
<1>3. \A f \in Files : /\ disk[f].bytes \in Nat /\ disk[f].modified \in Nat
                       /\ disk'[f].bytes \in Nat /\ disk'[f].modified \in Nat
                       /\ Sourced(f) => /\ sources[f].digest \in Nat /\ sources[f].modified \in Nat
  BY <1>2 DEF IInv, TypeOK, Sourced, SourceRecords
<1>4. \A o \in observations : /\ o.time # NoTime => o.time \in Nat
                              /\ \A r \in o.read : r[1] \in Files /\ r[2] \in Nat
  BY DEF IInv, TypeOK, Observations
<1>5. \A r \in copied : r[1] \in Files /\ r[2] \in Nat
  BY DEF IInv, TypeOK
<1>6. TypeOK'
  <2>1. TypeOK
    BY DEF IInv
  <2> QED BY <1>1, <1>2, <2>1 DEF TypeOK
<1>7. Placed' /\ Numbered' /\ HashedFirst' /\ Attested' /\ InputsKnown'
  BY <1>1 DEF IInv, Placed, Numbered, HashedFirst, Unopened, Awaited, InHand, Attested, InputsKnown,
              Accounted, Sourced, Warned
<1>8. NoOlder'
  BY <1>1, <1>2, <1>3 DEF IInv, NoOlder, Sourced
<1>9. HeldWas'
  <2>1. step = "hash" /\ phase \in Reading => Current \in Files
    BY CurrentKnown DEF IInv, Placed
  <2>2. held.modified \in Nat
    BY DEF IInv, TypeOK
  <2> QED BY <1>1, <1>2, <1>3, <2>1, <2>2 DEF IInv, HeldWas, Current
<1>10. ReadAfterHash'
  <2>1. ASSUME NEW f \in Files, NEW b \in Nat, ReadSince(f, b) PROVE ReadSince(f, b)'
    BY <1>1, <1>2, <1>3, <2>1 DEF ReadSince, Sourced
  <2>2. ASSUME NEW o \in observations, o.time # NoTime
        PROVE  /\ o.source \in Files /\ Sourced(o.source) /\ sources[o.source].modified <= o.time
               /\ o.time <= disk'[o.source].modified
    BY <1>2, <1>3, <1>4, <2>2 DEF IInv, ReadAfterHash
  <2> QED BY <1>1, <1>4, <1>5, <2>1, <2>2 DEF IInv, ReadAfterHash, Sourced
<1>11. Replays'
  <2>1. \A f \in HiveFiles : Sourced(f) /\ sources[f].digest < disk[f].bytes => sources[f].digest < disk'[f].bytes
    BY <1>2, <1>3, Kinds
  <2>2. \A b \in 0..changes : b \in 0..changes'
    BY <1>2
  <2> QED BY <1>1, <2>1, <2>2 DEF IInv, Replays, Sourced, LogRead
<1>12. NonePassedOver' /\ Verdicts' /\ Kept'
  BY <1>1 DEF IInv, NonePassedOver, Answering, Awaiting, Warned, Recorded, Verdicts, Undecided, Decided,
              Moved, Sourced, Kept, Ledger, Left, ToHash, Awaited, InHand
<1> QED BY <1>6, <1>7, <1>8, <1>9, <1>10, <1>11, <1>12 DEF IInv

-----------------------------------------------------------------------------
(* Ledger.AddSource, by what is added and what becomes of it.               *)

Adding == /\ phase \in Reading /\ step \in {"stat", "hash"} /\ todo # <<>>
          /\ UNCHANGED <<evidence, phase, parsed, written, observations>>

\* The file is there to be stated.
Stated ==
  /\ Adding /\ step = "stat" /\ step' = "hash" /\ sequence' = sequence + 1
  /\ held' = [size |-> disk[Current].size, modified |-> disk[Current].modified]
  /\ UNCHANGED <<todo, logs, copied, sources, warnings>>

\* It is not there to be stated or to be hashed: a transaction log, or an artefact.
Missed == Adding /\ sequence' \in {sequence, sequence + 1} /\ UNCHANGED <<sources, held>>
LogMissed == Missed /\ logs # <<>> /\ Warn("failed", Current) /\ LogsNext(Tail(logs))
ArtefactMissed ==
  /\ Missed /\ logs = <<>> /\ Finished
  /\ (Silent(Current) /\ UNCHANGED warnings) \/ Warn("failed", Current)

\* It is hashed.
Added == /\ Adding /\ step = "hash" /\ sources' = [sources EXCEPT ![Current] = Source(Current)]
         /\ UNCHANGED <<sequence, held>>
LogAdded == Added /\ logs # <<>> /\ LogsNext(Tail(logs)) /\ UNCHANGED warnings
HiveAdded == /\ Added /\ phase = "hives" /\ logs = <<>>
             /\ LogsNext(LogsOf[Head(todo)]) /\ UNCHANGED warnings
LinkAdded == Added /\ phase = "links" /\ logs = <<>> /\ LogsNext(<<>>) /\ UNCHANGED warnings
EventAdded ==
  /\ Added /\ phase = "events" /\ logs = <<>> /\ Finished
  /\ \/ parsed[Current] = Unread /\ Warn("failed", Current)
     \/ parsed[Current] # Unread /\ (UNCHANGED warnings \/ Warn("malformed", Current))

\* There is no other outcome.
LEMMA AddSourceCases ==
    ASSUME IInv, AddSourceStat \/ AddSourceHash
    PROVE  Stated \/ LogMissed \/ ArtefactMissed \/ LogAdded \/ HiveAdded \/ LinkAdded \/ EventAdded
<1>1. /\ phase \in Reading /\ step \in {"stat", "hash"} /\ todo # <<>>
      /\ UNCHANGED <<evidence, phase, parsed, written>>
  BY DEF AddSourceStat, AddSourceHash, Reading, IInv, Placed
<1>2. /\ logs = <<>> => Current = Head(todo)
      /\ logs # <<>> => phase = "hives" /\ Current \in LogFiles
  BY <1>1, CurrentKnown DEF IInv
<1>3. CASE NotHashed(Current) /\ sequence' \in {sequence, sequence + 1}
  <2>1. Missed
    BY <1>1, <1>3 DEF Missed, Adding, NotHashed
  <2>2. CASE logs # <<>>
    <3>1. ~Silent(Current)
      BY <1>2, <2>2, Kinds DEF Silent, Unwarned
    <3> QED BY <1>3, <2>1, <2>2, <3>1 DEF NotHashed, LogMissed
  <2>3. CASE logs = <<>>
    BY <1>3, <2>1, <2>3 DEF NotHashed, ArtefactMissed
  <2> QED BY <2>2, <2>3
<1>4. CASE AddSourceStat
  <2>1. CASE disk[Current].there
    BY <1>1, <1>4, <2>1 DEF AddSourceStat, Stated, Adding
  <2>2. CASE ~disk[Current].there
    BY <1>3, <1>4, <2>2 DEF AddSourceStat
  <2> QED BY <2>1, <2>2
<1>5. CASE AddSourceHash
  <2>1. CASE disk[Current].there
    <3>1. Added /\ Hashed(Current)
      BY <1>1, <1>5, <2>1 DEF AddSourceHash, Added, Adding
    <3>2. CASE logs # <<>>
      <4>1. Current \notin HiveFiles /\ Current \notin EventFiles /\ Current \notin LinkFiles
        BY <1>2, <3>2, Kinds
      <4> QED BY <1>2, <3>1, <3>2, <4>1 DEF Hashed, LogAdded
    <3>3. CASE logs = <<>> /\ phase = "hives"
      <4>1. /\ Current \in HiveFiles /\ Current = Head(todo)
            /\ Current \notin LogFiles /\ Current \notin EventFiles /\ Current \notin LinkFiles
        BY <1>1, <1>2, <3>3, HeadKind, Kinds DEF IInv
      <4> QED BY <3>1, <3>3, <4>1 DEF Hashed, HiveAdded, LogsNext
    <3>4. CASE logs = <<>> /\ phase = "links"
      <4>1. /\ Current \in LinkFiles
            /\ Current \notin HiveFiles /\ Current \notin EventFiles /\ Current \notin LogFiles
        BY <1>1, <1>2, <3>4, HeadKind, Kinds DEF IInv
      <4> QED BY <3>1, <3>4, <4>1 DEF Hashed, LinkAdded
    <3>5. CASE logs = <<>> /\ phase = "events"
      <4>1. /\ Current \in EventFiles
            /\ Current \notin HiveFiles /\ Current \notin LinkFiles /\ Current \notin LogFiles
        BY <1>1, <1>2, <3>5, HeadKind, Kinds DEF IInv
      <4> QED BY <3>1, <3>5, <4>1 DEF Hashed, EventAdded
    <3> QED BY <1>1, <3>2, <3>3, <3>4, <3>5 DEF Reading
  <2>2. CASE ~disk[Current].there
    <3>1. ~AddSourceStat
      BY <1>5 DEF AddSourceStat, AddSourceHash
    <3> QED BY <1>3, <1>5, <2>2, <3>1 DEF AddSourceHash
  <2> QED BY <2>1, <2>2
<1> QED BY <1>4, <1>5

\* Nothing else of the run is disturbed by a stat.
LEMMA StatedKeeps == ASSUME IInv, Stated PROVE IInv'
<1>1. /\ phase \in Reading /\ step = "stat" /\ step' = "hash" /\ todo # <<>> /\ sequence' = sequence + 1
      /\ held' = [size |-> disk[Current].size, modified |-> disk[Current].modified]
      /\ UNCHANGED <<disk, changes, phase, parsed, case, manifest, observations, todo, logs, copied,
                     sources, warnings>>
  BY DEF Stated, Adding, evidence, written
<1>2. /\ Current \in Files /\ disk[Current].size \in Nat /\ disk[Current].modified \in Nat
      /\ sequence \in Nat
  BY <1>1, CurrentKnown DEF IInv, TypeOK
<1>3. TypeOK'
  <2>1. TypeOK
    BY DEF IInv
  <2>2. step' \in {"hash"} /\ held' \in [size : Nat, modified : Nat] /\ sequence' \in Nat
    BY <1>1, <1>2
  <2> QED BY <1>1, <2>1, <2>2 DEF TypeOK
<1>4. Placed' /\ NoOlder' /\ ReadAfterHash' /\ Attested'
  BY <1>1 DEF IInv, Placed, NoOlder, ReadAfterHash, ReadSince, Attested, Sourced, Reading
<1>5. HeldWas'
  BY <1>1, <1>2 DEF HeldWas, Current, Reading
<1>6. Numbered'
  <2>1. \A f \in Files : Sourced(f) => sources[f].sequence \in Nat
    BY DEF IInv, TypeOK, Sourced, SourceRecords
  <2> QED BY <1>1, <1>2, <2>1 DEF IInv, Numbered, Sourced
<1>7. HashedFirst' /\ InputsKnown'
  BY <1>1 DEF IInv, HashedFirst, Unopened, Awaited, InHand, InputsKnown, Accounted, Sourced, Warned
<1>8. Replays' /\ NonePassedOver' /\ Verdicts' /\ Kept'
  BY <1>1 DEF IInv, Replays, LogRead, NonePassedOver, Answering, Awaiting, Warned, Recorded, Left, ToHash, Awaited, InHand,
              Verdicts, Undecided, Decided, Moved, Sourced, Kept, Ledger, Reading
<1> QED BY <1>3, <1>4, <1>5, <1>6, <1>7, <1>8 DEF IInv

\* An artefact that is gone is done with, and warned of where its phase warns.
LEMMA ArtefactMissedKeeps == ASSUME IInv, ArtefactMissed PROVE IInv'
<1>1. /\ phase \in Reading /\ step \in {"stat", "hash"} /\ todo # <<>> /\ sequence' \in {sequence, sequence + 1}
      /\ logs = <<>> /\ step' = "stat" /\ logs' = <<>> /\ copied' = {} /\ todo' = Tail(todo)
      /\ UNCHANGED <<disk, changes, phase, held, parsed, case, manifest, observations, sources>>
  BY DEF ArtefactMissed, Missed, Adding, Finished, evidence, written
<1>2. /\ Current = Head(todo) /\ Head(todo) \in Files /\ Tail(todo) \in Seq(Files)
      /\ InSeq(todo) = {Head(todo)} \cup InSeq(Tail(todo))
      /\ Head(todo) \notin InSeq(Tail(todo)) /\ IsInjective(Tail(todo)) /\ sequence \in Nat
  BY <1>1, AtHead, CurrentKnown DEF IInv, TypeOK
<1>3. \/ Silent(Head(todo)) /\ UNCHANGED warnings
      \/ warnings' = warnings \cup {[severity |-> "failed", file |-> Head(todo)]}
  BY <1>2 DEF ArtefactMissed, Warn, Silent
<1>4. WarnsMore
  BY <1>2, <1>3, Warns DEF IInv
<1>5. TypeOK'
  <2>1. TypeOK
    BY DEF IInv
  <2>2. /\ todo' \in Seq(Files) /\ logs' \in Seq(LogFiles) /\ sequence' \in Nat
        /\ copied' \subseteq Files \X Nat /\ warnings' \subseteq Warnings
    BY <1>1, <1>2, <1>4 DEF WarnsMore
  <2> QED BY <1>1, <2>1, <2>2 DEF TypeOK
<1>6. Placed'
  BY <1>1, <1>2 DEF IInv, Placed, Reading
<1>7. NoOlder' /\ HeldWas' /\ ReadAfterHash' /\ Attested'
  BY <1>1 DEF IInv, NoOlder, HeldWas, ReadAfterHash, ReadSince, Attested, Sourced
<1>8. Numbered'
  <2>1. \A f \in Files : Sourced(f) => sources[f].sequence \in Nat
    BY DEF IInv, TypeOK, Sourced, SourceRecords
  <2> QED BY <1>1, <1>2, <2>1 DEF IInv, Numbered, Sourced
<1>9. HashedFirst'
  BY <1>1, <1>2 DEF IInv, HashedFirst, Unopened, Awaited, InHand
<1>10. Replays' /\ InputsKnown'
  BY <1>1, <1>4 DEF IInv, Replays, LogRead, InputsKnown, Accounted, Sourced, InHand, WarnsMore
<1>11. NonePassedOver'
  <2>1. \A f : Answering(f) => Answering(f)'
    BY <1>1, <1>4 DEF Answering, WarnsMore
  <2>2. \A f : f = Head(todo) /\ f \in Artefacts => Answering(f)' \/ Left(f)'
    <3>1. CASE Silent(Head(todo))
      <4>1. Head(todo) \in Unwarned /\ Head(todo) \in Artefacts \ EventFiles
        BY <3>1, Kinds, CustodyAssumption DEF Silent, Unwarned, Artefacts
      <4>2. ToHash(Head(todo))
        BY <1>1, <1>2, <4>1, HeadKind DEF ToHash, Awaited, InHand, Reading, IInv
      <4> QED BY <1>1, <4>1, <4>2 DEF IInv, NonePassedOver, Left, Sourced
    <3>2. CASE warnings' = warnings \cup {[severity |-> "failed", file |-> Head(todo)]}
      BY <1>1, <1>2, <3>2, Warns DEF Answering, IInv
    <3> QED BY <1>3, <3>1, <3>2
  <2>3. \A f : Awaiting(f) => Awaiting(f)' \/ f = Head(todo)
    BY <1>1, <1>2 DEF Awaiting, Recorded
  <2>8. \A f \in Artefacts : (ToHash(f)' => ToHash(f)) /\ (Sourced(f)' <=> Sourced(f))
    BY <1>1, <1>2 DEF ToHash, Sourced, Awaited, InHand
  <2> QED BY <2>1, <2>2, <2>3, <2>8 DEF IInv, NonePassedOver, Left
<1>12. Verdicts' /\ Kept'
  BY <1>1, <1>4 DEF IInv, WarnsMore, Verdicts, Undecided, Decided, Sourced, Kept, Ledger, Reading
<1> QED BY <1>5, <1>6, <1>7, <1>8, <1>9, <1>10, <1>11, <1>12 DEF IInv

\* A transaction log that is gone is warned of, and the next is turned to.
LEMMA LogMissedKeeps == ASSUME IInv, LogMissed PROVE IInv'
<1>1. /\ phase \in Reading /\ step \in {"stat", "hash"} /\ todo # <<>> /\ sequence' \in {sequence, sequence + 1}
      /\ logs # <<>> /\ logs' = Tail(logs) /\ step' = IF logs' = <<>> THEN "read" ELSE "stat"
      /\ warnings' = warnings \cup {[severity |-> "failed", file |-> Current]}
      /\ UNCHANGED <<disk, changes, phase, held, parsed, case, manifest, observations, sources, todo,
                     copied>>
  BY DEF LogMissed, Missed, Adding, LogsNext, Warn, evidence, written
<1>2. /\ phase = "hives" /\ Current = Head(logs) /\ Tail(logs) \in Seq(LogFiles) /\ Current \in Files
      /\ InSeq(logs) = {Head(logs)} \cup InSeq(Tail(logs)) /\ sequence \in Nat /\ step' \in {"read", "stat"}
  BY <1>1, CurrentKnown DEF IInv, TypeOK
<1>3. WarnsMore /\ \A f : f = Head(logs) => Warned(f)'
  BY <1>1, <1>2, Warns DEF IInv
<1>4. InSeq(Tail(todo)) \subseteq InSeq(todo)
  BY <1>1, AtHead DEF IInv
<1>5. TypeOK'
  <2>1. TypeOK
    BY DEF IInv
  <2>2. logs' \in Seq(LogFiles) /\ sequence' \in Nat /\ warnings' \subseteq Warnings
    BY <1>1, <1>2, <1>3 DEF WarnsMore
  <2> QED BY <1>1, <1>2, <2>1, <2>2 DEF TypeOK
<1>6. Placed'
  BY <1>1, <1>2 DEF IInv, Placed
<1>7. NoOlder' /\ HeldWas' /\ ReadAfterHash' /\ Attested'
  BY <1>1 DEF IInv, NoOlder, HeldWas, ReadAfterHash, ReadSince, Attested, Sourced
<1>8. Numbered'
  <2>1. \A f \in Files : Sourced(f) => sources[f].sequence \in Nat
    BY DEF IInv, TypeOK, Sourced, SourceRecords
  <2> QED BY <1>1, <1>2, <2>1 DEF IInv, Numbered, Sourced
<1>9. HashedFirst'
  BY <1>1, <1>2, <1>4 DEF IInv, HashedFirst, Unopened, Awaited, InHand
<1>10. Replays'
  BY <1>1, <1>2 DEF IInv, Replays, LogRead, Sourced
<1>11. InputsKnown'
  BY <1>1, <1>2, <1>3, EmptyHasNone DEF IInv, WarnsMore, InputsKnown, Accounted, Sourced, InHand
<1>12. NonePassedOver'
  <2>1. \A f : Answering(f) => Answering(f)'
    BY <1>1, <1>3 DEF Answering, WarnsMore
  <2>2. \A f : Awaiting(f) => Awaiting(f)'
    BY <1>1, <1>2 DEF Awaiting
  <2>8. \A f \in Artefacts : (ToHash(f)' => ToHash(f)) /\ (Sourced(f)' <=> Sourced(f))
    BY <1>1, <1>2 DEF ToHash, Sourced, Awaited, InHand
  <2> QED BY <2>1, <2>2, <2>8 DEF IInv, NonePassedOver, Left
<1>13. Verdicts' /\ Kept'
  BY <1>1, <1>3 DEF IInv, WarnsMore, Verdicts, Undecided, Decided, Sourced, Kept, Ledger, Reading
<1> QED BY <1>5, <1>6, <1>7, <1>8, <1>9, <1>10, <1>11, <1>12, <1>13 DEF IInv

\* What is hashed has the bytes that are there, a number of its own, and was not read before.
LEMMA AddedIsFresh ==
    ASSUME IInv, Added
    PROVE  /\ sources' \in [Files -> SourceRecords \cup {NoSource}]
           /\ Current \in Files /\ Unopened(Current)
           /\ \A f \in Files \ {Current} : sources'[f] = sources[f] /\ (Sourced(f)' <=> Sourced(f))
           /\ \A f : f = Current => Sourced(f)'
           /\ sources'[Current] \in SourceRecords
           /\ sources'[Current].sequence = sequence /\ sources'[Current].digest = disk[Current].bytes
           /\ sources'[Current].modified <= disk[Current].modified
           /\ ~sources'[Current].checked /\ ~sources'[Current].verified /\ ~sources'[Current].replayed
<1>1. /\ phase \in Reading /\ step = "hash" /\ todo # <<>>
      /\ sources' = [sources EXCEPT ![Current] = Source(Current)]
  BY DEF Added, Adding
<1>2. Current \in Files /\ Unopened(Current)
  BY <1>1, CurrentKnown DEF IInv
<1>3. /\ Source(Current) \in SourceRecords
      /\ Source(Current).sequence = sequence /\ Source(Current).digest = disk[Current].bytes
      /\ Source(Current).modified = held.modified
      /\ ~Source(Current).checked /\ ~Source(Current).verified /\ ~Source(Current).replayed
  BY <1>2 DEF Source, SourceRecords, IInv, TypeOK
<1>4. held.modified <= disk[Current].modified
  BY <1>1 DEF IInv, HeldWas
<1>5. /\ sources' \in [Files -> SourceRecords \cup {NoSource}] /\ sources'[Current] = Source(Current)
      /\ \A f \in Files \ {Current} : sources'[f] = sources[f]
  BY <1>1, <1>2, <1>3 DEF IInv, TypeOK
<1>6. \A f : f = Current => Sourced(f)'
  BY <1>3, <1>5, SourceAssumption DEF Sourced
<1>7. \A f \in Files \ {Current} : Sourced(f)' <=> Sourced(f)
  BY <1>5 DEF Sourced
<1> QED BY <1>2, <1>3, <1>4, <1>5, <1>6, <1>7

\* It takes its place among the sources, before anything is read of it.
LEMMA AddedKeeps ==
    ASSUME IInv, Added, step' # "hash", copied' \subseteq copied
    PROVE  /\ NoOlder' /\ Numbered' /\ ReadAfterHash' /\ Attested'
           /\ \A f : Accounted(f) /\ WarnsMore => Accounted(f)'
           /\ \A f \in Files : Sourced(f) => Sourced(f)'
           /\ \A f \in HiveFiles : Sourced(f)' /\ sources'[f].replayed =>
                LogRead(f)' \/ (sources'[f].digest < disk'[f].bytes /\ ~sources'[f].verified)
           /\ phase \in Reading /\ \A f \in Files : Sourced(f)' => ~sources'[f].checked /\ ~sources'[f].verified
<1>1. /\ phase \in Reading /\ step = "hash"
      /\ UNCHANGED <<disk, changes, phase, observations, sequence>>
  BY DEF Added, Adding, evidence
<1>2. /\ sources' \in [Files -> SourceRecords \cup {NoSource}]
      /\ Current \in Files /\ Unopened(Current)
      /\ \A f \in Files \ {Current} : sources'[f] = sources[f] /\ (Sourced(f)' <=> Sourced(f))
      /\ \A f : f = Current => Sourced(f)'
      /\ sources'[Current] \in SourceRecords
      /\ sources'[Current].sequence = sequence /\ sources'[Current].digest = disk[Current].bytes
      /\ sources'[Current].modified <= disk[Current].modified
      /\ ~sources'[Current].checked /\ ~sources'[Current].verified /\ ~sources'[Current].replayed
  BY AddedIsFresh
<1>3. /\ sequence \in Nat /\ \A f \in Files : disk[f].bytes \in Nat /\ disk[f].modified \in Nat
      /\ \A f \in Files : Sourced(f) => sources[f].sequence \in Nat /\ sources[f].sequence < sequence
  BY <1>1 DEF IInv, TypeOK, Numbered, Sourced, SourceRecords
<1>4. NoOlder'
  BY <1>1, <1>2, <1>3 DEF IInv, NoOlder
<1>5. Numbered'
  <2>1. \A f \in Files : Sourced(f)' => sources'[f].sequence <= sequence
    BY <1>2, <1>3
  <2>2. ASSUME NEW f \in Files, NEW g \in Files, Sourced(f)', Sourced(g)',
               sources'[f].sequence = sources'[g].sequence
        PROVE  f = g
    BY <1>2, <1>3, <2>2 DEF IInv, Numbered
  <2> QED BY <1>1, <2>1, <2>2 DEF Numbered
<1>6. \A o \in observations : /\ \A r \in o.read : r[1] # Current /\ r[1] \in Files /\ r[2] \in Nat
                              /\ o.time # NoTime => o.source # Current
  BY <1>2 DEF IInv, HashedFirst, TypeOK, Observations
<1>7. \A r \in copied : r[1] # Current /\ r[1] \in Files
  BY <1>2 DEF IInv, HashedFirst, TypeOK
<1>8. ReadAfterHash'
  <2>1. \A f \in Files \ {Current}, b \in Nat : ReadSince(f, b)' <=> ReadSince(f, b)
    BY <1>1, <1>2 DEF ReadSince
  <2>2. \A o \in observations : \A r \in o.read : r[1] \notin EventFiles => ReadSince(r[1], r[2])'
    BY <1>6, <2>1 DEF IInv, ReadAfterHash
  <2>3. \A r \in copied : r[1] \notin EventFiles => ReadSince(r[1], r[2])'
    BY <1>7, <2>1 DEF IInv, ReadAfterHash, TypeOK
  <2>4. \A o \in observations : o.time # NoTime =>
          /\ o.source \in Files /\ Sourced(o.source)'
          /\ sources'[o.source].modified <= o.time /\ o.time <= disk[o.source].modified
    BY <1>2, <1>6 DEF IInv, ReadAfterHash
  <2> QED BY <1>1, <2>2, <2>3, <2>4 DEF ReadAfterHash
<1>9. Attested'
  BY <1>1, <1>2 DEF IInv, Attested
<1>10. \A f : Accounted(f) /\ WarnsMore => Accounted(f)'
  <2>1. ASSUME NEW f, Sourced(f) PROVE Sourced(f)'
    <3>1. CASE f \in Files
      BY <1>2, <2>1, <3>1
    <3>2. CASE f \notin Files
      <4>1. sources'[f] = sources[f]
        BY <1>2, <3>2 DEF Added, IInv, TypeOK
      <4> QED BY <2>1, <4>1 DEF Sourced
    <3> QED BY <3>1, <3>2
  <2> QED BY <2>1 DEF Accounted, WarnsMore
<1>11. \A f \in Files : Sourced(f) => Sourced(f)'
  BY <1>2
<1>12. ASSUME NEW f \in HiveFiles, Sourced(f)', sources'[f].replayed
       PROVE  LogRead(f)' \/ (sources'[f].digest < disk'[f].bytes /\ ~sources'[f].verified)
  BY <1>1, <1>2, <1>12, Kinds DEF IInv, Replays, LogRead
<1>13. \A f \in Files : Sourced(f)' => ~sources'[f].checked /\ ~sources'[f].verified
  BY <1>1, <1>2 DEF IInv, Verdicts, Undecided
<1> QED BY <1>1, <1>4, <1>5, <1>8, <1>9, <1>10, <1>11, <1>12, <1>13

\* A transaction log is hashed, and the next is turned to.
LEMMA LogAddedKeeps == ASSUME IInv, LogAdded PROVE IInv'
<1>1. /\ phase \in Reading /\ step = "hash" /\ todo # <<>> /\ logs # <<>>
      /\ logs' = Tail(logs) /\ step' = (IF logs' = <<>> THEN "read" ELSE "stat") /\ step' \in {"read", "stat"}
      /\ UNCHANGED <<disk, changes, phase, held, parsed, sequence, case, manifest, observations, warnings,
                     todo, copied>>
  BY DEF LogAdded, Added, Adding, LogsNext, evidence, written
<1>2. /\ phase = "hives" /\ Current = Head(logs) /\ Tail(logs) \in Seq(LogFiles) /\ Current \in Files
      /\ InSeq(logs) = {Head(logs)} \cup InSeq(Tail(logs))
      /\ InSeq(Tail(todo)) \subseteq InSeq(todo) /\ Head(todo) \in Files
  BY <1>1, AtHead, CurrentKnown DEF IInv
<1>3. /\ sources' \in [Files -> SourceRecords \cup {NoSource}] /\ \A f : f = Head(logs) => Sourced(f)'
  BY <1>2, AddedIsFresh DEF LogAdded
<1>4. WarnsMore
  BY <1>1, Warns DEF IInv
<1>5. /\ NoOlder' /\ Numbered' /\ ReadAfterHash' /\ Attested'
      /\ \A f : Accounted(f) => Accounted(f)'
      /\ \A f \in Files : Sourced(f) => Sourced(f)'
      /\ \A f \in HiveFiles : Sourced(f)' /\ sources'[f].replayed =>
           LogRead(f)' \/ (sources'[f].digest < disk'[f].bytes /\ ~sources'[f].verified)
      /\ \A f \in Files : Sourced(f)' => ~sources'[f].checked /\ ~sources'[f].verified
  BY <1>1, <1>4, AddedKeeps DEF LogAdded
<1>6. TypeOK'
  <2>1. TypeOK
    BY DEF IInv
  <2> QED BY <1>1, <1>2, <1>3, <2>1 DEF TypeOK
<1>7. Placed' /\ HeldWas'
  BY <1>1, <1>2 DEF IInv, Placed, HeldWas
<1>8. HashedFirst'
  BY <1>1, <1>2 DEF IInv, HashedFirst, Unopened, Awaited, InHand
<1>9. Replays'
  BY <1>1, <1>2, <1>5 DEF Replays
<1>10. InputsKnown'
  <2>1. \A f : f \in InSeq(logs) \ InSeq(logs') => Accounted(f)'
    BY <1>1, <1>2, <1>3 DEF Accounted
  <2>2. InHand' => logs' = <<>>
    BY <1>1 DEF InHand
  <2> QED BY <1>1, <1>2, <1>5, <2>1, <2>2, EmptyHasNone DEF IInv, InputsKnown
<1>11. NonePassedOver'
  <2>1. \A f \in Artefacts : f \in Files /\ f # Current
    BY <1>1, <1>2, CurrentKnown, Kinds DEF Artefacts, IInv
  <2>2. \A f \in Artefacts : Sourced(f)' <=> Sourced(f)
    BY <2>1, AddedIsFresh DEF LogAdded
  <2>3. \A f \in Artefacts : ToHash(f)' => ToHash(f)
    BY <1>1, <1>2 DEF ToHash, Awaited, InHand
  <2>4. \A f : (Answering(f) => Answering(f)') /\ (Awaiting(f) => Awaiting(f)')
    BY <1>1, <1>2 DEF Answering, Awaiting, Warned
  <2> QED BY <2>2, <2>3, <2>4 DEF IInv, NonePassedOver, Left
<1>12. Verdicts' /\ Kept'
  BY <1>1, <1>2, <1>5 DEF IInv, Verdicts, Undecided, Moved, Kept, Reading
<1> QED BY <1>5, <1>6, <1>7, <1>8, <1>9, <1>10, <1>11, <1>12 DEF IInv

\* A hive is hashed, and its transaction logs are turned to.
LEMMA HiveAddedKeeps == ASSUME IInv, HiveAdded PROVE IInv'
<1>1. /\ phase = "hives" /\ step = "hash" /\ todo # <<>> /\ logs = <<>>
      /\ logs' = LogsOf[Head(todo)]
      /\ step' = (IF logs' = <<>> THEN "read" ELSE "stat") /\ step' \in {"read", "stat"}
      /\ UNCHANGED <<disk, changes, phase, held, parsed, sequence, case, manifest, observations, warnings,
                     todo, copied>>
  BY DEF HiveAdded, Added, Adding, LogsNext, evidence, written
<1>2. /\ Head(todo) \in HiveFiles /\ Current = Head(todo) /\ logs' \in Seq(LogFiles)
      /\ InSeq(Tail(todo)) \subseteq InSeq(todo) /\ Head(todo) \in Files
  BY <1>1, AtHead, HeadKind, CurrentKnown, Kinds DEF IInv, Reading
<1>3. /\ sources' \in [Files -> SourceRecords \cup {NoSource}] /\ \A f : f = Head(todo) => Sourced(f)'
  BY <1>2, AddedIsFresh DEF HiveAdded
<1>4. WarnsMore
  BY <1>1, Warns DEF IInv
<1>5. /\ NoOlder' /\ Numbered' /\ ReadAfterHash' /\ Attested'
      /\ \A f : Accounted(f) => Accounted(f)'
      /\ \A f \in Files : Sourced(f) => Sourced(f)'
      /\ \A f \in HiveFiles : Sourced(f)' /\ sources'[f].replayed =>
           LogRead(f)' \/ (sources'[f].digest < disk'[f].bytes /\ ~sources'[f].verified)
      /\ \A f \in Files : Sourced(f)' => ~sources'[f].checked /\ ~sources'[f].verified
  BY <1>1, <1>4, AddedKeeps DEF HiveAdded
<1>6. TypeOK'
  <2>1. TypeOK
    BY DEF IInv
  <2> QED BY <1>1, <1>2, <1>3, <2>1 DEF TypeOK
<1>7. Placed' /\ HeldWas'
  BY <1>1, <1>2 DEF IInv, Placed, HeldWas
<1>8. HashedFirst'
  BY <1>1, <1>2 DEF IInv, HashedFirst, Unopened, Awaited, InHand
<1>9. Replays'
  BY <1>1, <1>2, <1>5 DEF Replays
<1>10. InputsKnown'
  BY <1>1, <1>2, <1>3, <1>5, EmptyHasNone DEF IInv, InputsKnown
<1>11. NonePassedOver'
  <2>1. Current = Head(todo) /\ Head(todo) \notin InSeq(Tail(todo)) /\ InSeq(todo) = {Head(todo)} \cup InSeq(Tail(todo))
    BY <1>1, CurrentKnown, AtHead DEF IInv, Reading
  <2>2. \A f \in Artefacts : f # Head(todo) => (Sourced(f)' <=> Sourced(f))
    BY <2>1, AddedIsFresh, Kinds DEF HiveAdded, Artefacts
  <2>3. \A f \in Artefacts : ToHash(f)' => ToHash(f) /\ f # Head(todo)
    BY <1>1, <2>1, HeadKind, Kinds DEF ToHash, Awaited, InHand, IInv
  <2>4. \A f : f = Head(todo) => Awaiting(f)'
    BY <1>1, <2>1 DEF Awaiting
  <2>5. \A f : (Answering(f) => Answering(f)') /\ (Awaiting(f) => Awaiting(f)')
    BY <1>1 DEF Answering, Awaiting, Warned
  <2> QED BY <2>2, <2>3, <2>4, <2>5 DEF IInv, NonePassedOver, Left
<1>12. Verdicts' /\ Kept'
  BY <1>1, <1>2, <1>5 DEF IInv, Verdicts, Undecided, Moved, Kept, Reading
<1> QED BY <1>5, <1>6, <1>7, <1>8, <1>9, <1>10, <1>11, <1>12 DEF IInv

\* A shortcut, jump list, prefetch file or SetupAPI log is hashed, and read next.
LEMMA LinkAddedKeeps == ASSUME IInv, LinkAdded PROVE IInv'
<1>1. /\ phase = "links" /\ step = "hash" /\ todo # <<>> /\ logs = <<>> /\ logs' = <<>> /\ step' = "read"
      /\ UNCHANGED <<disk, changes, phase, held, parsed, sequence, case, manifest, observations, warnings,
                     todo, copied>>
  BY DEF LinkAdded, Added, Adding, LogsNext, evidence, written
<1>2. /\ Current = Head(todo) /\ InSeq(Tail(todo)) \subseteq InSeq(todo) /\ Head(todo) \in Files
  BY <1>1, AtHead, CurrentKnown DEF IInv, Reading
<1>3. /\ sources' \in [Files -> SourceRecords \cup {NoSource}] /\ \A f : f = Head(todo) => Sourced(f)'
  BY <1>2, AddedIsFresh DEF LinkAdded
<1>4. WarnsMore
  BY <1>1, Warns DEF IInv
<1>5. /\ NoOlder' /\ Numbered' /\ ReadAfterHash' /\ Attested'
      /\ \A f : Accounted(f) => Accounted(f)'
      /\ \A f \in Files : Sourced(f) => Sourced(f)'
      /\ \A f \in HiveFiles : Sourced(f)' /\ sources'[f].replayed =>
           LogRead(f)' \/ (sources'[f].digest < disk'[f].bytes /\ ~sources'[f].verified)
      /\ \A f \in Files : Sourced(f)' => ~sources'[f].checked /\ ~sources'[f].verified
  BY <1>1, <1>4, AddedKeeps DEF LinkAdded
<1>6. TypeOK' /\ Placed' /\ HeldWas'
  BY <1>1, <1>3 DEF IInv, TypeOK, Placed, HeldWas
<1>7. HashedFirst'
  BY <1>1, <1>2 DEF IInv, HashedFirst, Unopened, Awaited, InHand
<1>8. Replays' /\ InputsKnown'
  BY <1>1, <1>2, <1>3, <1>5 DEF IInv, Replays, InputsKnown
<1>9. NonePassedOver'
  <2>1. Current = Head(todo) /\ Head(todo) \notin InSeq(Tail(todo)) /\ InSeq(todo) = {Head(todo)} \cup InSeq(Tail(todo))
    BY <1>1, CurrentKnown, AtHead DEF IInv, Reading
  <2>2. \A f \in Artefacts : f # Head(todo) => (Sourced(f)' <=> Sourced(f))
    BY <2>1, AddedIsFresh, Kinds DEF LinkAdded, Artefacts
  <2>3. \A f \in Artefacts : ToHash(f)' => ToHash(f) /\ f # Head(todo)
    BY <1>1, <2>1, HeadKind, Kinds DEF ToHash, Awaited, InHand, IInv
  <2>4. \A f : f = Head(todo) => Awaiting(f)'
    BY <1>1, <2>1 DEF Awaiting
  <2>5. \A f : (Answering(f) => Answering(f)') /\ (Awaiting(f) => Awaiting(f)')
    BY <1>1 DEF Answering, Awaiting, Warned
  <2> QED BY <2>2, <2>3, <2>4, <2>5 DEF IInv, NonePassedOver, Left
<1>10. Verdicts' /\ Kept'
  BY <1>1, <1>5 DEF IInv, Verdicts, Undecided, Moved, Kept, Reading
<1> QED BY <1>5, <1>6, <1>7, <1>8, <1>9, <1>10 DEF IInv

\* An event log is hashed, already parsed, and will be recorded if its parse gave records.
LEMMA EventAddedKeeps == ASSUME IInv, EventAdded PROVE IInv'
<1>1. /\ phase = "events" /\ step = "hash" /\ todo # <<>> /\ logs = <<>>
      /\ step' = "stat" /\ logs' = <<>> /\ copied' = {} /\ todo' = Tail(todo)
      /\ UNCHANGED <<disk, changes, phase, held, parsed, sequence, case, manifest, observations>>
  BY DEF EventAdded, Added, Adding, Finished, evidence, written
<1>2. /\ Current = Head(todo) /\ Head(todo) \in EventFiles /\ Head(todo) \in Files
      /\ Tail(todo) \in Seq(Files) /\ InSeq(todo) = {Head(todo)} \cup InSeq(Tail(todo))
      /\ Head(todo) \notin InSeq(Tail(todo)) /\ IsInjective(Tail(todo))
  BY <1>1, AtHead, HeadKind, CurrentKnown DEF IInv, Reading
<1>3. /\ sources' \in [Files -> SourceRecords \cup {NoSource}] /\ \A f : f = Head(todo) => Sourced(f)'
  BY <1>2, AddedIsFresh DEF EventAdded
<1>4. \/ /\ parsed[Head(todo)] = Unread
         /\ warnings' = warnings \cup {[severity |-> "failed", file |-> Head(todo)]}
      \/ /\ parsed[Head(todo)] # Unread
         /\ UNCHANGED warnings \/ warnings' = warnings \cup {[severity |-> "malformed", file |-> Head(todo)]}
  BY <1>2 DEF EventAdded, Warn
<1>5. WarnsMore /\ \A f : f = Head(todo) /\ parsed[f] = Unread => Warned(f)'
  BY <1>2, <1>4, Warns DEF IInv
<1>6. /\ NoOlder' /\ Numbered' /\ ReadAfterHash' /\ Attested'
      /\ \A f : Accounted(f) => Accounted(f)'
      /\ \A f \in Files : Sourced(f) => Sourced(f)'
      /\ \A f \in HiveFiles : Sourced(f)' /\ sources'[f].replayed =>
           LogRead(f)' \/ (sources'[f].digest < disk'[f].bytes /\ ~sources'[f].verified)
      /\ \A f \in Files : Sourced(f)' => ~sources'[f].checked /\ ~sources'[f].verified
  BY <1>1, <1>5, AddedKeeps DEF EventAdded
<1>7. TypeOK'
  <2>1. TypeOK
    BY DEF IInv
  <2> QED BY <1>1, <1>2, <1>3, <1>5, <2>1 DEF TypeOK, WarnsMore
<1>8. Placed' /\ HeldWas'
  BY <1>1, <1>2 DEF IInv, Placed, HeldWas
<1>9. HashedFirst'
  BY <1>1, <1>2 DEF IInv, HashedFirst, Unopened
<1>10. Replays' /\ InputsKnown'
  BY <1>1, <1>6 DEF IInv, Replays, InputsKnown, InHand
<1>11. NonePassedOver'
  <2>1. \A f : Answering(f) => Answering(f)'
    BY <1>1, <1>5 DEF Answering, WarnsMore
  <2>2. \A f : f = Head(todo) => Answering(f)' \/ f \in Recorded'
    BY <1>1, <1>2, <1>3, <1>5 DEF Answering, Recorded, Sourced
  <2>3. Recorded \subseteq Recorded'
    BY <1>1, <1>6, Kinds DEF Recorded, Sourced
  <2>4. \A f : Awaiting(f) => Awaiting(f)' \/ f = Head(todo)
    BY <1>1, <1>2, <2>3 DEF Awaiting
  <2>5. \A f : f \in Recorded' => Awaiting(f)'
    BY <1>1 DEF Awaiting
  <2>8. \A f \in Artefacts \ EventFiles : (ToHash(f)' => ToHash(f)) /\ (Sourced(f)' <=> Sourced(f))
    <3>1. Current \in EventFiles /\ \A f \in Artefacts \ EventFiles : f \in Files /\ f # Current
      BY <1>1, CurrentKnown, HeadKind, Kinds DEF Artefacts, IInv, Reading
    <3>2. \A f \in Artefacts \ EventFiles : Sourced(f)' <=> Sourced(f)
      BY <3>1, AddedIsFresh DEF EventAdded
    <3> QED BY <1>1, <3>2 DEF ToHash
  <2>9. Unwarned \cap EventFiles = {}
    BY Kinds DEF Unwarned
  <2> QED BY <2>1, <2>2, <2>4, <2>5, <2>8, <2>9 DEF IInv, NonePassedOver, Left
<1>12. Verdicts' /\ Kept'
  <2>1. \A w \in warnings' : w.severity # "moved"
    BY <1>1, <1>5 DEF IInv, Verdicts, Reading, WarnsMore
  <2> QED BY <1>1, <1>6, <2>1 DEF IInv, Verdicts, Undecided, Moved, Kept, Reading
<1> QED BY <1>6, <1>7, <1>8, <1>9, <1>10, <1>11, <1>12 DEF IInv

-----------------------------------------------------------------------------
(* What is read.                                                            *)

\* An artefact in hand is done with: whatever it gave was read since it was hashed, from
\* itself or a log of its own, and its phase has its answer.
Gives(new) ==
  /\ observations' = observations \cup {new} /\ new \in Observations
  /\ \A f : f = Head(todo) => new.source = f
  /\ \A r \in new.read : /\ r[1] \notin EventFiles => ReadSince(r[1], r[2])
                         /\ Accounted(r[1]) /\ ~Unopened(r[1])
  /\ new.time # NoTime => /\ phase = "links" /\ Sourced(Head(todo))
                          /\ sources[Head(todo)].modified <= new.time /\ new.time <= disk[Head(todo)].modified

\* What is in hand, or read with it, is no longer to be hashed.
LEMMA InHandIsOpened ==
    ASSUME TypeOK, Placed, InHand, phase \in Reading
    PROVE  /\ todo # <<>> /\ Head(todo) \in Files /\ ~Unopened(Head(todo))
           /\ phase \in {"hives", "links"} /\ Head(todo) \notin EventFiles /\ logs = <<>>
           /\ phase = "hives" => Head(todo) \in HiveFiles /\ \A l \in InSeq(LogsOf[Head(todo)]) :
                                                   l \in Files /\ l \in LogFiles /\ l \notin EventFiles /\ ~Unopened(l)
<1>1. todo # <<>> /\ phase \in {"hives", "links"} /\ logs = <<>>
  BY DEF Placed, InHand, Reading
<1>2. /\ Head(todo) \in Files /\ Head(todo) \notin InSeq(Tail(todo)) /\ InSeq(todo) = {Head(todo)} \cup InSeq(Tail(todo))
      /\ Awaited = InSeq(Tail(todo)) /\ Awaited \subseteq InSeq(todo)
  BY <1>1, AtHead DEF Awaited
<1>3. CASE phase = "links"
  BY <1>1, <1>2, <1>3, HeadKind, Kinds DEF Unopened
<1>4. CASE phase = "hives"
  <2>1. Head(todo) \in HiveFiles /\ Awaited \subseteq HiveFiles
    BY <1>1, <1>2, <1>4, HeadKind DEF Placed
  <2>2. ~Unopened(Head(todo))
    BY <1>2, <1>4, <2>1, Kinds DEF Unopened
  <2>3. ASSUME NEW l \in InSeq(LogsOf[Head(todo)])
        PROVE  l \in Files /\ l \in LogFiles /\ l \notin EventFiles /\ ~Unopened(l)
    <3>1. l \in LogFiles /\ l \in Files /\ l \notin EventFiles
      BY <2>1, Kinds
    <3>2. \A h \in Awaited : l \notin InSeq(LogsOf[h])
      BY <1>2, <2>1, PlacedOnceAssumption
    <3> QED BY <1>4, <2>1, <3>1, <3>2, Kinds DEF Unopened
  <2> QED BY <1>1, <1>2, <1>4, <2>1, <2>2, <2>3, Kinds
<1> QED BY <1>1, <1>3, <1>4

\* Done with, with a fact, a warning or both, and its source left as it was.
LEMMA FinishedKeeps ==
    ASSUME IInv, phase \in Reading, InHand, Finished, WarnsMore, sources' \in [Files -> SourceRecords \cup {NoSource}],
           UNCHANGED <<disk, changes, phase, held, parsed, case, manifest, sequence>>,
           UNCHANGED observations \/ \E new : Gives(new),
           \A f : f = Head(todo) => Answering(f)',
           \A f \in Files : /\ Sourced(f)' <=> Sourced(f)
                            /\ Sourced(f) => /\ sources'[f].sequence = sources[f].sequence
                                             /\ sources'[f].digest = sources[f].digest
                                             /\ sources'[f].modified = sources[f].modified
                                             /\ sources'[f].checked = sources[f].checked
                                             /\ sources'[f].verified = sources[f].verified,
           \A f \in HiveFiles : Sourced(f) /\ sources'[f].replayed =>
             sources[f].replayed \/ LogRead(f)' \/ (sources[f].digest < disk[f].bytes /\ ~sources[f].verified)
    PROVE  IInv'
<1>1. /\ step' = "stat" /\ logs' = <<>> /\ copied' = {} /\ todo' = Tail(todo) /\ todo # <<>> /\ logs = <<>>
      /\ phase \in {"hives", "links"} /\ Head(todo) \in Files /\ Tail(todo) \in Seq(Files)
      /\ InSeq(todo) = {Head(todo)} \cup InSeq(Tail(todo))
      /\ Head(todo) \notin InSeq(Tail(todo)) /\ IsInjective(Tail(todo))
  BY InHandIsOpened, AtHead DEF IInv, Finished
<1>2. /\ observations \subseteq observations' /\ observations' \subseteq Observations
      /\ \A o \in observations' \ observations : Gives(o)
  <2>1. CASE UNCHANGED observations
    BY <2>1 DEF IInv, TypeOK
  <2>2. CASE \E new : Gives(new)
    <3>1. PICK new : Gives(new)
      BY <2>2
    <3>2. observations' = observations \cup {new} /\ new \in Observations
      BY <3>1 DEF Gives
    <3> QED BY <3>1, <3>2 DEF IInv, TypeOK
  <2> QED BY <2>1, <2>2
<1>3. \A f : LogRead(f) => LogRead(f)'
  BY <1>2 DEF LogRead
<1>4. TypeOK'
  <2>1. TypeOK
    BY DEF IInv
  <2> QED BY <1>1, <1>2, <2>1 DEF TypeOK, WarnsMore
<1>5. Placed' /\ HeldWas'
  BY <1>1 DEF IInv, Placed, HeldWas
<1>6. NoOlder' /\ Numbered'
  BY <1>1 DEF IInv, NoOlder, Numbered, Sourced
<1>7. ReadAfterHash'
  <2>1. \A f \in Files, b \in Nat : ReadSince(f, b) => ReadSince(f, b)'
    BY DEF ReadSince
  <2>2. ASSUME NEW o \in observations' PROVE \A r \in o.read : r[1] \notin EventFiles => ReadSince(r[1], r[2])'
    <3>1. \A r \in o.read : r[1] \in Files /\ r[2] \in Nat
      BY <1>2 DEF Observations
    <3>2. CASE o \in observations
      BY <2>1, <3>1, <3>2 DEF IInv, ReadAfterHash
    <3>3. CASE o \notin observations
      BY <1>2, <2>1, <3>1, <3>3 DEF Gives
    <3> QED BY <3>2, <3>3
  <2>3. ASSUME NEW o \in observations', o.time # NoTime
        PROVE  /\ o.source \in Files /\ Sourced(o.source)'
               /\ sources'[o.source].modified <= o.time /\ o.time <= disk[o.source].modified
    <3>1. CASE o \in observations
      BY <2>3, <3>1 DEF IInv, ReadAfterHash
    <3>2. CASE o \notin observations
      BY <1>1, <1>2, <2>3, <3>2 DEF Gives
    <3> QED BY <3>1, <3>2
  <2> QED BY <1>1, <2>2, <2>3 DEF ReadAfterHash
<1>8. HashedFirst'
  <2>1. \A f \in Files : Unopened(f)' => Unopened(f) /\ f # Head(todo)
    BY <1>1, InHandIsOpened DEF Unopened, Awaited, InHand, IInv
  <2>2. \A f \in Files : Unopened(f)' =>
          \A o \in observations' : (\A r \in o.read : r[1] # f) /\ (o.time # NoTime => o.source # f)
    BY <1>2, <2>1 DEF IInv, HashedFirst, Gives
  <2> QED BY <1>1, <2>2 DEF HashedFirst
<1>9. Attested'
  BY DEF IInv, Attested, Verdicts, Undecided
<1>10. Replays'
  BY <1>1, <1>3, Kinds DEF IInv, Replays
<1>11. InputsKnown'
  <2>1. ASSUME NEW f \in Files, Accounted(f) PROVE Accounted(f)'
    BY <2>1 DEF Accounted, WarnsMore
  <2>2. ASSUME NEW o \in observations' PROVE \A r \in o.read : Accounted(r[1])'
    <3>1. \A r \in o.read : r[1] \in Files
      BY <1>2 DEF Observations
    <3>2. \A r \in o.read : Accounted(r[1])
      BY <1>2 DEF Gives, IInv, InputsKnown
    <3> QED BY <2>1, <3>1, <3>2
  <2> QED BY <1>1, <2>2 DEF InputsKnown, InHand
<1>12. NonePassedOver'
  <2>1. \A f : Answering(f) => Answering(f)'
    BY <1>2 DEF Answering, WarnsMore
  <2>2. \A f : Awaiting(f) => Awaiting(f)' \/ f = Head(todo)
    BY <1>1 DEF Awaiting, Recorded
  <2>8. \A f \in Artefacts : (ToHash(f)' => ToHash(f)) /\ (Sourced(f)' <=> Sourced(f))
    BY <1>1, Kinds DEF ToHash, Awaited, InHand, Artefacts
  <2> QED BY <2>1, <2>2, <2>8 DEF IInv, NonePassedOver, Left
<1>13. Verdicts' /\ Kept'
  BY <1>1 DEF IInv, WarnsMore, Verdicts, Undecided, Decided, Kept, Reading
<1> QED BY <1>4, <1>5, <1>6, <1>7, <1>8, <1>9, <1>10, <1>11, <1>12, <1>13 DEF IInv

\* A hive that will not load, and a link that will not parse, are warned of.
LEMMA UnreadableKeeps == ASSUME IInv, HiveUnreadable \/ LinkUnreadable PROVE IInv'
<1>1. /\ phase \in Reading /\ InHand /\ Finished
      /\ UNCHANGED <<disk, changes, phase, held, parsed, case, manifest, sequence, sources, observations>>
  BY DEF HiveUnreadable, LinkUnreadable, Reading, InHand, evidence, written
<1>2. Head(todo) \in Files
  BY <1>1, InHandIsOpened DEF IInv
<1>3. \/ warnings' = warnings \cup {[severity |-> "failed", file |-> Head(todo)]}
      \/ warnings' = warnings \cup {[severity |-> "malformed", file |-> Head(todo)]}
  BY DEF HiveUnreadable, LinkUnreadable, Warn
<1>4. WarnsMore /\ \A f : f = Head(todo) => Answering(f)'
  BY <1>2, <1>3, Warns DEF IInv, Answering
<1>5. sources' \in [Files -> SourceRecords \cup {NoSource}] /\ \A f \in Files : Sourced(f)' <=> Sourced(f)
  BY <1>1 DEF IInv, TypeOK, Sourced
<1> QED BY <1>1, <1>4, <1>5, FinishedKeeps

\* A hive whose recovery failed is read as it is stored.
LEMMA OpenPlainKeeps == ASSUME IInv, OpenPlain PROVE IInv'
<1> DEFINE read == {<<Head(todo), disk[Head(todo)].bytes>>}
           new == [source |-> Head(todo), read |-> read, time |-> NoTime]
<1>1. /\ phase = "hives" /\ phase \in Reading /\ InHand /\ Finished
      /\ observations' = observations \cup {new}
      /\ warnings' = warnings \cup {[severity |-> "malformed", file |-> Head(todo)]}
      /\ UNCHANGED <<disk, changes, phase, held, parsed, case, manifest, sequence, sources>>
  BY DEF OpenPlain, Reading, InHand, Observe, Warn, evidence, written
<1>2. /\ Head(todo) \in Files /\ ~Unopened(Head(todo)) /\ Sourced(Head(todo))
      /\ disk[Head(todo)].bytes \in Nat
  BY <1>1, InHandIsOpened DEF IInv, InputsKnown, TypeOK
<1>3. ReadSince(Head(todo), disk[Head(todo)].bytes)
  BY <1>2 DEF ReadSince, IInv, NoOlder
<1>4. new \in Observations /\ new.source = Head(todo) /\ new.read = read /\ new.time = NoTime
  BY <1>2 DEF Observations
<1>5. \A r \in read : ReadSince(r[1], r[2]) /\ Accounted(r[1]) /\ ~Unopened(r[1])
  BY <1>2, <1>3 DEF Accounted
<1> HIDE DEF new, read
<1>6. \E o : Gives(o)
  BY <1>1, <1>4, <1>5 DEF Gives
<1>7. WarnsMore /\ \A f : f = Head(todo) => Answering(f)'
  BY <1>1, <1>2, Warns DEF IInv, Answering
<1>8. sources' \in [Files -> SourceRecords \cup {NoSource}] /\ \A f \in Files : Sourced(f)' <=> Sourced(f)
  BY <1>1 DEF IInv, TypeOK, Sourced
<1> QED BY <1>1, <1>6, <1>7, <1>8, FinishedKeeps

\* A link is recorded with the last-written time its file has now.
LEMMA RecordLinkKeeps == ASSUME IInv, RecordLink PROVE IInv'
<1> DEFINE time == IF disk[Head(todo)].there THEN disk[Head(todo)].modified ELSE NoTime
           new == [source |-> Head(todo), read |-> copied, time |-> time]
<1>1. /\ phase = "links" /\ phase \in Reading /\ InHand /\ step = "record" /\ Finished
      /\ observations' = observations \cup {new}
      /\ UNCHANGED <<disk, changes, phase, held, parsed, case, manifest, sequence, sources, warnings>>
  BY DEF RecordLink, Reading, InHand, Observe, evidence, written
<1>2. /\ Head(todo) \in Files /\ ~Unopened(Head(todo)) /\ Sourced(Head(todo))
      /\ disk[Head(todo)].modified \in Nat /\ copied \subseteq Files \X Nat
  BY <1>1, InHandIsOpened DEF IInv, InputsKnown, TypeOK
<1>3. time \in Nat \cup {NoTime}
  BY <1>2
<1>4. new \in Observations /\ new.source = Head(todo) /\ new.read = copied /\ new.time = time
  BY <1>2, <1>3 DEF Observations
<1>5. \A r \in copied : /\ r[1] \notin EventFiles => ReadSince(r[1], r[2])
                        /\ Accounted(r[1]) /\ ~Unopened(r[1])
  BY <1>1, <1>2 DEF IInv, ReadAfterHash, InputsKnown, Replays
<1>6. time # NoTime => /\ sources[Head(todo)].modified <= time /\ time <= disk[Head(todo)].modified
  BY <1>2 DEF IInv, NoOlder
<1> HIDE DEF new, time
<1>7. \E o : Gives(o)
  BY <1>1, <1>2, <1>4, <1>5, <1>6 DEF Gives
<1>8. WarnsMore
  BY <1>1, Warns DEF IInv
<1>9. \A f : f = Head(todo) => Answering(f)'
  BY <1>1, <1>4 DEF Answering
<1>10. sources' \in [Files -> SourceRecords \cup {NoSource}] /\ \A f \in Files : Sourced(f)' <=> Sourced(f)
  BY <1>1 DEF IInv, TypeOK, Sourced
<1> QED BY <1>1, <1>7, <1>8, <1>9, <1>10, FinishedKeeps

\* A recovered hive is recorded, and said to have been replayed where the hive, read once
\* more, is not what the copy is.  A copy of nothing but the hive differs only where the hive
\* changed since, and then its digest will not hold.
LEMMA CompareKeeps == ASSUME IInv, CompareAndRecord PROVE IInv'
<1> DEFINE new == [source |-> Head(todo), read |-> copied, time |-> NoTime]
           there == [sources[Head(todo)] EXCEPT !.replayed = Differs(Head(todo))]
<1>1. /\ phase = "hives" /\ phase \in Reading /\ InHand /\ step = "compare" /\ Finished
      /\ observations' = observations \cup {new}
      /\ sources' = [sources EXCEPT ![Head(todo)] = there]
      /\ UNCHANGED <<disk, changes, phase, held, parsed, case, manifest, sequence, warnings>>
  BY DEF CompareAndRecord, Reading, InHand, Observe, evidence, written
<1>2. /\ Head(todo) \in Files /\ Head(todo) \in HiveFiles /\ ~Unopened(Head(todo)) /\ Sourced(Head(todo))
      /\ disk[Head(todo)].bytes \in Nat /\ copied \subseteq Files \X Nat /\ Head(todo) \notin EventFiles
      /\ sources[Head(todo)] \in SourceRecords
      /\ \A l \in InSeq(LogsOf[Head(todo)]) : l \in LogFiles /\ ~Unopened(l)
  BY <1>1, InHandIsOpened DEF IInv, InputsKnown, TypeOK, Sourced
<1>3. PICK b \in 0..changes : /\ <<Head(todo), b>> \in copied
                              /\ \A r \in copied : r = <<Head(todo), b>> \/ r[1] \in InSeq(LogsOf[Head(todo)])
  BY <1>1 DEF IInv, Replays
<1>4. new \in Observations /\ new.source = Head(todo) /\ new.read = copied /\ new.time = NoTime
  BY <1>2 DEF Observations
<1>5. \A r \in copied : /\ r[1] \notin EventFiles => ReadSince(r[1], r[2])
                        /\ Accounted(r[1]) /\ ~Unopened(r[1])
  BY <1>2, <1>3 DEF IInv, ReadAfterHash, InputsKnown
<1>6. Differs(Head(todo)) \in BOOLEAN
  BY DEF Differs, IInv, TypeOK
<1>7. /\ there \in SourceRecords /\ there.replayed = Differs(Head(todo))
      /\ there.sequence = sources[Head(todo)].sequence /\ there.digest = sources[Head(todo)].digest
      /\ there.modified = sources[Head(todo)].modified
      /\ there.checked = sources[Head(todo)].checked /\ there.verified = sources[Head(todo)].verified
  BY <1>2, <1>6 DEF SourceRecords
<1> HIDE DEF new, there
<1>8. \E o : Gives(o)
  BY <1>1, <1>4, <1>5 DEF Gives
<1>9. \A f : f = Head(todo) => Answering(f)'
  BY <1>1, <1>4 DEF Answering
<1>10. WarnsMore
  BY <1>1, Warns DEF IInv
<1>11. /\ sources' \in [Files -> SourceRecords \cup {NoSource}] /\ sources'[Head(todo)] = there
       /\ \A f \in Files : f # Head(todo) => sources'[f] = sources[f]
  BY <1>1, <1>2, <1>7 DEF IInv, TypeOK
<1>12. \A f \in Files : /\ Sourced(f)' <=> Sourced(f)
                        /\ Sourced(f) => /\ sources'[f].sequence = sources[f].sequence
                                         /\ sources'[f].digest = sources[f].digest
                                         /\ sources'[f].modified = sources[f].modified
                                         /\ sources'[f].checked = sources[f].checked
                                         /\ sources'[f].verified = sources[f].verified
  BY <1>2, <1>7, <1>11, SourceAssumption DEF Sourced
<1>13. ASSUME Differs(Head(todo)), \A r \in copied : r[1] \notin LogFiles
       PROVE  sources[Head(todo)].digest < disk[Head(todo)].bytes
  <2>1. copied = {<<Head(todo), b>>}
    BY <1>2, <1>3, <1>13
  <2>2. Cardinality(copied) = 1
    BY <2>1, FS_Singleton
  <2>3. disk[Head(todo)].bytes # b
    BY <1>13, <2>1, <2>2 DEF Differs
  <2>4. ReadSince(Head(todo), b)
    BY <1>2, <1>3 DEF IInv, ReadAfterHash
  <2>5. sources[Head(todo)].digest \in Nat
    BY <1>2 DEF SourceRecords
  <2> QED BY <1>2, <2>3, <2>4, <2>5 DEF ReadSince
<1>14. ~sources[Head(todo)].verified
  BY <1>1, <1>2 DEF IInv, Verdicts, Undecided
<1>15. ASSUME NEW f \in HiveFiles, Sourced(f), sources'[f].replayed
       PROVE  sources[f].replayed \/ LogRead(f)' \/ (sources[f].digest < disk[f].bytes /\ ~sources[f].verified)
  <2>1. CASE f # Head(todo)
    BY <1>11, <1>15, <2>1, Kinds
  <2>2. CASE f = Head(todo) /\ \E r \in copied : r[1] \in LogFiles
    BY <1>1, <1>4, <2>2 DEF LogRead
  <2>3. CASE f = Head(todo) /\ \A r \in copied : r[1] \notin LogFiles
    BY <1>7, <1>11, <1>13, <1>14, <1>15, <2>3
  <2> QED BY <2>1, <2>2, <2>3
<1> QED BY <1>1, <1>8, <1>9, <1>10, <1>11, <1>12, <1>15, FinishedKeeps

\* What a hive's copy, or a link's parse, is made of was read since it was hashed.
LEMMA TakenKeeps ==
    ASSUME IInv, phase \in Reading, InHand, InHand', WarnsMore, copied' \subseteq Files \X Nat,
           step' \in {"read", "compare", "record"}, phase = "hives" => step' = "compare",
           phase = "links" => step' = "record",
           UNCHANGED <<disk, changes, phase, todo, logs, held, parsed, case, manifest, sequence, sources,
                       observations>>,
           \A r \in copied' : /\ r[2] = disk[r[1]].bytes
                              /\ r[1] # Head(todo) => phase = "hives" /\ r[1] \in InSeq(LogsOf[Head(todo)]),
           phase = "hives" => <<Head(todo), disk[Head(todo)].bytes>> \in copied'
    PROVE  IInv'
<1>1. /\ todo # <<>> /\ phase \in {"hives", "links"} /\ logs = <<>> /\ Head(todo) \in Files
      /\ Head(todo) \notin EventFiles /\ ~Unopened(Head(todo)) /\ Sourced(Head(todo))
      /\ \A r \in copied' : r[1] \in Files /\ ~Unopened(r[1]) /\ Accounted(r[1])
  <2>1. /\ todo # <<>> /\ phase \in {"hives", "links"} /\ logs = <<>> /\ Head(todo) \in Files
        /\ Head(todo) \notin EventFiles /\ ~Unopened(Head(todo)) /\ Sourced(Head(todo))
    BY InHandIsOpened DEF IInv, InputsKnown
  <2>2. ASSUME NEW l, phase = "hives", l \in InSeq(LogsOf[Head(todo)])
        PROVE  l \in Files /\ ~Unopened(l) /\ Accounted(l)
    BY <2>1, <2>2, InHandIsOpened, EmptyHasNone DEF IInv, InputsKnown
  <2> QED BY <2>1, <2>2 DEF Accounted
<1>2. TypeOK' /\ Placed' /\ HeldWas'
  <2>1. TypeOK'
    <3>1. TypeOK
      BY DEF IInv
    <3>2. warnings' \subseteq Warnings
      BY DEF WarnsMore
    <3> QED BY <3>1, <3>2 DEF TypeOK
  <2>2. Placed'
    BY <1>1 DEF IInv, Placed
  <2>3. HeldWas'
    BY <1>1 DEF IInv, HeldWas
  <2> QED BY <2>1, <2>2, <2>3
<1>3. NoOlder' /\ Numbered' /\ Attested'
  BY DEF IInv, NoOlder, Numbered, Attested, Sourced
<1>4. ReadAfterHash'
  <2>1. \A f \in Files, b \in Nat : ReadSince(f, b)' <=> ReadSince(f, b)
    BY DEF ReadSince, Sourced
  <2>2. \A o \in observations : \A r \in o.read : r[1] \in Files /\ r[2] \in Nat
    BY DEF IInv, TypeOK, Observations
  <2>3. \A r \in copied' : ReadSince(r[1], r[2])'
    <3>1. \A f \in Files : Sourced(f) => sources[f].digest <= disk[f].bytes /\ disk[f].bytes \in Nat
      BY DEF IInv, NoOlder, TypeOK
    <3> QED BY <1>1, <3>1 DEF ReadSince, Sourced
  <2> QED BY <2>1, <2>2, <2>3 DEF IInv, ReadAfterHash, Sourced
<1>5. HashedFirst'
  <2>1. \A f : Unopened(f)' <=> Unopened(f)
    BY DEF Unopened, Awaited
  <2> QED BY <1>1, <2>1 DEF IInv, HashedFirst
<1>6. Replays'
  <2>1. disk[Head(todo)].bytes \in 0..changes
    BY <1>1 DEF IInv, TypeOK, NoOlder
  <2>2. phase = "hives" => \A r \in copied' : \/ r = <<Head(todo), disk[Head(todo)].bytes>>
                                              \/ r[1] \in InSeq(LogsOf[Head(todo)])
    OBVIOUS
  <2> QED BY <1>1, <2>1, <2>2 DEF IInv, Replays, LogRead, Sourced
<1>7. InputsKnown'
  <2>1. \A f : Accounted(f) => Accounted(f)'
    BY DEF Accounted, Sourced, WarnsMore
  <2> QED BY <1>1, <2>1 DEF IInv, InputsKnown, Sourced
<1>8. NonePassedOver'
  <2>1. \A f : Answering(f) => Answering(f)'
    BY DEF Answering, WarnsMore
  <2>2. \A f : Awaiting(f) => Awaiting(f)'
    BY <1>1 DEF Awaiting
  <2>8. \A f \in Artefacts : (ToHash(f)' => ToHash(f)) /\ (Sourced(f)' <=> Sourced(f))
    BY <1>1, <1>2 DEF ToHash, Sourced, Awaited, InHand
  <2> QED BY <2>1, <2>2, <2>8 DEF IInv, NonePassedOver, Left
<1>9. Verdicts' /\ Kept'
  BY <1>1 DEF IInv, WarnsMore, Verdicts, Undecided, Sourced, Kept, Reading
<1> QED BY <1>2, <1>3, <1>4, <1>5, <1>6, <1>7, <1>8, <1>9 DEF IInv

\* RecoverHive takes the hive and the logs that are there.
LEMMA RecoverKeeps == ASSUME IInv, Recover PROVE IInv'
<1>1. /\ phase = "hives" /\ phase \in Reading /\ InHand /\ step' = "compare" /\ InHand'
      /\ UNCHANGED <<disk, changes, phase, todo, logs, held, parsed, case, manifest, sequence, sources,
                     observations, warnings>>
  BY DEF Recover, Reading, InHand, evidence, ledger, written
<1>2. PICK applied \in SUBSET {l \in InSeq(LogsOf[Head(todo)]) : disk[l].there} :
        copied' = {<<f, disk[f].bytes>> : f \in applied \cup {Head(todo)}}
  BY DEF Recover
<1>3. \A f \in applied \cup {Head(todo)} : f \in Files /\ disk[f].bytes \in Nat
  BY <1>1, InHandIsOpened DEF IInv, TypeOK
<1>4. /\ copied' \subseteq Files \X Nat
      /\ \A r \in copied' : /\ r[2] = disk[r[1]].bytes
                            /\ r[1] # Head(todo) => r[1] \in InSeq(LogsOf[Head(todo)])
      /\ <<Head(todo), disk[Head(todo)].bytes>> \in copied'
  BY <1>2, <1>3
<1>5. WarnsMore
  BY <1>1, Warns DEF IInv
<1> QED BY <1>1, <1>4, <1>5, TakenKeeps

\* A link's parse takes the link.
LEMMA ParseLinkKeeps == ASSUME IInv, ParseLink PROVE IInv'
<1>1. /\ phase = "links" /\ phase \in Reading /\ InHand /\ step' = "record" /\ InHand'
      /\ copied' = {<<Head(todo), disk[Head(todo)].bytes>>}
      /\ UNCHANGED <<disk, changes, phase, todo, logs, held, parsed, case, manifest, sequence, sources,
                     observations>>
      /\ \/ UNCHANGED warnings
         \/ warnings' = warnings \cup {[severity |-> "malformed", file |-> Head(todo)]}
  BY DEF ParseLink, Reading, InHand, Warn, evidence, written
<1>2. Head(todo) \in Files /\ disk[Head(todo)].bytes \in Nat
  BY <1>1, InHandIsOpened DEF IInv, TypeOK
<1>3. WarnsMore
  BY <1>1, <1>2, Warns DEF IInv
<1> QED BY <1>1, <1>2, <1>3, TakenKeeps

-----------------------------------------------------------------------------
(* The event logs.                                                          *)

\* A worker parses one of the logs that are left.
LEMMA ParseEventLogKeeps == ASSUME IInv, NEW i \in 1..Len(todo), ParseEventLog(i) PROVE IInv'
<1>1. /\ phase = "events" /\ step = "parse" /\ todo' = Without(todo, i)
      /\ parsed' = [parsed EXCEPT ![todo[i]] = IF disk[todo[i]].there THEN disk[todo[i]].bytes ELSE Unread]
      /\ UNCHANGED <<disk, changes, phase, step, logs, held, copied, sequence, sources, observations, warnings,
                     case, manifest>>
  BY DEF ParseEventLog, Without, evidence, ledger, written
<1>2. /\ todo' \in Seq(Files) /\ IsInjective(todo') /\ InSeq(todo') \subseteq InSeq(todo)
      /\ todo[i] \in EventFiles /\ todo[i] \in Files
  <2>1. todo \in Seq(Files) /\ IsInjective(todo) /\ InSeq(todo) \subseteq EventFiles
    BY <1>1 DEF IInv, TypeOK, Placed
  <2>2. todo[i] \in InSeq(todo)
    BY DEF InSeq
  <2>3. /\ Without(todo, i) \in Seq(Files) /\ IsInjective(Without(todo, i))
        /\ InSeq(Without(todo, i)) = InSeq(todo) \ {todo[i]}
    BY <2>1, WithoutOne
  <2> QED BY <1>1, <2>1, <2>2, <2>3, Kinds
<1>3. TypeOK'
  <2>1. TypeOK
    BY DEF IInv
  <2> QED BY <1>1, <1>2, <2>1 DEF TypeOK
<1>4. Placed' /\ HeldWas' /\ NoOlder' /\ Numbered' /\ ReadAfterHash' /\ Attested'
  BY <1>1, <1>2 DEF IInv, Placed, HeldWas, NoOlder, Numbered, ReadAfterHash, ReadSince, Attested, Sourced
<1>5. HashedFirst' /\ Replays' /\ InputsKnown'
  BY <1>1 DEF IInv, HashedFirst, Unopened, Replays, LogRead, InputsKnown, Accounted, Warned, Sourced, InHand, Reading
<1>6. NonePassedOver'
  <2>1. \A f : Answering(f) => Answering(f)'
    BY <1>1 DEF Answering, Warned
  <2>2. \A f : Awaiting(f) => Awaiting(f)'
    BY <1>1, <1>2 DEF Awaiting, IInv, Placed, Recorded
  <2>8. \A f \in Artefacts : (ToHash(f)' => ToHash(f)) /\ (Sourced(f)' <=> Sourced(f))
    BY <1>1, <1>2 DEF ToHash, Sourced, Awaited, InHand
  <2> QED BY <2>1, <2>2, <2>8 DEF IInv, NonePassedOver, Left
<1>7. Verdicts' /\ Kept'
  BY <1>1 DEF IInv, Verdicts, Undecided, Moved, Sourced, Kept, Reading
<1> QED BY <1>3, <1>4, <1>5, <1>6, <1>7 DEF IInv

\* The parse returns, and every log is to be hashed.
LEMMA ParseReturnsKeeps == ASSUME IInv, ParseReturns PROVE IInv'
<1>1. /\ phase = "events" /\ step = "parse" /\ todo = <<>> /\ todo' = EventLogs /\ step' = "stat"
      /\ UNCHANGED <<disk, changes, phase, logs, held, copied, parsed, sequence, sources, observations, warnings,
                     case, manifest>>
  BY DEF ParseReturns, evidence, ledger, written
<1>2. todo' \in Seq(Files) /\ IsInjective(todo') /\ InSeq(todo') = EventFiles
  BY <1>1, Kinds
<1>3. TypeOK'
  <2>1. TypeOK
    BY DEF IInv
  <2> QED BY <1>1, <1>2, <2>1 DEF TypeOK
<1>4. Placed' /\ HeldWas' /\ NoOlder' /\ Numbered' /\ ReadAfterHash' /\ Attested'
  BY <1>1, <1>2 DEF IInv, Placed, HeldWas, NoOlder, Numbered, ReadAfterHash, ReadSince, Attested, Sourced
<1>5. HashedFirst' /\ Replays' /\ InputsKnown'
  BY <1>1 DEF IInv, HashedFirst, Unopened, Replays, LogRead, InputsKnown, Accounted, Warned, Sourced, InHand, Reading
<1>6. NonePassedOver'
  <2>1. \A f : Answering(f) => Answering(f)'
    BY <1>1 DEF Answering, Warned
  <2>2. \A f : Awaiting(f) => Awaiting(f)'
    BY <1>1, <1>2, EmptyHasNone DEF Awaiting, Recorded
  <2>8. \A f \in Artefacts : (ToHash(f)' => ToHash(f)) /\ (Sourced(f)' <=> Sourced(f))
    BY <1>1, <1>2 DEF ToHash, Sourced, Awaited, InHand
  <2> QED BY <2>1, <2>2, <2>8 DEF IInv, NonePassedOver, Left
<1>7. Verdicts' /\ Kept'
  BY <1>1 DEF IInv, Verdicts, Undecided, Moved, Sourced, Kept, Reading
<1> QED BY <1>3, <1>4, <1>5, <1>6, <1>7 DEF IInv

\* What was parsed is recorded where it has a source, and warned of where it has none.
LEMMA RecordEventsKeeps == ASSUME IInv, RecordEvents PROVE IInv'
<1>1. /\ phase = "events" /\ step = "stat" /\ todo = <<>> /\ phase' = "links" /\ todo' = Links
      /\ warnings' = warnings \cup {[severity |-> "failed", file |-> f] : f \in Unattested}
      /\ UNCHANGED <<disk, changes, step, logs, held, copied, parsed, sequence, sources, case, manifest>>
  BY DEF RecordEvents, evidence, written
<1>2. PICK withDisks \in SUBSET EventFiles :
        observations' = observations
          \cup {[source |-> f, read |-> {<<f, parsed[f]>>}, time |-> NoTime] : f \in Recorded}
          \cup {[source |-> NoSource, read |-> {<<f, parsed[f]>>}, time |-> NoTime] : f \in Unattested \cap withDisks}
  BY DEF RecordEvents
<1>3. /\ todo' \in Seq(Files) /\ IsInjective(todo') /\ InSeq(todo') = LinkFiles
      /\ Recorded \subseteq EventFiles /\ Unattested \subseteq EventFiles /\ EventFiles \subseteq Files
      /\ \A f \in Recorded \cup Unattested : parsed[f] \in Nat
  BY <1>1, Kinds DEF Recorded, Unattested, IInv, TypeOK
<1>4. \A o \in observations' \ observations :
        /\ o.time = NoTime /\ o \in Observations
        /\ \A r \in o.read : r[1] \in Recorded \cup Unattested
  <2>1. ASSUME NEW f \in Recorded \cup Unattested, NEW source \in {f, NoSource},
               NEW o, o = [source |-> source, read |-> {<<f, parsed[f]>>}, time |-> NoTime]
        PROVE  o.time = NoTime /\ o \in Observations /\ \A r \in o.read : r[1] \in Recorded \cup Unattested
    BY <1>3, <2>1 DEF Observations
  <2> QED BY <1>2, <2>1
<1>5. WarnsMore /\ \A f \in Unattested : Warned(f)'
  <2>1. \A w \in {[severity |-> "failed", file |-> f] : f \in Unattested} : w.severity = "failed" /\ w \in Warnings
    BY <1>3 DEF Warnings
  <2>2. ASSUME NEW f \in Unattested PROVE Warned(f)'
    <3> DEFINE new == [severity |-> "failed", file |-> f]
    <3>1. new \in warnings' /\ new.file = f
      BY <1>1
    <3> HIDE DEF new
    <3> QED BY <3>1 DEF Warned
  <2>3. \A f : Warned(f) => Warned(f)'
    BY <1>1 DEF Warned
  <2>4. \A f : Moved(f)' <=> Moved(f)
    BY <1>1, <2>1 DEF Moved
  <2> QED BY <1>1, <2>1, <2>2, <2>3, <2>4 DEF WarnsMore, IInv, TypeOK
<1>6. observations \subseteq observations'
  BY <1>2
<1>7. TypeOK'
  <2>1. TypeOK
    BY DEF IInv
  <2> QED BY <1>1, <1>3, <1>4, <1>5, <2>1 DEF TypeOK, WarnsMore
<1>8. Placed' /\ HeldWas' /\ NoOlder' /\ Numbered'
  BY <1>1, <1>3 DEF IInv, Placed, HeldWas, NoOlder, Numbered, Sourced, Reading
<1>9. ReadAfterHash'
  BY <1>1, <1>3, <1>4 DEF IInv, ReadAfterHash, ReadSince, Sourced
<1>10. HashedFirst'
  <2>1. \A f \in Files : Unopened(f)' => f \in LinkFiles /\ f \notin EventFiles /\ Unopened(f)
    BY <1>1, <1>3, Kinds DEF Unopened, Awaited, InHand
  <2> QED BY <1>1, <1>3, <1>4, <2>1 DEF IInv, HashedFirst
<1>11. Attested'
  BY <1>1 DEF IInv, Attested, Verdicts, Undecided, Sourced, Reading
<1>12. Replays'
  BY <1>1, <1>6 DEF IInv, Replays, LogRead, Sourced
<1>13. InputsKnown'
  <2>1. \A f : Accounted(f) => Accounted(f)'
    BY <1>1, <1>5 DEF Accounted, Sourced, WarnsMore
  <2>2. \A f \in Recorded \cup Unattested : Accounted(f)'
    BY <1>1, <1>5 DEF Accounted, Sourced, Recorded
  <2> QED BY <1>1, <1>4, <2>1, <2>2 DEF IInv, InputsKnown, InHand
<1>14. NonePassedOver'
  <2>1. \A f : Answering(f) => Answering(f)'
    BY <1>5, <1>6 DEF Answering, WarnsMore
  <2>2. ASSUME NEW f \in Recorded PROVE Answering(f)'
    <3> DEFINE new == [source |-> f, read |-> {<<f, parsed[f]>>}, time |-> NoTime]
    <3>1. new \in observations' /\ new.source = f
      BY <1>2
    <3> HIDE DEF new
    <3> QED BY <3>1 DEF Answering
  <2>3. \A f \in Artefacts : Awaiting(f) => Awaiting(f)' \/ f \in Recorded
    BY <1>1, <1>3, EmptyHasNone DEF Awaiting
  <2>8. \A f \in Artefacts : (ToHash(f)' => ToHash(f)) /\ (Sourced(f)' <=> Sourced(f))
    BY <1>1, Kinds DEF ToHash, Sourced, Awaited, InHand
  <2> QED BY <2>1, <2>2, <2>3, <2>8 DEF IInv, NonePassedOver, Left
<1>15. Verdicts' /\ Kept'
  BY <1>1, <1>5 DEF IInv, WarnsMore, Verdicts, Undecided, Sourced, Kept, Reading
<1> QED BY <1>7, <1>8, <1>9, <1>10, <1>11, <1>12, <1>13, <1>14, <1>15 DEF IInv

-----------------------------------------------------------------------------
(* Between phases.                                                          *)

\* Reverify's order has every source of the ledger in it, once.
LEMMA InOrderCovers ==
    ASSUME TypeOK, Numbered
    PROVE  /\ InOrder \in Seq(Files) /\ IsInjective(InOrder)
           /\ InSeq(InOrder) = {f \in Files : Sourced(f)}
<1> DEFINE known == {f \in Files : Sourced(f)}
           before(f) == {g \in known : sources[g].sequence < sources[f].sequence}
           n == Cardinality(known)
           number == [f \in known |-> sources[f].sequence]
           rank == [f \in known |-> Cardinality(before(f))]
<1>1. /\ \A f \in known : sources[f].sequence \in 0..sequence /\ sources[f].sequence \in Nat
      /\ \A f, g \in known : sources[f].sequence = sources[g].sequence => f = g
      /\ sequence \in Nat
  <2>1. sequence \in Nat /\ \A f \in known : sources[f] \in SourceRecords
    BY DEF TypeOK, Sourced
  <2>2. \A f \in known : sources[f].sequence \in Nat
    BY <2>1 DEF SourceRecords
  <2>3. /\ \A f \in known : sources[f].sequence <= sequence
        /\ \A f, g \in known : sources[f].sequence = sources[g].sequence => f = g
    BY DEF Numbered
  <2> HIDE DEF known
  <2> QED BY <2>1, <2>2, <2>3
<1>2. IsFiniteSet(known) /\ n \in Nat
  <2>1. number \in Injection(known, 0..sequence)
    <3> HIDE DEF known
    <3> QED BY <1>1 DEF Injection, IsInjective
  <2>2. IsFiniteSet(0..sequence)
    BY <1>1, FS_Interval
  <2> HIDE DEF number, known
  <2>3. IsFiniteSet(known)
    BY <2>1, <2>2, FS_Injection
  <2> QED BY <2>3, FS_CardinalityType
<1>3. ASSUME NEW f \in known
      PROVE  IsFiniteSet(before(f)) /\ Cardinality(before(f)) \in 0..(n - 1)
  <2>1. before(f) \in SUBSET known /\ before(f) # known
    BY <1>1, <1>3
  <2> HIDE DEF known
  <2>2. IsFiniteSet(before(f)) /\ Cardinality(before(f)) <= n /\ Cardinality(before(f)) # n
    BY <1>2, <2>1, FS_Subset
  <2>3. Cardinality(before(f)) \in Nat
    BY <2>2, FS_CardinalityType
  <2> QED BY <1>2, <2>2, <2>3
<1>4. ASSUME NEW f \in known, NEW g \in known, sources[f].sequence < sources[g].sequence
      PROVE  Cardinality(before(f)) # Cardinality(before(g))
  <2>1. before(f) \in SUBSET before(g) /\ before(f) # before(g)
    BY <1>1, <1>4
  <2> HIDE DEF known
  <2> QED BY <1>3, <2>1, FS_Subset
<1>5. ASSUME NEW f \in known, NEW g \in known, Cardinality(before(f)) = Cardinality(before(g))
      PROVE  f = g
  <2>1. ~(sources[f].sequence < sources[g].sequence) /\ ~(sources[g].sequence < sources[f].sequence)
    <3> HIDE DEF known, before
    <3> QED BY <1>4, <1>5
  <2>2. sources[f].sequence = sources[g].sequence
    BY <1>1, <2>1
  <2> QED BY <1>1, <2>2
<1>6. \A i \in 1..n : \E f \in known : Cardinality(before(f)) = i - 1
  <2>1. rank \in Injection(known, 0..(n - 1))
    <3> HIDE DEF known, n, before
    <3> QED BY <1>3, <1>5 DEF Injection, IsInjective
  <2>2. IsFiniteSet(0..(n - 1)) /\ Cardinality(0..(n - 1)) = n
    <3> HIDE DEF n
    <3> QED BY <1>2, FS_Interval
  <2>3. rank \in Surjection(known, 0..(n - 1))
    <3> HIDE DEF known, rank
    <3> QED BY <1>2, <2>1, <2>2, FS_Injection
  <2>4. \A f \in known : rank[f] = Cardinality(before(f))
    OBVIOUS
  <2> HIDE DEF known, n, before, rank
  <2>5. \A i \in 1..n : \E f \in known : rank[f] = i - 1
    BY <1>2, <2>3 DEF Surjection
  <2> QED BY <2>4, <2>5
<1>7. InOrder = [i \in 1..n |-> CHOOSE f \in known : Cardinality(before(f)) = i - 1]
  BY DEF InOrder, Sourced
<1>8. known \subseteq Files
  OBVIOUS
<1> HIDE DEF known, before, n
<1>9. ASSUME NEW i \in 1..n
      PROVE  InOrder[i] \in known /\ Cardinality(before(InOrder[i])) = i - 1
  BY <1>6, <1>7
<1>10. InOrder \in Seq(known) /\ Len(InOrder) = n
  BY <1>2, <1>7, <1>9
<1>11. IsInjective(InOrder)
  BY <1>2, <1>7, <1>9 DEF IsInjective
<1>12. ASSUME NEW f \in known PROVE f \in InSeq(InOrder)
  <2>1. Cardinality(before(f)) + 1 \in 1..n /\ Cardinality(before(f)) \in Nat
    BY <1>2, <1>3
  <2>2. InOrder[Cardinality(before(f)) + 1] = f
    BY <1>5, <1>9, <2>1
  <2> QED BY <1>10, <2>1, <2>2 DEF InSeq
<1>13. InSeq(InOrder) = known
  BY <1>10, <1>12, InItsSet
<1>14. InOrder \in Seq(Files)
  BY <1>8, <1>10
<1> QED BY <1>11, <1>13, <1>14 DEF known

\* The run goes on to its next phase.
LEMMA NextPhaseKeeps == ASSUME IInv, NextPhase PROVE IInv'
<1>1. /\ step = "stat" /\ todo = <<>> /\ logs = <<>>
      /\ UNCHANGED <<disk, changes, logs, held, copied, parsed, sequence, sources, observations, warnings,
                     case, manifest>>
      /\ \/ phase = "hives" /\ phase' = "events" /\ step' = "parse" /\ todo' = EventLogs
         \/ phase = "links" /\ phase' = "verify" /\ step' = "stat" /\ todo' = InOrder
         \/ phase = "verify" /\ phase' = "load" /\ step' = "stat" /\ todo' = <<>>
  BY DEF NextPhase, evidence, ledger, written, IInv, Placed
<1>2. /\ todo' \in Seq(Files) /\ IsInjective(todo')
      /\ phase' = "events" => InSeq(todo') = EventFiles
      /\ phase' = "verify" => InSeq(todo') = {f \in Files : Sourced(f)}
  <2>1. CASE phase = "hives"
    BY <1>1, <2>1, Kinds
  <2>2. CASE phase = "links"
    BY <1>1, <2>2, InOrderCovers DEF IInv
  <2>3. CASE phase = "verify"
    BY <1>1, <2>3, EmptyHasNone
  <2> QED BY <1>1, <2>1, <2>2, <2>3
<1>3. TypeOK'
  <2>1. TypeOK
    BY DEF IInv
  <2> QED BY <1>1, <1>2, <2>1 DEF TypeOK
<1>4. Placed'
  BY <1>1, <1>2 DEF IInv, Placed, Sourced
<1>5. HeldWas' /\ NoOlder' /\ Numbered' /\ ReadAfterHash' /\ Attested'
  BY <1>1 DEF IInv, HeldWas, NoOlder, Numbered, ReadAfterHash, ReadSince, Attested, Sourced
<1>6. HashedFirst'
  <2>1. \A f : Unopened(f)' => Unopened(f)
    BY <1>1 DEF Unopened
  <2> QED BY <1>1, <2>1 DEF IInv, HashedFirst
<1>7. Replays' /\ InputsKnown'
  BY <1>1 DEF IInv, Replays, LogRead, InputsKnown, Accounted, Warned, Sourced, InHand, Reading
<1>8. NonePassedOver'
  <2>1. \A f : Answering(f) => Answering(f)'
    BY <1>1 DEF Answering, Warned
  <2>2. \A f \in Artefacts : f \notin HiveFiles => f \in LinkFiles \cup EventFiles
    BY CustodyAssumption DEF Artefacts
  <2>3. \A f \in Artefacts : Awaiting(f) => Awaiting(f)'
    BY <1>1, <2>2, EmptyHasNone DEF Awaiting, Recorded
  <2>8. \A f \in Artefacts : (ToHash(f)' => ToHash(f)) /\ (Sourced(f)' <=> Sourced(f))
    BY <1>1, <1>2 DEF ToHash, Sourced, Awaited, InHand
  <2> QED BY <2>1, <2>3, <2>8 DEF IInv, NonePassedOver, Left
<1>9. Verdicts'
  <2>1. \A f : (Moved(f)' <=> Moved(f)) /\ (Sourced(f)' <=> Sourced(f))
    BY <1>1 DEF Moved, Sourced
  <2>2. \A f : (Undecided(f)' <=> Undecided(f)) /\ (Decided(f)' <=> Decided(f))
    BY <1>1, <2>1 DEF Undecided, Decided
  <2>3. case = Nothing
    BY <1>1 DEF IInv, Kept, Reading
  <2>4. CASE phase = "hives"
    BY <1>1, <2>1, <2>2, <2>3, <2>4 DEF IInv, Verdicts, Reading
  <2>5. CASE phase = "links"
    BY <1>1, <1>2, <2>1, <2>2, <2>3, <2>5 DEF IInv, Verdicts, Reading
  <2>6. CASE phase = "verify"
    BY <1>1, <2>1, <2>2, <2>3, <2>6, EmptyHasNone DEF IInv, Verdicts, Reading
  <2> QED BY <1>1, <2>4, <2>5, <2>6
<1>10. Kept'
  BY <1>1 DEF IInv, Kept, Reading
<1> QED BY <1>3, <1>4, <1>5, <1>6, <1>7, <1>8, <1>9, <1>10 DEF IInv

-----------------------------------------------------------------------------
(* Reverify.                                                                *)

\* A source of which Reverify knows the size is hashed again; its time is taken first.
LEMMA RestatedKeeps ==
    ASSUME IInv, phase = "verify", step = "stat", step' = "hash", todo # <<>>,
           held' = [size |-> disk[Head(todo)].size, modified |-> disk[Head(todo)].modified],
           UNCHANGED <<disk, changes, phase, todo, logs, copied, parsed, sequence, sources, observations,
                       warnings, case, manifest>>
    PROVE  IInv'
<1>1. Head(todo) \in Files /\ logs = <<>>
  BY AtHead DEF IInv, Placed
<1>2. TypeOK'
  <2>1. TypeOK
    BY DEF IInv
  <2> QED BY <1>1, <2>1 DEF TypeOK
<1>3. Placed' /\ NoOlder' /\ Numbered' /\ ReadAfterHash' /\ Attested'
  BY DEF IInv, Placed, NoOlder, Numbered, ReadAfterHash, ReadSince, Attested, Sourced, Reading
<1>4. HeldWas'
  BY DEF IInv, HeldWas, ReadAfterHash, Reading
<1>5. HashedFirst' /\ Replays' /\ InputsKnown'
  BY DEF IInv, HashedFirst, Unopened, Replays, LogRead, InputsKnown, Accounted, Warned, Sourced, InHand, Reading
<1>6. NonePassedOver'
  BY DEF IInv, NonePassedOver, Answering, Warned, Awaiting, Left, ToHash, Awaited, InHand, Sourced
<1>7. Verdicts' /\ Kept'
  BY DEF IInv, Verdicts, Undecided, Decided, Moved, Sourced, Kept, Reading
<1> QED BY <1>2, <1>3, <1>4, <1>5, <1>6, <1>7 DEF IInv

\* A verdict is given on the source at the head of todo, and is final.
LEMMA VerdictKeeps ==
    ASSUME IInv, phase = "verify", todo # <<>>, NEW stable \in BOOLEAN, Verdict(Head(todo), stable),
           stable => step = "hash" /\ Stable(Head(todo)), held' \in [size : Nat, modified : Nat],
           UNCHANGED <<disk, changes, phase, logs, copied, parsed, sequence, observations, case, manifest>>
    PROVE  IInv'
<1>1. /\ logs = <<>> /\ case = Nothing /\ Head(todo) \in Files /\ Tail(todo) \in Seq(Files)
      /\ InSeq(todo) = {Head(todo)} \cup InSeq(Tail(todo))
      /\ Head(todo) \notin InSeq(Tail(todo)) /\ IsInjective(Tail(todo)) /\ Head(todo) \in InSeq(todo)
  BY AtHead DEF IInv, Placed, Kept
<1>2. /\ sources' = [sources EXCEPT ![Head(todo)].checked = TRUE, ![Head(todo)].verified = stable]
      /\ IF stable THEN warnings' = warnings
         ELSE warnings' = warnings \cup {[severity |-> "moved", file |-> Head(todo)]}
      /\ todo' = Tail(todo) /\ step' = "stat"
  BY DEF Verdict, Warn
<1>3. Sourced(Head(todo)) /\ Undecided(Head(todo)) /\ sources[Head(todo)] \in SourceRecords
  BY <1>1 DEF IInv, Placed, Verdicts, TypeOK, Sourced
<1>4. /\ sources'[Head(todo)] = [sources[Head(todo)] EXCEPT !.checked = TRUE, !.verified = stable]
      /\ sources'[Head(todo)] \in SourceRecords
      /\ \A f \in Files : f # Head(todo) => sources'[f] = sources[f]
  BY <1>1, <1>2, <1>3 DEF IInv, TypeOK, SourceRecords
<1>5. /\ sources' \in [Files -> SourceRecords \cup {NoSource}]
      /\ sources'[Head(todo)].checked /\ (sources'[Head(todo)].verified <=> stable)
      /\ \A f \in Files : /\ Sourced(f)' <=> Sourced(f)
                          /\ Sourced(f) => /\ sources'[f].sequence = sources[f].sequence
                                           /\ sources'[f].digest = sources[f].digest
                                           /\ sources'[f].modified = sources[f].modified
                                           /\ sources'[f].replayed = sources[f].replayed
  <2>1. sources \in [Files -> SourceRecords \cup {NoSource}]
    BY DEF IInv, TypeOK
  <2>2. sources' \in [Files -> SourceRecords \cup {NoSource}]
    BY <1>1, <1>2, <1>4, <2>1
  <2>3. /\ sources'[Head(todo)].checked /\ (sources'[Head(todo)].verified <=> stable)
        /\ sources'[Head(todo)].sequence = sources[Head(todo)].sequence
        /\ sources'[Head(todo)].digest = sources[Head(todo)].digest
        /\ sources'[Head(todo)].modified = sources[Head(todo)].modified
        /\ sources'[Head(todo)].replayed = sources[Head(todo)].replayed
        /\ sources'[Head(todo)] # NoSource
    BY <1>3, <1>4, SourceAssumption DEF SourceRecords
  <2> QED BY <1>1, <1>3, <1>4, <2>2, <2>3 DEF Sourced
<1>6. /\ warnings' \subseteq Warnings /\ warnings \subseteq warnings'
      /\ \A f : Moved(f)' <=> Moved(f) \/ (f = Head(todo) /\ ~stable)
  <2>1. CASE stable
    BY <1>2, <2>1 DEF IInv, TypeOK, Moved
  <2>2. CASE ~stable
    <3> DEFINE new == [severity |-> "moved", file |-> Head(todo)]
    <3>1. warnings' = warnings \cup {new} /\ new.severity = "moved" /\ new.file = Head(todo) /\ new \in Warnings
      BY <1>1, <1>2, <2>2 DEF Warnings
    <3> HIDE DEF new
    <3> QED BY <2>2, <3>1 DEF IInv, TypeOK, Moved
  <2> QED BY <2>1, <2>2
<1>7. \A f : Warned(f) => Warned(f)'
  BY <1>6 DEF Warned
<1>8. TypeOK'
  <2>1. TypeOK
    BY DEF IInv
  <2>2. /\ phase' \in {"hives", "events", "links", "verify", "load", "finalise", "done", "failed"}
        /\ todo' \in Seq(Files) /\ logs' \in Seq(LogFiles) /\ warnings' \subseteq Warnings
        /\ sources' \in [Files -> SourceRecords \cup {NoSource}]
    BY <1>1, <1>2, <1>5, <1>6, <2>1 DEF TypeOK
  <2> QED BY <1>2, <2>1, <2>2 DEF TypeOK
<1>9. Placed' /\ HeldWas'
  <2>1. \A f \in InSeq(Tail(todo)) : f \in Files /\ Sourced(f)
    BY <1>1, InItsSet DEF IInv, Placed
  <2> QED BY <1>1, <1>2, <1>5, <2>1 DEF IInv, Placed, HeldWas
<1>10. NoOlder' /\ Numbered'
  <2>1. NoOlder'
    BY <1>5 DEF IInv, NoOlder
  <2>2. Numbered'
    BY <1>2, <1>5 DEF IInv, Numbered
  <2> QED BY <2>1, <2>2
<1>11. ReadAfterHash' /\ HashedFirst'
  <2>1. \A f \in Files, b \in Nat : ReadSince(f, b) => ReadSince(f, b)'
    BY <1>5 DEF ReadSince
  <2>2. /\ \A o \in observations : \A r \in o.read : r[1] \in Files /\ r[2] \in Nat
        /\ \A r \in copied : r[1] \in Files /\ r[2] \in Nat
    BY DEF IInv, TypeOK, Observations
  <2> QED BY <1>5, <2>1, <2>2 DEF IInv, ReadAfterHash, HashedFirst, Unopened
<1>12. ASSUME stable, NEW o \in observations
       PROVE  /\ Head(todo) \notin EventFiles => \A r \in o.read : r[1] = Head(todo) => r[2] = sources[Head(todo)].digest
              /\ o.source = Head(todo) /\ o.time # NoTime => o.time = sources[Head(todo)].modified
  <2>1. /\ step = "hash" /\ disk[Head(todo)].bytes = sources[Head(todo)].digest
        /\ held.modified = sources[Head(todo)].modified
    BY <1>12 DEF Stable
  <2>2. /\ o.time \in Nat \cup {NoTime} /\ \A r \in o.read : r[2] \in Nat
        /\ sources[Head(todo)].digest \in Nat /\ sources[Head(todo)].modified \in Nat
    BY <1>3 DEF IInv, TypeOK, Observations, SourceRecords
  <2>3. ASSUME o.source = Head(todo), o.time # NoTime PROVE o.time = sources[Head(todo)].modified
    <3>1. o.time <= held.modified
      BY <2>1, <2>3 DEF IInv, HeldWas
    <3>2. sources[Head(todo)].modified <= o.time
      BY <2>3 DEF IInv, ReadAfterHash
    <3> QED BY <2>1, <2>2, <2>3, <3>1, <3>2
  <2>4. ASSUME Head(todo) \notin EventFiles, NEW r \in o.read, r[1] = Head(todo)
        PROVE  r[2] = sources[Head(todo)].digest
    <3>1. ReadSince(Head(todo), r[2])
      BY <2>4 DEF IInv, ReadAfterHash
    <3> QED BY <1>3, <2>1, <2>2, <3>1 DEF ReadSince
  <2> QED BY <2>3, <2>4
<1>13. Attested'
  <2>1. ASSUME NEW f \in Files, Sourced(f), sources'[f].verified, f # Head(todo)
        PROVE  sources[f].verified /\ sources'[f] = sources[f]
    BY <1>4, <2>1
  <2> QED BY <1>5, <1>12, <2>1 DEF IInv, Attested
<1>14. Replays'
  <2>1. \A f : LogRead(f)' <=> LogRead(f)
    BY DEF LogRead
  <2>2. \A f \in HiveFiles : f \in Files
    BY Kinds
  <2>3. ASSUME stable PROVE ~(sources[Head(todo)].digest < disk[Head(todo)].bytes)
    BY <1>3, <2>3 DEF Stable, SourceRecords
  <2>4. ASSUME NEW f \in HiveFiles, Sourced(f), sources[f].replayed
        PROVE  LogRead(f) \/ (sources[f].digest < disk[f].bytes /\ ~sources'[f].verified)
    BY <1>4, <1>5, <2>2, <2>3, <2>4 DEF IInv, Replays
  <2> QED BY <1>5, <2>1, <2>2, <2>4 DEF Replays
<1>15. InputsKnown'
  <2>1. \A f \in Files : Accounted(f) => Accounted(f)'
    BY <1>5, <1>7 DEF Accounted
  <2>2. /\ \A o \in observations : \A r \in o.read : r[1] \in Files
        /\ \A r \in copied : r[1] \in Files
    BY DEF IInv, TypeOK, Observations
  <2> QED BY <2>1, <2>2 DEF IInv, InputsKnown, Reading
<1>16. NonePassedOver'
  <2>1. \A f : Answering(f) => Answering(f)'
    BY <1>7 DEF Answering
  <2>2. \A f : ~Awaiting(f)
    BY DEF Awaiting
  <2>8. \A f \in Artefacts : (ToHash(f)' => ToHash(f)) /\ (Sourced(f)' <=> Sourced(f))
    BY <1>5, Kinds DEF ToHash, Artefacts
  <2> QED BY <2>1, <2>2, <2>8 DEF IInv, NonePassedOver, Left
<1>17. Verdicts'
  <2>1. \A f : f = Head(todo) => Decided(f)'
    BY <1>3, <1>5, <1>6 DEF Decided, Undecided
  <2>2. \A f \in Files : f # Head(todo) => (Undecided(f)' <=> Undecided(f)) /\ (Decided(f)' <=> Decided(f))
    BY <1>4, <1>6 DEF Undecided, Decided
  <2>3. \A f \in Files : f # Head(todo) => (f \in InSeq(todo') <=> f \in InSeq(todo))
    BY <1>1, <1>2
  <2>4. Head(todo) \notin InSeq(todo')
    BY <1>1, <1>2
  <2> QED BY <1>1, <1>5, <2>1, <2>2, <2>3, <2>4 DEF IInv, Verdicts, Reading
<1>18. Kept'
  BY <1>1 DEF IInv, Kept
<1> QED BY <1>8, <1>9, <1>10, <1>11, <1>13, <1>14, <1>15, <1>16, <1>17, <1>18 DEF IInv

\* verifySource, up to its own hash.
LEMMA VerifyStatKeeps == ASSUME IInv, VerifyStat PROVE IInv'
<1>1. /\ phase = "verify" /\ step = "stat" /\ todo # <<>>
      /\ UNCHANGED <<disk, changes, phase, logs, copied, parsed, sequence, observations, case, manifest>>
  BY DEF VerifyStat, evidence, written
<1>2. CASE disk[Head(todo)].there /\ disk[Head(todo)].size = sources[Head(todo)].size
  <2>1. /\ held' = [size |-> disk[Head(todo)].size, modified |-> disk[Head(todo)].modified]
        /\ step' = "hash" /\ UNCHANGED <<todo, sources, warnings>>
    BY <1>2 DEF VerifyStat
  <2> QED BY <1>1, <2>1, RestatedKeeps
<1>3. CASE ~(disk[Head(todo)].there /\ disk[Head(todo)].size = sources[Head(todo)].size)
  <2>1. Verdict(Head(todo), FALSE) /\ UNCHANGED held
    BY <1>3 DEF VerifyStat
  <2>2. held' \in [size : Nat, modified : Nat]
    BY <2>1 DEF IInv, TypeOK
  <2> QED BY <1>1, <2>1, <2>2, VerdictKeeps
<1> QED BY <1>2, <1>3

\* verifySource, from its hash on.
LEMMA VerifyHashKeeps == ASSUME IInv, VerifyHash PROVE IInv'
<1>1. /\ phase = "verify" /\ step = "hash" /\ todo # <<>>
      /\ Verdict(Head(todo), Stable(Head(todo))) /\ held' \in [size : Nat, modified : Nat]
      /\ UNCHANGED <<disk, changes, phase, logs, copied, parsed, sequence, observations, case, manifest>>
  BY DEF VerifyHash, evidence, written, IInv, TypeOK, Placed
<1>2. CASE Stable(Head(todo))
  <2>1. Verdict(Head(todo), TRUE)
    BY <1>1, <1>2 DEF Verdict
  <2> QED BY <1>1, <1>2, <2>1, VerdictKeeps
<1>3. CASE ~Stable(Head(todo))
  <2>1. Stable(Head(todo)) = FALSE
    BY <1>3 DEF Stable
  <2>2. Verdict(Head(todo), FALSE)
    BY <1>1, <2>1 DEF Verdict, Warn
  <2> QED BY <1>1, <2>2, VerdictKeeps
<1> QED BY <1>2, <1>3

-----------------------------------------------------------------------------
(* What is written of the run, and the runs that fail.                      *)

\* Only the phase, the case and the manifest change once the verdicts are given.
LEMMA WrittenKeeps ==
    ASSUME IInv, UNCHANGED <<evidence, step, todo, logs, held, copied, parsed, ledger>>,
           phase' \in {"finalise", "done", "failed"}, (step = "stat" /\ logs = <<>>) \/ phase \notin Reading,
           phase # "verify", Kept', \A f \in Artefacts : Awaiting(f) => Awaiting(f)',
           case' # Nothing \/ phase' # "failed" => phase \in {"load", "finalise"}
    PROVE  IInv'
<1>1. /\ UNCHANGED <<disk, changes, step, todo, logs, held, copied, parsed, sequence, sources, observations, warnings>>
      /\ logs = <<>>
  BY DEF evidence, ledger, IInv, Placed, Reading
<1>2. TypeOK' /\ Placed'
  BY <1>1 DEF IInv, TypeOK, Placed, Reading
<1>3. HeldWas' /\ NoOlder' /\ Numbered' /\ ReadAfterHash' /\ Attested'
  BY <1>1 DEF IInv, HeldWas, NoOlder, Numbered, ReadAfterHash, ReadSince, Attested, Sourced, Reading
<1>4. HashedFirst' /\ Replays' /\ InputsKnown'
  BY <1>1 DEF IInv, HashedFirst, Unopened, Replays, LogRead, InputsKnown, Accounted, Warned, Sourced, Reading
<1>5. NonePassedOver'
  <2>1. \A f : Answering(f) => Answering(f)'
    BY <1>1 DEF Answering, Warned
  <2>8. \A f \in Artefacts : (ToHash(f)' => ToHash(f)) /\ (Sourced(f)' <=> Sourced(f))
    BY <1>1, <1>2 DEF ToHash, Sourced, Awaited, InHand
  <2> QED BY <2>1, <2>8 DEF IInv, NonePassedOver, Left
<1>6. Verdicts'
  <2>1. \A f : (Sourced(f)' <=> Sourced(f)) /\ (Decided(f)' <=> Decided(f))
    BY <1>1 DEF Decided, Moved, Sourced
  <2> QED BY <1>1, <2>1 DEF IInv, Verdicts, Reading
<1> QED BY <1>2, <1>3, <1>4, <1>5, <1>6 DEF IInv

\* Store.LoadLedger.
LEMMA LoadLedgerKeeps == ASSUME IInv, LoadLedger PROVE IInv'
<1>1. /\ phase = "load" /\ phase' = "finalise" /\ case' = Ledger /\ manifest' = manifest
      /\ UNCHANGED <<evidence, step, todo, logs, held, copied, parsed, ledger>>
  BY DEF LoadLedger
<1>2. Ledger' = Ledger
  BY <1>1 DEF Ledger, ledger
<1>3. Kept'
  BY <1>1, <1>2 DEF IInv, Kept, Reading
<1>4. \A f : ~Awaiting(f)
  BY <1>1 DEF Awaiting
<1> QED BY <1>1, <1>3, <1>4, WrittenKeeps DEF Reading

\* Manifest.Finalise.
LEMMA FinaliseKeeps == ASSUME IInv, Finalise PROVE IInv'
<1>1. /\ phase = "finalise" /\ phase' = "done" /\ case' = case
      /\ manifest' = [sources |-> sources, warnings |-> warnings]
      /\ UNCHANGED <<evidence, step, todo, logs, held, copied, parsed, ledger>>
  BY DEF Finalise
<1>2. Ledger' = Ledger /\ sources' = sources /\ warnings' = warnings
  BY <1>1 DEF Ledger, ledger
<1>3. Kept'
  BY <1>1, <1>2 DEF IInv, Kept, Reading
<1>4. \A f : ~Awaiting(f)
  BY <1>1 DEF Awaiting
<1> QED BY <1>1, <1>3, <1>4, WrittenKeeps DEF Reading

\* run() returns an error.
LEMMA RunFailsKeeps == ASSUME IInv, RunFails PROVE IInv'
<1>1. /\ phase \notin {"verify", "done", "failed"} /\ step = "stat" /\ logs = <<>> /\ phase' = "failed"
      /\ case' = case /\ manifest' = manifest
      /\ UNCHANGED <<evidence, step, todo, logs, held, copied, parsed, ledger>>
  BY DEF RunFails, written
<1>2. Ledger' = Ledger /\ sources' = sources /\ warnings' = warnings
  BY <1>1 DEF Ledger, ledger
<1>3. Kept'
  BY <1>1, <1>2 DEF IInv, Kept, Reading
<1>4. \A f : Awaiting(f) => Awaiting(f)'
  BY <1>1 DEF Awaiting, IInv, Kept, Reading
<1>5. case' # Nothing => phase \in {"load", "finalise"}
  BY <1>1 DEF IInv, Kept, Reading, TypeOK
<1> QED BY <1>1, <1>3, <1>4, <1>5, WrittenKeeps

\* Nothing happens.
LEMMA StutterKeeps == ASSUME IInv, UNCHANGED vars PROVE IInv'
<1>1. UNCHANGED <<disk, changes, phase, step, todo, logs, held, copied, parsed, sequence, sources, observations,
                  warnings, case, manifest>>
  BY DEF vars, evidence, control, ledger, written
<1>2. TypeOK' /\ Placed' /\ NoOlder'
  BY <1>1 DEF IInv, TypeOK, Placed, NoOlder, Sourced
<1>3. HeldWas' /\ Numbered' /\ ReadAfterHash' /\ Attested'
  BY <1>1 DEF IInv, HeldWas, Current, Numbered, ReadAfterHash, ReadSince, Attested, Sourced
<1>4. HashedFirst' /\ Replays' /\ InputsKnown'
  BY <1>1 DEF IInv, HashedFirst, Unopened, Awaited, InHand, Replays, LogRead, InputsKnown, Accounted, Warned, Sourced
<1>5. NonePassedOver' /\ Verdicts' /\ Kept'
  BY <1>1 DEF IInv, NonePassedOver, Answering, Awaiting, Recorded, Left, ToHash, Awaited, InHand, Warned, Verdicts, Undecided, Decided,
             Moved, Sourced, Kept, Ledger
<1> QED BY <1>2, <1>3, <1>4, <1>5 DEF IInv

-----------------------------------------------------------------------------
(* The invariant holds.                                                     *)

\* Nothing is hashed or read before the run begins.
LEMMA InitHolds == Init => IInv
<1> SUFFICES ASSUME Init PROVE IInv
  OBVIOUS
<1>1. /\ \A f \in Files : ~Sourced(f) /\ disk[f].bytes = 0 /\ disk[f].modified = 0
      /\ disk = [f \in Files |-> [there |-> TRUE, bytes |-> 0, size |-> 0, modified |-> 0]]
      /\ changes = 0 /\ phase = "hives" /\ step = "stat" /\ todo = Hives /\ logs = <<>>
      /\ copied = {} /\ observations = {} /\ warnings = {} /\ sequence = 0
      /\ case = Nothing /\ manifest = Nothing
  BY DEF Init, Sourced
<1>2. TypeOK
  BY Kinds DEF Init, TypeOK, NoStat, Unread
<1>3. Placed /\ NoOlder /\ HeldWas /\ Numbered /\ ReadAfterHash /\ HashedFirst /\ Attested
  BY <1>1, Kinds DEF Placed, NoOlder, HeldWas, Numbered, ReadAfterHash, HashedFirst, Attested
<1>4. Replays /\ InputsKnown /\ Kept
  BY <1>1, Kinds DEF Replays, InputsKnown, InHand, Kept
<1>5. NonePassedOver /\ Verdicts
  BY <1>1, Kinds DEF NonePassedOver, Artefacts, Awaiting, Verdicts, Sourced, Left, ToHash
<1> QED BY <1>2, <1>3, <1>4, <1>5 DEF IInv

\* Every step of the evidence and of the run keeps it.
LEMMA NextHolds == IInv /\ [Next]_vars => IInv'
<1> SUFFICES ASSUME IInv, [Next]_vars PROVE IInv'
  OBVIOUS
<1>1. CASE EvidenceChanges
  BY <1>1, EvidenceKeeps
<1>2. CASE AddSourceStat \/ AddSourceHash
  BY <1>2, AddSourceCases, StatedKeeps, ArtefactMissedKeeps, LogMissedKeeps, LogAddedKeeps,
     HiveAddedKeeps, LinkAddedKeeps, EventAddedKeeps
<1>3. CASE ReadHives
  BY <1>3, UnreadableKeeps, RecoverKeeps, OpenPlainKeeps, CompareKeeps DEF ReadHives
<1>4. CASE ReadEvents
  BY <1>4, ParseEventLogKeeps, ParseReturnsKeeps, RecordEventsKeeps DEF ReadEvents
<1>5. CASE ReadLinks
  BY <1>5, UnreadableKeeps, ParseLinkKeeps, RecordLinkKeeps DEF ReadLinks
<1>6. CASE NextPhase \/ VerifyStat \/ VerifyHash
  BY <1>6, NextPhaseKeeps, VerifyStatKeeps, VerifyHashKeeps
<1>7. CASE LoadLedger \/ Finalise \/ RunFails
  BY <1>7, LoadLedgerKeeps, FinaliseKeeps, RunFailsKeeps
<1>8. CASE Ended \/ UNCHANGED vars
  BY <1>8, StutterKeeps DEF Ended
<1> QED BY <1>1, <1>2, <1>3, <1>4, <1>5, <1>6, <1>7, <1>8 DEF Next, Run

\* Wherever the evidence is changed under the run, and whatever of it fails, the ledger is
\* one step of the two passes it says it is.
THEOREM Inductive == Spec => []IInv
BY InitHolds, NextHolds, PTL DEF Spec

\* What the case calls verified was parsed from the bytes whose digest it records: the hash,
\* the parse and Reverify's hash are three opens of a path rewritten in between.
THEOREM VerifiedAsRead == Spec => []AttestedAsRead
<1>1. IInv => AttestedAsRead
  <2> SUFFICES ASSUME IInv, case # Nothing, NEW o \in case.observations, NEW r \in o.read,
                      r[1] \notin EventFiles, Attests(case.sources, r[1])
               PROVE  r[2] = case.sources[r[1]].digest
    BY DEF AttestedAsRead
  <2>1. case.sources = sources /\ case.observations = observations
    BY DEF IInv, Kept, Ledger
  <2>2. r[1] \in Files
    BY <2>1 DEF IInv, TypeOK, Observations
  <2> QED BY <2>1, <2>2 DEF IInv, Attested, Attests, Sourced
<1> QED BY <1>1, Inductive, PTL

\* What else the case says of a verified source is so: the time recorded of its own file is
\* that of the opening, and a replay claimed is a log's page read.
THEOREM VerifiedClaims == Spec => []VerifiedClaimsHold
<1>1. IInv => VerifiedClaimsHold
  <2> SUFFICES ASSUME IInv, case # Nothing PROVE TimeAttested /\ ReplayIsReal
    BY DEF VerifiedClaimsHold, TimeAttested, ReplayIsReal
  <2>1. case.sources = sources /\ case.observations = observations
    BY DEF IInv, Kept, Ledger
  <2>2. TimeAttested
    BY <2>1 DEF TimeAttested, IInv, ReadAfterHash, Attested, Attests, Sourced
  <2>3. ReplayIsReal
    BY <2>1, Kinds DEF ReplayIsReal, IInv, Replays, LogRead, Attests, Sourced
  <2> QED BY <2>2, <2>3
<1> QED BY <1>1, Inductive, PTL

\* Whatever was read is a source of the ledger or warned of; whatever was found gave a fact or
\* a warning, or is of the kinds that are passed over, was never hashed and is not in the case.
THEOREM NothingUnanswered == Spec => []InputsAnswered
<1>1. IInv => InputsAnswered
  <2> SUFFICES ASSUME IInv, case # Nothing PROVE InputsAccounted /\ EvidenceAnswered
    BY DEF InputsAnswered, InputsAccounted, EvidenceAnswered, IInv
  <2>1. case.sources = sources /\ case.observations = observations /\ case.warnings = warnings
    BY DEF IInv, Kept, Ledger
  <2>2. InputsAccounted
    BY <2>1 DEF InputsAccounted, IInv, InputsKnown, Accounted, Sourced, Warned
  <2>3. \A f : ~Awaiting(f)
    BY DEF Awaiting, IInv, Kept, Reading
  <2>4. EvidenceAnswered
    BY <2>1, <2>3 DEF EvidenceAnswered, IInv, NonePassedOver, Left, Sourced, Answering, Answered, Warned
  <2> QED BY <2>2, <2>4
<1> QED BY <1>1, Inductive, PTL

\* The manifest says what the case says, every source of it has its verdict, and those that
\* do not verify are warned of, and no others.
THEOREM ManifestComplete == Spec => []CustodyComplete
<1>1. IInv => CustodyComplete
  <2> SUFFICES ASSUME IInv, manifest # Nothing PROVE CustodyComplete
    BY DEF CustodyComplete
  <2>1. /\ phase = "done" /\ manifest = [sources |-> sources, warnings |-> warnings] /\ case = Ledger
    BY DEF IInv, Kept
  <2>2. /\ manifest.sources = sources /\ manifest.warnings = warnings
        /\ case.sources = sources /\ case.warnings = warnings
    BY <2>1 DEF Ledger
  <2>3. \A f \in Files : Sourced(f) => Decided(f)
    BY <2>1 DEF IInv, Verdicts
  <2> QED BY <2>2, <2>3 DEF CustodyComplete, Sourced, Decided, Moved
<1> QED BY <1>1, Inductive, PTL
=============================================================================
