----------------------------- MODULE CaseProofs -----------------------------
(***************************************************************************)
(* The case a run leaves behind.                                           *)
(*                                                                         *)
(* A run lays out its work as programs, sequences of small steps any of    *)
(* which may be its last, so what is true of the case while it is made is  *)
(* seldom what is true of it at the end.  The invariants are about what the *)
(* run has together with what its laid-out steps will add: AllRows, AllCites, *)
(* AllWarns and the rest.  Carrying out a step moves an item from the one to *)
(* the other and changes no total (Same); taking up an artefact or beginning *)
(* a stage adds what that program says (Gains).  So each invariant asks what *)
(* each program lays out, and when nothing is left the totals are the case. *)
(*                                                                         *)
(* The lemmas go from what single steps lay out, over the readers, the     *)
(* artefacts' programs and the stages' work, to the steps of a run, and then *)
(* to one invariant after the other.                                       *)
(***************************************************************************)
EXTENDS Case, FiniteSetTheorems, SequenceTheorems, TLAPS

\* The steps of a program, and what they lay out: the sources, observations, warnings
\* and rows they add, the values they keep, the counts they write, and what they do.
Items(s) == {s[k] : k \in DOMAIN s}
IsProgram(s) == s \in Seq(Items(s))
Of(s, what) == {i \in Items(s) : i.do = what}

SourcesIn(s) == {i.of : i \in Of(s, "source")}
CitesIn(s) == UNION {i.what : i \in Of(s, "observe")}
WarnsIn(s) == UNION {i.what : i \in Of(s, "warn")}
RowsIn(s, t) == UNION {i.rows : i \in {j \in Of(s, "insert") : j.table = t}}
ValuesIn(s, what) == {i.value : i \in Of(s, what)}
CountsIn(s, what) == {i.n : i \in {j \in Of(s, "count") : j.what = what}}
Does(s) == {i.do : i \in Items(s)}

\* Two programs one after the other hold the steps of both.
LEMMA ItemsOfJoin ==
  ASSUME NEW s, NEW u, IsProgram(s), IsProgram(u)
  PROVE  IsProgram(s \o u) /\ Items(s \o u) = Items(s) \cup Items(u)
<1> DEFINE I == Items(s) \cup Items(u)
<1>1. s \in Seq(I) /\ u \in Seq(I)
  BY DEF IsProgram
<1>2. /\ s \o u \in Seq(I) /\ Len(s \o u) = Len(s) + Len(u) /\ DOMAIN s = 1..Len(s)
      /\ DOMAIN u = 1..Len(u) /\ DOMAIN (s \o u) = 1..(Len(s) + Len(u))
      /\ Len(s) \in Nat /\ Len(u) \in Nat
      /\ \A k \in 1..(Len(s) + Len(u)) : (s \o u)[k] = IF k <= Len(s) THEN s[k] ELSE u[k - Len(s)]
  <2> HIDE DEF I
  <2> QED BY <1>1
<1>3. I \subseteq Items(s \o u)
  <2>1. ASSUME NEW k \in DOMAIN s PROVE s[k] \in Items(s \o u)
    BY <1>2, <2>1 DEF Items
  <2>2. ASSUME NEW k \in DOMAIN u PROVE u[k] \in Items(s \o u)
    <3>1. Len(s) + k \in 1..(Len(s) + Len(u)) /\ ~(Len(s) + k <= Len(s)) /\ Len(s) + k - Len(s) = k
      BY <1>2, <2>2
    <3>2. (s \o u)[Len(s) + k] = u[k]
      BY <1>2, <3>1
    <3> QED BY <1>2, <3>1, <3>2 DEF Items
  <2> QED BY <2>1, <2>2 DEF Items
<1>4. Items(s \o u) \subseteq I
  <2> HIDE DEF I
  <2> QED BY <1>2 DEF Items
<1>5. Items(s \o u) = I
  BY <1>3, <1>4
<1> HIDE DEF I
<1> QED BY <1>2, <1>5 DEF IsProgram, I

\* A program of one step holds that step.
LEMMA ItemsOfOne ==
  ASSUME NEW x
  PROVE  IsProgram(<<x>>) /\ Items(<<x>>) = {x}
BY DEF Items, IsProgram

\* The empty program holds none.
LEMMA ItemsOfNone == IsProgram(<<>>) /\ Items(<<>>) = {}
BY DEF Items, IsProgram

\* A program that is not over is its first step and the rest.
LEMMA ItemsUnfold ==
  ASSUME NEW s, IsProgram(s), s # <<>>
  PROVE  /\ IsProgram(Tail(s)) /\ Items(s) = {Head(s)} \cup Items(Tail(s))
         /\ Len(s) \in Nat /\ Len(s) > 0 /\ DOMAIN s = 1..Len(s) /\ Head(s) = s[1]
         /\ Len(Tail(s)) = Len(s) - 1 /\ \A k \in 1..(Len(s) - 1) : Tail(s)[k] = s[k + 1]
<1>1. /\ Len(s) \in Nat /\ Len(s) > 0 /\ DOMAIN s = 1..Len(s) /\ Head(s) = s[1]
      /\ Tail(s) \in Seq(Items(s)) /\ Len(Tail(s)) = Len(s) - 1 /\ DOMAIN Tail(s) = 1..(Len(s) - 1)
      /\ \A k \in 1..(Len(s) - 1) : Tail(s)[k] = s[k + 1]
  BY DEF IsProgram
<1>2. ASSUME NEW k \in DOMAIN s PROVE s[k] \in {Head(s)} \cup Items(Tail(s))
  <2>1. CASE k = 1
    BY <1>1, <2>1
  <2>2. CASE k # 1
    <3>1. k - 1 \in 1..(Len(s) - 1) /\ k - 1 + 1 = k
      BY <1>1, <2>2
    <3>2. Tail(s)[k - 1] = s[k]
      BY <1>1, <3>1
    <3> QED BY <1>1, <3>1, <3>2 DEF Items
  <2> QED BY <2>1, <2>2
<1>3. ASSUME NEW k \in DOMAIN Tail(s) PROVE Tail(s)[k] \in Items(s)
  BY <1>1, <1>3 DEF Items
<1>4. Head(s) \in Items(s)
  BY <1>1 DEF Items
<1>5. Items(s) = {Head(s)} \cup Items(Tail(s))
  BY <1>2, <1>3, <1>4 DEF Items
<1> DEFINE u == Tail(s)
<1>6. u \in Seq(Items(s)) /\ DOMAIN u = 1..Len(u) /\ Len(u) \in Nat
  BY <1>1
<1> HIDE DEF u
<1>7. u = [k \in 1..Len(u) |-> u[k]]
  BY <1>6
<1>8. \A k \in 1..Len(u) : u[k] \in Items(u)
  BY <1>6 DEF Items
<1>9. u \in Seq(Items(u))
  <2> DEFINE J == Items(u)
             n == Len(u)
  <2>1. n \in Nat /\ u = [k \in 1..n |-> u[k]] /\ \A k \in 1..n : u[k] \in J
    BY <1>6, <1>7, <1>8
  <2> HIDE DEF J, n
  <2>2. u \in [1..n -> J]
    BY <2>1
  <2>3. u \in Seq(J)
    BY <2>1, <2>2, SeqDef
  <2> QED BY <2>3 DEF J
<1> QED BY <1>1, <1>5, <1>9 DEF IsProgram, u

\* What a program lays out is told by its steps alone.
LEMMA OfUnion ==
  ASSUME NEW s, NEW u, NEW v, Items(v) = Items(s) \cup Items(u)
  PROVE  /\ SourcesIn(v) = SourcesIn(s) \cup SourcesIn(u)
         /\ CitesIn(v) = CitesIn(s) \cup CitesIn(u)
         /\ WarnsIn(v) = WarnsIn(s) \cup WarnsIn(u)
         /\ \A t : RowsIn(v, t) = RowsIn(s, t) \cup RowsIn(u, t)
         /\ \A w : ValuesIn(v, w) = ValuesIn(s, w) \cup ValuesIn(u, w)
         /\ \A c : CountsIn(v, c) = CountsIn(s, c) \cup CountsIn(u, c)
         /\ Does(v) = Does(s) \cup Does(u)
<1>1. \A w : Of(v, w) = Of(s, w) \cup Of(u, w)
  BY DEF Of
<1>2. SourcesIn(v) = SourcesIn(s) \cup SourcesIn(u)
  BY <1>1 DEF SourcesIn
<1>3. CitesIn(v) = CitesIn(s) \cup CitesIn(u)
  BY <1>1 DEF CitesIn
<1>4. WarnsIn(v) = WarnsIn(s) \cup WarnsIn(u)
  BY <1>1 DEF WarnsIn
<1>5. ASSUME NEW t PROVE RowsIn(v, t) = RowsIn(s, t) \cup RowsIn(u, t)
  BY <1>1 DEF RowsIn
<1>6. ASSUME NEW w PROVE ValuesIn(v, w) = ValuesIn(s, w) \cup ValuesIn(u, w)
  BY <1>1 DEF ValuesIn
<1>7. ASSUME NEW c PROVE CountsIn(v, c) = CountsIn(s, c) \cup CountsIn(u, c)
  BY <1>1 DEF CountsIn
<1>8. Does(v) = Does(s) \cup Does(u)
  BY DEF Does
<1> QED BY <1>2, <1>3, <1>4, <1>5, <1>6, <1>7, <1>8

\* The effects of one program after another are those of both.
LEMMA JoinFacts ==
  \A s, u : IsProgram(s) /\ IsProgram(u) =>
    /\ IsProgram(s \o u)
    /\ SourcesIn(s \o u) = SourcesIn(s) \cup SourcesIn(u)
    /\ CitesIn(s \o u) = CitesIn(s) \cup CitesIn(u)
    /\ WarnsIn(s \o u) = WarnsIn(s) \cup WarnsIn(u)
    /\ \A t : RowsIn(s \o u, t) = RowsIn(s, t) \cup RowsIn(u, t)
    /\ \A w : ValuesIn(s \o u, w) = ValuesIn(s, w) \cup ValuesIn(u, w)
    /\ \A c : CountsIn(s \o u, c) = CountsIn(s, c) \cup CountsIn(u, c)
    /\ Does(s \o u) = Does(s) \cup Does(u)
<1> SUFFICES ASSUME NEW s, NEW u, IsProgram(s), IsProgram(u)
             PROVE  /\ IsProgram(s \o u)
                    /\ SourcesIn(s \o u) = SourcesIn(s) \cup SourcesIn(u)
                    /\ CitesIn(s \o u) = CitesIn(s) \cup CitesIn(u)
                    /\ WarnsIn(s \o u) = WarnsIn(s) \cup WarnsIn(u)
                    /\ \A t : RowsIn(s \o u, t) = RowsIn(s, t) \cup RowsIn(u, t)
                    /\ \A w : ValuesIn(s \o u, w) = ValuesIn(s, w) \cup ValuesIn(u, w)
                    /\ \A c : CountsIn(s \o u, c) = CountsIn(s, c) \cup CountsIn(u, c)
                    /\ Does(s \o u) = Does(s) \cup Does(u)
  OBVIOUS
<1>1. IsProgram(s \o u) /\ Items(s \o u) = Items(s) \cup Items(u)
  BY ItemsOfJoin
<1> QED BY <1>1, OfUnion

\* What one step alone does, and none.
LEMMA OneFacts ==
  ASSUME NEW x
  PROVE  /\ IsProgram(<<x>>) /\ Does(<<x>>) = {x.do}
         /\ SourcesIn(<<x>>) = (IF x.do = "source" THEN {x.of} ELSE {})
         /\ CitesIn(<<x>>) = (IF x.do = "observe" THEN x.what ELSE {})
         /\ WarnsIn(<<x>>) = (IF x.do = "warn" THEN x.what ELSE {})
         /\ \A t : RowsIn(<<x>>, t) = (IF x.do = "insert" /\ x.table = t THEN x.rows ELSE {})
         /\ \A w : ValuesIn(<<x>>, w) = (IF x.do = w THEN {x.value} ELSE {})
         /\ \A c : CountsIn(<<x>>, c) = (IF x.do = "count" /\ x.what = c THEN {x.n} ELSE {})
<1>1. IsProgram(<<x>>) /\ Items(<<x>>) = {x}
  BY ItemsOfOne
<1>2. \A w : Of(<<x>>, w) = (IF x.do = w THEN {x} ELSE {})
  BY <1>1 DEF Of
<1> HIDE <1>1
<1>3. SourcesIn(<<x>>) = (IF x.do = "source" THEN {x.of} ELSE {})
  BY <1>2 DEF SourcesIn
<1>4. CitesIn(<<x>>) = (IF x.do = "observe" THEN x.what ELSE {})
  BY <1>2 DEF CitesIn
<1>5. WarnsIn(<<x>>) = (IF x.do = "warn" THEN x.what ELSE {})
  BY <1>2 DEF WarnsIn
<1>6. ASSUME NEW t
      PROVE  RowsIn(<<x>>, t) = (IF x.do = "insert" /\ x.table = t THEN x.rows ELSE {})
  BY <1>2 DEF RowsIn
<1>7. ASSUME NEW w PROVE ValuesIn(<<x>>, w) = (IF x.do = w THEN {x.value} ELSE {})
  BY <1>2 DEF ValuesIn
<1>8. ASSUME NEW c
      PROVE  CountsIn(<<x>>, c) = (IF x.do = "count" /\ x.what = c THEN {x.n} ELSE {})
  BY <1>2 DEF CountsIn
<1> QED BY <1>1, <1>3, <1>4, <1>5, <1>6, <1>7, <1>8 DEF Does

\* The empty program lays out nothing.
LEMMA NoneFacts ==
  /\ IsProgram(<<>>) /\ SourcesIn(<<>>) = {} /\ CitesIn(<<>>) = {} /\ WarnsIn(<<>>) = {}
  /\ \A t : RowsIn(<<>>, t) = {} /\ \A w : ValuesIn(<<>>, w) = {} /\ \A c : CountsIn(<<>>, c) = {}
  /\ Does(<<>>) = {}
BY ItemsOfNone DEF Of, SourcesIn, CitesIn, WarnsIn, RowsIn, ValuesIn, CountsIn, Does

\* The programs a run is made of, and what each does.
LEMMA ProgramOf ==
  /\ IsProgram(<<>>)
  /\ \A a : IsProgram(Source(a))
  /\ \A what : IsProgram(Observe(what))
  /\ \A artefact, path, severity : IsProgram(Warn(artefact, path, severity))
  /\ \A value : IsProgram(Keep("zone", value))
  /\ \A value : IsProgram(Keep("setting", value))
  /\ \A what, n : IsProgram(Count(what, n))
  /\ \A table, rows : IsProgram(insert(table, rows))
  /\ \A s, u : IsProgram(s) /\ IsProgram(u) => IsProgram(s \o u)
  BY NoneFacts, OneFacts, ItemsOfJoin DEF Source, Observe, Warn, Keep, Count, insert

\* The sources each kind of step records.
LEMMA SourcesOf ==
  /\ SourcesIn(<<>>) = {}
  /\ \A a : SourcesIn(Source(a)) = {a}
  /\ \A what : SourcesIn(Observe(what)) = {}
  /\ \A artefact, path, severity : SourcesIn(Warn(artefact, path, severity)) = {}
  /\ \A value : SourcesIn(Keep("zone", value)) = {}
  /\ \A value : SourcesIn(Keep("setting", value)) = {}
  /\ \A what, n : SourcesIn(Count(what, n)) = {}
  /\ \A table, rows : SourcesIn(insert(table, rows)) = {}
  /\ \A s, u : IsProgram(s) /\ IsProgram(u) => SourcesIn(s \o u) = SourcesIn(s) \cup SourcesIn(u)
<1>1. \A s, u : IsProgram(s) /\ IsProgram(u) => Items(s \o u) = Items(s) \cup Items(u)
  BY ItemsOfJoin
<1>2. SourcesIn(<<>>) = {}
  BY NoneFacts, OneFacts
<1>3. \A a : SourcesIn(Source(a)) = {a}
  BY NoneFacts, OneFacts DEF Source
<1>4. \A what : SourcesIn(Observe(what)) = {}
  BY NoneFacts, OneFacts DEF Observe
<1>5. \A artefact, path, severity : SourcesIn(Warn(artefact, path, severity)) = {}
  BY NoneFacts, OneFacts DEF Warn
<1>6. \A value : SourcesIn(Keep("zone", value)) = {}
  BY NoneFacts, OneFacts DEF Keep
<1>7. \A value : SourcesIn(Keep("setting", value)) = {}
  BY NoneFacts, OneFacts DEF Keep
<1>8. \A what, n : SourcesIn(Count(what, n)) = {}
  BY NoneFacts, OneFacts DEF Count
<1>9. \A table, rows : SourcesIn(insert(table, rows)) = {}
  BY NoneFacts, OneFacts DEF insert
<1>10. \A s, u : IsProgram(s) /\ IsProgram(u) => SourcesIn(s \o u) = SourcesIn(s) \cup SourcesIn(u)
  BY <1>1, OfUnion
<1> QED BY <1>2, <1>3, <1>4, <1>5, <1>6, <1>7, <1>8, <1>9, <1>10

\* The observations each kind of step records.
LEMMA CitesOf ==
  /\ CitesIn(<<>>) = {}
  /\ \A a : CitesIn(Source(a)) = {}
  /\ \A what : CitesIn(Observe(what)) = what
  /\ \A artefact, path, severity : CitesIn(Warn(artefact, path, severity)) = {}
  /\ \A value : CitesIn(Keep("zone", value)) = {}
  /\ \A value : CitesIn(Keep("setting", value)) = {}
  /\ \A what, n : CitesIn(Count(what, n)) = {}
  /\ \A table, rows : CitesIn(insert(table, rows)) = {}
  /\ \A s, u : IsProgram(s) /\ IsProgram(u) => CitesIn(s \o u) = CitesIn(s) \cup CitesIn(u)
<1>1. \A s, u : IsProgram(s) /\ IsProgram(u) => Items(s \o u) = Items(s) \cup Items(u)
  BY ItemsOfJoin
<1>2. CitesIn(<<>>) = {}
  BY NoneFacts, OneFacts
<1>3. \A a : CitesIn(Source(a)) = {}
  BY NoneFacts, OneFacts DEF Source
<1>4. ASSUME NEW what PROVE CitesIn(Observe(what)) = what
  <2> DEFINE x == [do |-> "observe", what |-> what]
  <2>1. x.do = "observe" /\ x.what = what /\ Observe(what) = <<x>>
    BY DEF Observe
  <2> HIDE DEF x
  <2> QED BY <2>1, OneFacts
<1>5. \A artefact, path, severity : CitesIn(Warn(artefact, path, severity)) = {}
  BY NoneFacts, OneFacts DEF Warn
<1>6. \A value : CitesIn(Keep("zone", value)) = {}
  BY NoneFacts, OneFacts DEF Keep
<1>7. \A value : CitesIn(Keep("setting", value)) = {}
  BY NoneFacts, OneFacts DEF Keep
<1>8. \A what, n : CitesIn(Count(what, n)) = {}
  BY NoneFacts, OneFacts DEF Count
<1>9. \A table, rows : CitesIn(insert(table, rows)) = {}
  BY NoneFacts, OneFacts DEF insert
<1>10. \A s, u : IsProgram(s) /\ IsProgram(u) => CitesIn(s \o u) = CitesIn(s) \cup CitesIn(u)
  BY <1>1, OfUnion
<1> QED BY <1>2, <1>3, <1>4, <1>5, <1>6, <1>7, <1>8, <1>9, <1>10

\* The warnings each kind of step raises.
LEMMA WarnsOf ==
  /\ WarnsIn(<<>>) = {}
  /\ \A a : WarnsIn(Source(a)) = {}
  /\ \A what : WarnsIn(Observe(what)) = {}
  /\ \A artefact, path, severity : WarnsIn(Warn(artefact, path, severity))
          = {[artefact |-> artefact, path |-> path, severity |-> severity]}
  /\ \A value : WarnsIn(Keep("zone", value)) = {}
  /\ \A value : WarnsIn(Keep("setting", value)) = {}
  /\ \A what, n : WarnsIn(Count(what, n)) = {}
  /\ \A table, rows : WarnsIn(insert(table, rows)) = {}
  /\ \A s, u : IsProgram(s) /\ IsProgram(u) => WarnsIn(s \o u) = WarnsIn(s) \cup WarnsIn(u)
<1>1. \A s, u : IsProgram(s) /\ IsProgram(u) => Items(s \o u) = Items(s) \cup Items(u)
  BY ItemsOfJoin
<1>2. WarnsIn(<<>>) = {}
  BY NoneFacts, OneFacts
<1>3. \A a : WarnsIn(Source(a)) = {}
  BY NoneFacts, OneFacts DEF Source
<1>4. \A what : WarnsIn(Observe(what)) = {}
  BY NoneFacts, OneFacts DEF Observe
<1>5. \A artefact, path, severity : WarnsIn(Warn(artefact, path, severity))
           = {[artefact |-> artefact, path |-> path, severity |-> severity]}
  BY NoneFacts, OneFacts DEF Warn
<1>6. \A value : WarnsIn(Keep("zone", value)) = {}
  BY NoneFacts, OneFacts DEF Keep
<1>7. \A value : WarnsIn(Keep("setting", value)) = {}
  BY NoneFacts, OneFacts DEF Keep
<1>8. \A what, n : WarnsIn(Count(what, n)) = {}
  BY NoneFacts, OneFacts DEF Count
<1>9. \A table, rows : WarnsIn(insert(table, rows)) = {}
  BY NoneFacts, OneFacts DEF insert
<1>10. \A s, u : IsProgram(s) /\ IsProgram(u) => WarnsIn(s \o u) = WarnsIn(s) \cup WarnsIn(u)
  BY <1>1, OfUnion
<1> QED BY <1>2, <1>3, <1>4, <1>5, <1>6, <1>7, <1>8, <1>9, <1>10

\* The rows each kind of step inserts.
LEMMA RowsOf ==
  /\ \A t : RowsIn(<<>>, t) = {}
  /\ \A a, t : RowsIn(Source(a), t) = {}
  /\ \A what, t : RowsIn(Observe(what), t) = {}
  /\ \A artefact, path, severity, t : RowsIn(Warn(artefact, path, severity), t) = {}
  /\ \A value, t : RowsIn(Keep("zone", value), t) = {}
  /\ \A value, t : RowsIn(Keep("setting", value), t) = {}
  /\ \A what, n, t : RowsIn(Count(what, n), t) = {}
  /\ \A table, rows, t : RowsIn(insert(table, rows), t) = (IF t = table THEN rows ELSE {})
  /\ \A s, u, t : IsProgram(s) /\ IsProgram(u) => RowsIn(s \o u, t) = RowsIn(s, t) \cup RowsIn(u, t)
<1>1. \A s, u : IsProgram(s) /\ IsProgram(u) => Items(s \o u) = Items(s) \cup Items(u)
  BY ItemsOfJoin
<1>2. \A t : RowsIn(<<>>, t) = {}
  BY NoneFacts, OneFacts
<1>3. \A a, t : RowsIn(Source(a), t) = {}
  BY NoneFacts, OneFacts DEF Source
<1>4. \A what, t : RowsIn(Observe(what), t) = {}
  BY NoneFacts, OneFacts DEF Observe
<1>5. \A artefact, path, severity, t : RowsIn(Warn(artefact, path, severity), t) = {}
  BY NoneFacts, OneFacts DEF Warn
<1>6. \A value, t : RowsIn(Keep("zone", value), t) = {}
  BY NoneFacts, OneFacts DEF Keep
<1>7. \A value, t : RowsIn(Keep("setting", value), t) = {}
  BY NoneFacts, OneFacts DEF Keep
<1>8. \A what, n, t : RowsIn(Count(what, n), t) = {}
  BY NoneFacts, OneFacts DEF Count
<1>9. ASSUME NEW table, NEW rows, NEW t
      PROVE  RowsIn(insert(table, rows), t) = (IF t = table THEN rows ELSE {})
  <2> DEFINE x == [do |-> "insert", table |-> table, rows |-> rows]
  <2>1. /\ x.do = "insert" /\ x.table = table /\ x.rows = rows
        /\ insert(table, rows) = IF rows = {} THEN <<>> ELSE <<x>>
    BY DEF insert
  <2> HIDE DEF x
  <2>2. /\ RowsIn(<<>>, t) = {}
        /\ RowsIn(<<x>>, t) = (IF x.do = "insert" /\ x.table = t THEN x.rows ELSE {})
    BY NoneFacts, OneFacts
  <2>3. CASE rows = {}
    BY <2>1, <2>2, <2>3
  <2>4. CASE rows # {}
    BY <2>1, <2>2, <2>4
  <2> QED BY <2>3, <2>4
<1>10. \A s, u, t : IsProgram(s) /\ IsProgram(u) => RowsIn(s \o u, t) = RowsIn(s, t) \cup RowsIn(u, t)
  BY <1>1, OfUnion
<1> QED BY <1>2, <1>3, <1>4, <1>5, <1>6, <1>7, <1>8, <1>9, <1>10

\* The zone or setting each kind of step keeps.
LEMMA ValuesOf ==
  /\ \A w : ValuesIn(<<>>, w) = {}
  /\ \A a : \A w \in {"zone", "setting"} : ValuesIn(Source(a), w) = {}
  /\ \A what : \A w \in {"zone", "setting"} : ValuesIn(Observe(what), w) = {}
  /\ \A artefact, path, severity : \A w \in {"zone", "setting"} : ValuesIn(Warn(artefact, path, severity), w) = {}
  /\ \A value : \A w \in {"zone", "setting"} : ValuesIn(Keep("zone", value), w)
          = (IF w = "zone" THEN {value} ELSE {})
  /\ \A value : \A w \in {"zone", "setting"} : ValuesIn(Keep("setting", value), w)
          = (IF w = "setting" THEN {value} ELSE {})
  /\ \A what, n : \A w \in {"zone", "setting"} : ValuesIn(Count(what, n), w) = {}
  /\ \A table, rows : \A w \in {"zone", "setting"} : ValuesIn(insert(table, rows), w) = {}
  /\ \A s, u, w : IsProgram(s) /\ IsProgram(u) => ValuesIn(s \o u, w) = ValuesIn(s, w) \cup ValuesIn(u, w)
<1>1. \A s, u : IsProgram(s) /\ IsProgram(u) => Items(s \o u) = Items(s) \cup Items(u)
  BY ItemsOfJoin
<1>2. \A w : ValuesIn(<<>>, w) = {}
  BY NoneFacts, OneFacts
<1>3. \A a : \A w \in {"zone", "setting"} : ValuesIn(Source(a), w) = {}
  BY NoneFacts, OneFacts DEF Source
<1>4. \A what : \A w \in {"zone", "setting"} : ValuesIn(Observe(what), w) = {}
  BY NoneFacts, OneFacts DEF Observe
<1>5. \A artefact, path, severity : \A w \in {"zone", "setting"} : ValuesIn(Warn(artefact, path, severity), w) = {}
  BY NoneFacts, OneFacts DEF Warn
<1>6. \A value : \A w \in {"zone", "setting"} : ValuesIn(Keep("zone", value), w)
           = (IF w = "zone" THEN {value} ELSE {})
  BY NoneFacts, OneFacts DEF Keep
<1>7. \A value : \A w \in {"zone", "setting"} : ValuesIn(Keep("setting", value), w)
           = (IF w = "setting" THEN {value} ELSE {})
  BY NoneFacts, OneFacts DEF Keep
<1>8. \A what, n : \A w \in {"zone", "setting"} : ValuesIn(Count(what, n), w) = {}
  BY NoneFacts, OneFacts DEF Count
<1>9. \A table, rows : \A w \in {"zone", "setting"} : ValuesIn(insert(table, rows), w) = {}
  BY NoneFacts, OneFacts DEF insert
<1>10. \A s, u, w : IsProgram(s) /\ IsProgram(u) => ValuesIn(s \o u, w) = ValuesIn(s, w) \cup ValuesIn(u, w)
  BY <1>1, OfUnion
<1> QED BY <1>2, <1>3, <1>4, <1>5, <1>6, <1>7, <1>8, <1>9, <1>10

\* The count each kind of step writes.
LEMMA CountsOf ==
  /\ \A c : CountsIn(<<>>, c) = {}
  /\ \A a, c : CountsIn(Source(a), c) = {}
  /\ \A what, c : CountsIn(Observe(what), c) = {}
  /\ \A artefact, path, severity, c : CountsIn(Warn(artefact, path, severity), c) = {}
  /\ \A value, c : CountsIn(Keep("zone", value), c) = {}
  /\ \A value, c : CountsIn(Keep("setting", value), c) = {}
  /\ \A what, n, c : CountsIn(Count(what, n), c) = (IF c = what THEN {n} ELSE {})
  /\ \A table, rows, c : CountsIn(insert(table, rows), c) = {}
  /\ \A s, u, c : IsProgram(s) /\ IsProgram(u) => CountsIn(s \o u, c) = CountsIn(s, c) \cup CountsIn(u, c)
<1>1. \A s, u : IsProgram(s) /\ IsProgram(u) => Items(s \o u) = Items(s) \cup Items(u)
  BY ItemsOfJoin
<1>2. \A c : CountsIn(<<>>, c) = {}
  BY NoneFacts, OneFacts
<1>3. \A a, c : CountsIn(Source(a), c) = {}
  BY NoneFacts, OneFacts DEF Source
<1>4. \A what, c : CountsIn(Observe(what), c) = {}
  BY NoneFacts, OneFacts DEF Observe
<1>5. \A artefact, path, severity, c : CountsIn(Warn(artefact, path, severity), c) = {}
  BY NoneFacts, OneFacts DEF Warn
<1>6. \A value, c : CountsIn(Keep("zone", value), c) = {}
  BY NoneFacts, OneFacts DEF Keep
<1>7. \A value, c : CountsIn(Keep("setting", value), c) = {}
  BY NoneFacts, OneFacts DEF Keep
<1>8. ASSUME NEW what, NEW n, NEW c
      PROVE  CountsIn(Count(what, n), c) = (IF c = what THEN {n} ELSE {})
  <2> DEFINE x == [do |-> "count", what |-> what, n |-> n]
  <2>1. x.do = "count" /\ x.what = what /\ x.n = n /\ Count(what, n) = <<x>>
    BY DEF Count
  <2> HIDE DEF x
  <2>2. CountsIn(<<x>>, c) = (IF x.do = "count" /\ x.what = c THEN {x.n} ELSE {})
    BY OneFacts
  <2> QED BY <2>1, <2>2
<1>9. \A table, rows, c : CountsIn(insert(table, rows), c) = {}
  BY NoneFacts, OneFacts DEF insert
<1>10. \A s, u, c : IsProgram(s) /\ IsProgram(u) => CountsIn(s \o u, c) = CountsIn(s, c) \cup CountsIn(u, c)
  BY <1>1, OfUnion
<1> QED BY <1>2, <1>3, <1>4, <1>5, <1>6, <1>7, <1>8, <1>9, <1>10

\* What each kind of step does.
LEMMA DoesOf ==
  /\ Does(<<>>) = {}
  /\ \A a : Does(Source(a)) \subseteq {"source"}
  /\ \A what : Does(Observe(what)) \subseteq {"observe"}
  /\ \A artefact, path, severity : Does(Warn(artefact, path, severity)) \subseteq {"warn"}
  /\ \A value : Does(Keep("zone", value)) \subseteq {"zone"}
  /\ \A value : Does(Keep("setting", value)) \subseteq {"setting"}
  /\ \A what, n : Does(Count(what, n)) \subseteq {"count"}
  /\ \A table, rows : Does(insert(table, rows)) \subseteq {"insert"}
  /\ \A s, u : IsProgram(s) /\ IsProgram(u) => Does(s \o u) = Does(s) \cup Does(u)
<1>1. \A s, u : IsProgram(s) /\ IsProgram(u) => Items(s \o u) = Items(s) \cup Items(u)
  BY ItemsOfJoin
<1>2. Does(<<>>) = {}
  BY NoneFacts, OneFacts
<1>3. \A a : Does(Source(a)) \subseteq {"source"}
  BY NoneFacts, OneFacts DEF Source
<1>4. \A what : Does(Observe(what)) \subseteq {"observe"}
  BY NoneFacts, OneFacts DEF Observe
<1>5. \A artefact, path, severity : Does(Warn(artefact, path, severity)) \subseteq {"warn"}
  BY NoneFacts, OneFacts DEF Warn
<1>6. \A value : Does(Keep("zone", value)) \subseteq {"zone"}
  BY NoneFacts, OneFacts DEF Keep
<1>7. \A value : Does(Keep("setting", value)) \subseteq {"setting"}
  BY NoneFacts, OneFacts DEF Keep
<1>8. \A what, n : Does(Count(what, n)) \subseteq {"count"}
  BY NoneFacts, OneFacts DEF Count
<1>9. \A table, rows : Does(insert(table, rows)) \subseteq {"insert"}
  BY NoneFacts, OneFacts DEF insert
<1>10. \A s, u : IsProgram(s) /\ IsProgram(u) => Does(s \o u) = Does(s) \cup Does(u)
  BY <1>1, OfUnion
<1> QED BY <1>2, <1>3, <1>4, <1>5, <1>6, <1>7, <1>8, <1>9, <1>10

-----------------------------------------------------------------------------
\* One step for each of some things is a program of those steps.
LEMMA EachFacts ==
  ASSUME NEW n \in Nat, NEW e, e = [k \in 1..n |-> e[k]]
  PROVE  IsProgram(e) /\ Items(e) = {e[k] : k \in 1..n}
<1>1. DOMAIN e = 1..n
  OBVIOUS
<1>2. Items(e) = {e[k] : k \in 1..n}
  BY <1>1 DEF Items
<1> DEFINE J == Items(e)
<1>3. e \in [1..n -> J]
  <2>1. \A k \in 1..n : e[k] \in J
    BY <1>2
  <2> HIDE DEF J
  <2> QED BY <2>1
<1>4. e \in Seq(J)
  <2> HIDE DEF J
  <2> QED BY <1>3, SeqDef
<1> QED BY <1>2, <1>4 DEF IsProgram

\* Steps that only warn, and which warnings they are.
LEMMA EachWarns ==
  ASSUME NEW n \in Nat, NEW e, e = [k \in 1..n |-> e[k]], \A k \in 1..n : e[k].do = "warn"
  PROVE  /\ IsProgram(e) /\ SourcesIn(e) = {} /\ CitesIn(e) = {} /\ \A t : RowsIn(e, t) = {}
         /\ \A w \in {"zone", "setting"} : ValuesIn(e, w) = {}
         /\ \A c : CountsIn(e, c) = {} /\ Does(e) \subseteq {"warn"}
         /\ WarnsIn(e) = UNION {e[k].what : k \in 1..n}
<1>1. IsProgram(e) /\ Items(e) = {e[k] : k \in 1..n}
  BY EachFacts
<1>2. \A i \in Items(e) : i.do = "warn"
  BY <1>1
<1>3. /\ Of(e, "source") = {} /\ Of(e, "observe") = {} /\ Of(e, "insert") = {} /\ Of(e, "count") = {}
      /\ Of(e, "zone") = {} /\ Of(e, "setting") = {} /\ Of(e, "warn") = Items(e)
  BY <1>2 DEF Of
<1>4. SourcesIn(e) = {} /\ CitesIn(e) = {}
  BY <1>3 DEF SourcesIn, CitesIn
<1>5. (\A t : RowsIn(e, t) = {}) /\ \A c : CountsIn(e, c) = {}
  BY <1>3 DEF RowsIn, CountsIn
<1>6. \A w \in {"zone", "setting"} : ValuesIn(e, w) = {}
  BY <1>3 DEF ValuesIn
<1>7. WarnsIn(e) = UNION {e[k].what : k \in 1..n}
  <2>1. WarnsIn(e) = UNION {i.what : i \in Items(e)}
    BY <1>3 DEF WarnsIn
  <2>2. {i.what : i \in Items(e)} = {e[k].what : k \in 1..n}
    BY <1>1
  <2> QED BY <2>1, <2>2
<1>8. Does(e) \subseteq {"warn"}
  BY <1>2 DEF Does
<1> QED BY <1>1, <1>4, <1>5, <1>6, <1>7, <1>8

Hashed(a) == fate[a] \notin {"unhashed", "skipped"}
Loaded(a) == Hashed(a) /\ fate[a] # "unloadable"

\* A hive's transaction logs are not artefacts.
LEMMA LogsAre ==
  ASSUME NEW a \in Artefacts
  PROVE  /\ DOMAIN LogsOf[a] = 1..Len(LogsOf[a]) /\ Len(LogsOf[a]) \in Nat
         /\ \A k \in DOMAIN LogsOf[a] : LogsOf[a][k] \notin Artefacts
  BY CollectionAssumption

\* The logs of a hive are sources, or what was lost of them is said.
LEMMA LogFacts ==
  ASSUME NEW a \in Artefacts
  PROVE  LET L == hashTransactionLogs(a) IN
         /\ IsProgram(L) /\ SourcesIn(L) \cap Artefacts = {} /\ CitesIn(L) = {}
         /\ \A t : RowsIn(L, t) = {}
         /\ \A w \in {"zone", "setting"} : ValuesIn(L, w) = {}
         /\ \A c : CountsIn(L, c) = {} /\ Does(L) \subseteq {"source", "warn"}
         /\ \A w \in WarnsIn(L) : w.artefact = "TRANSACTION_LOG"
         /\ fate[a] = "unlogged" =>
              \A k \in DOMAIN LogsOf[a] : \E w \in WarnsIn(L) : w.path = LogsOf[a][k]
<1> DEFINE L == hashTransactionLogs(a)
           n == Len(LogsOf[a])
<1>1. n \in Nat /\ DOMAIN LogsOf[a] = 1..n
  BY LogsAre
<1>2. CASE fate[a] = "unlogged"
  <2>1. L = [k \in 1..n |-> Head(Warn("TRANSACTION_LOG", LogsOf[a][k], "failed"))]
    BY <1>1, <1>2 DEF hashTransactionLogs, Each
  <2>2. \A k \in 1..n : Head(Warn("TRANSACTION_LOG", LogsOf[a][k], "failed")) =
          [do |-> "warn",
           what |-> {[artefact |-> "TRANSACTION_LOG", path |-> LogsOf[a][k], severity |-> "failed"]}]
    BY DEF Warn
  <2>3. /\ L = [k \in 1..n |-> L[k]]
        /\ \A k \in 1..n : L[k] =
          [do |-> "warn",
           what |-> {[artefact |-> "TRANSACTION_LOG", path |-> LogsOf[a][k], severity |-> "failed"]}]
    BY <2>1, <2>2
  <2> HIDE DEF L, n
  <2>4. /\ \A k \in 1..n : L[k].do = "warn"
        /\ \A k \in 1..n : L[k].what =
             {[artefact |-> "TRANSACTION_LOG", path |-> LogsOf[a][k], severity |-> "failed"]}
    BY <2>3
  <2>5. /\ IsProgram(L) /\ SourcesIn(L) = {} /\ CitesIn(L) = {} /\ \A t : RowsIn(L, t) = {}
        /\ \A w \in {"zone", "setting"} : ValuesIn(L, w) = {}
        /\ \A c : CountsIn(L, c) = {} /\ Does(L) \subseteq {"warn"}
        /\ WarnsIn(L) = UNION {L[k].what : k \in 1..n}
    BY <1>1, <2>3, <2>4, EachWarns
  <2>6. \A w \in WarnsIn(L) : w.artefact = "TRANSACTION_LOG"
    BY <2>4, <2>5
  <2>7. ASSUME NEW k \in 1..n PROVE \E w \in WarnsIn(L) : w.path = LogsOf[a][k]
    <3> DEFINE w == [artefact |-> "TRANSACTION_LOG", path |-> LogsOf[a][k], severity |-> "failed"]
    <3>1. w \in WarnsIn(L) /\ w.path = LogsOf[a][k]
      BY <2>4, <2>5
    <3> QED BY <3>1
  <2> QED BY <1>1, <2>5, <2>6, <2>7 DEF L
<1>3. CASE fate[a] # "unlogged"
  <2>1. L = [k \in 1..n |-> Head(Source(LogsOf[a][k]))]
    BY <1>1, <1>3 DEF hashTransactionLogs, Each
  <2>2. \A k \in 1..n : Head(Source(LogsOf[a][k])) = [do |-> "source", of |-> LogsOf[a][k]]
    BY DEF Source
  <2>3. L = [k \in 1..n |-> L[k]] /\ \A k \in 1..n : L[k] = [do |-> "source", of |-> LogsOf[a][k]]
    BY <2>1, <2>2
  <2> HIDE DEF L, n
  <2>4. IsProgram(L) /\ Items(L) = {L[k] : k \in 1..n}
    BY <1>1, <2>3, EachFacts
  <2>5. \A i \in Items(L) : i.do = "source" /\ i.of \notin Artefacts
    BY <1>1, <2>3, <2>4, LogsAre
  <2>6. /\ Of(L, "observe") = {} /\ Of(L, "insert") = {} /\ Of(L, "count") = {} /\ Of(L, "warn") = {}
        /\ Of(L, "zone") = {} /\ Of(L, "setting") = {} /\ Of(L, "source") = Items(L)
    BY <2>5 DEF Of
  <2>7. CitesIn(L) = {} /\ WarnsIn(L) = {}
    BY <2>6 DEF CitesIn, WarnsIn
  <2>8. (\A t : RowsIn(L, t) = {}) /\ \A c : CountsIn(L, c) = {}
    BY <2>6 DEF RowsIn, CountsIn
  <2>9. \A w \in {"zone", "setting"} : ValuesIn(L, w) = {}
    BY <2>6 DEF ValuesIn
  <2>10. SourcesIn(L) \cap Artefacts = {}
    BY <2>5, <2>6 DEF SourcesIn
  <2>11. Does(L) \subseteq {"source"}
    BY <2>5 DEF Does
  <2> QED BY <1>3, <2>4, <2>7, <2>8, <2>9, <2>10, <2>11 DEF L
<1> QED BY <1>2, <1>3

Reading0 == {"source", "observe", "warn", "count", "zone", "setting", "insert"}
StartsAt(s, a) == s # <<>> /\ Head(s).do = "source" /\ Head(s).of = a

\* What begins with recording a source still does when more follows.
LEMMA StartsFirst ==
  /\ \A a : StartsAt(Source(a), a)
  /\ \A s, u, a : IsProgram(s) /\ IsProgram(u) /\ StartsAt(s, a) => StartsAt(s \o u, a)
<1>1. ASSUME NEW a PROVE StartsAt(Source(a), a)
  BY DEF StartsAt, Source
<1>2. ASSUME NEW s, NEW u, NEW a, IsProgram(s), IsProgram(u), StartsAt(s, a)
      PROVE  StartsAt(s \o u, a)
  <2> DEFINE I == Items(s) \cup Items(u)
  <2>1. s \in Seq(I) /\ u \in Seq(I) /\ s # <<>>
    BY <1>2 DEF IsProgram, StartsAt
  <2> HIDE DEF I
  <2>2. s \o u # <<>> /\ Head(s \o u) = Head(s)
    BY <2>1
  <2> QED BY <1>2, <2>2 DEF StartsAt
<1> QED BY <1>1, <1>2

\* What may have become of an artefact.
FatesKnown == \A a \in Artefacts : fate[a] = "whole" \/ fate[a] \in MayBe(a)

\* The fates an artefact of each kind can meet.
LEMMA FateFacts ==
  ASSUME FatesKnown, NEW a \in Artefacts
  PROVE  /\ a # None
         /\ Kind[a] \in {"SYSTEM", "SOFTWARE", "NTUSER", "USRCLASS", "EVTX", "SETUPAPI", "LNK",
                         "JUMPLIST", "PREFETCH"}
         /\ Kind[a] = "SYSTEM" =>
              fate[a] \in {"whole", "unhashed", "unloadable", "unlogged", "unreplayed", "zoneless"}
         /\ Kind[a] = "SOFTWARE" => fate[a] \in {"whole", "unhashed", "unloadable", "without", "empty"}
         /\ Kind[a] \in {"NTUSER", "USRCLASS", "LNK"} => fate[a] \in {"whole", "unhashed", "unloadable"}
         /\ Kind[a] = "EVTX" => fate[a] \in {"whole", "skipped", "unhashed", "unloadable", "torn"}
         /\ Kind[a] = "SETUPAPI" => fate[a] \in {"whole", "unhashed", "torn", "unterminated"}
         /\ Kind[a] \in {"JUMPLIST", "PREFETCH"} =>
              fate[a] \in {"whole", "unhashed", "unloadable", "torn"}
         /\ fate[a] = "unlogged" => \E k \in DOMAIN LogsOf[a] : TRUE
<1>1. Kind[a] \in DOMAIN Odd /\ a # None /\ (fate[a] = "whole" \/ fate[a] \in MayBe(a))
  BY CaseAssumption DEF FatesKnown
<1>2. fate[a] \in {"whole"} \cup Odd[Kind[a]] /\ (fate[a] = "unlogged" => LogsOf[a] # <<>>)
  BY <1>1 DEF MayBe
<1>3. Kind[a] \in {"SYSTEM", "SOFTWARE", "NTUSER", "USRCLASS", "EVTX", "SETUPAPI", "LNK", "JUMPLIST",
                  "PREFETCH"}
  BY <1>1 DEF Odd
<1>4. /\ Odd["SYSTEM"] = {"unhashed", "unloadable", "unlogged", "unreplayed", "zoneless"}
      /\ Odd["SOFTWARE"] = {"unhashed", "unloadable", "without", "empty"}
      /\ Odd["NTUSER"] = {"unhashed", "unloadable"} /\ Odd["USRCLASS"] = {"unhashed", "unloadable"}
      /\ Odd["LNK"] = {"unhashed", "unloadable"}
  BY DEF Odd
<1>5. /\ Odd["EVTX"] = {"skipped", "unhashed", "unloadable", "torn"}
      /\ Odd["SETUPAPI"] = {"unhashed", "torn", "unterminated"}
      /\ Odd["JUMPLIST"] = {"unhashed", "unloadable", "torn"}
      /\ Odd["PREFETCH"] = {"unhashed", "unloadable", "torn"}
  BY DEF Odd
<1>6. LogsOf[a] # <<>> => \E k \in DOMAIN LogsOf[a] : TRUE
  <2>1. LogsOf[a] \in Seq(STRING)
    BY CollectionAssumption
  <2> SUFFICES ASSUME LogsOf[a] # <<>> PROVE 1 \in DOMAIN LogsOf[a]
    OBVIOUS
  <2> QED BY <2>1
<1> QED BY <1>1, <1>2, <1>3, <1>4, <1>5, <1>6

\* What is said of an artefact that was not read whole, whatever the zone of the case.
SaidOf(a, W) ==
  \/ fate[a] = "whole" \/ fate[a] = "skipped" \/ fate[a] = "zoneless"
  \/ fate[a] = "unhashed" /\ Kind[a] \in {"NTUSER", "USRCLASS", "LNK", "JUMPLIST", "PREFETCH"}
  \/ \E w \in W : w.path = a \/ \E k \in DOMAIN LogsOf[a] : w.path = LogsOf[a][k]

\* A warning about an artefact's own path or log speaks of it.
LEMMA SaidBy ==
  ASSUME NEW a, NEW W, NEW w \in W, w.path = a \/ \E k \in DOMAIN LogsOf[a] : w.path = LogsOf[a][k]
  PROVE  SaidOf(a, W)
  BY DEF SaidOf

\* What loading a hive lays out around what its readers do.
LEMMA HiveFacts ==
  ASSUME FatesKnown, NEW a \in Artefacts, Kind[a] \in Hives, NEW read, IsProgram(read),
         SourcesIn(read) = {}, \A c : CountsIn(read, c) = {}, Does(read) \subseteq Reading0
  PROVE  LET P == Hive(a, read) IN
         /\ IsProgram(P) /\ Does(P) \subseteq Reading0
         /\ SourcesIn(P) \cap Artefacts = (IF Hashed(a) THEN {a} ELSE {})
         /\ CitesIn(P) = (IF Loaded(a) THEN CitesIn(read) ELSE {})
         /\ \A t : RowsIn(P, t) = (IF Loaded(a) THEN RowsIn(read, t) ELSE {})
         /\ \A w \in {"zone", "setting"} : ValuesIn(P, w) = (IF Loaded(a) THEN ValuesIn(read, w) ELSE {})
         /\ \A c : CountsIn(P, c) = {}
         /\ Hashed(a) => StartsAt(P, a)
         /\ \A w \in WarnsIn(P) :
              w.artefact \in {"TRANSACTION_LOG", Kind[a]} \/ (Loaded(a) /\ w \in WarnsIn(read))
         /\ Loaded(a) => WarnsIn(read) \subseteq WarnsIn(P)
         /\ fate[a] \notin {"without", "empty"} => SaidOf(a, WarnsIn(P))
<1> DEFINE P == Hive(a, read)
           L == hashTransactionLogs(a)
           F == Warn(Kind[a], a, "failed")
<1>1. /\ fate[a] = "unlogged" => \E k \in DOMAIN LogsOf[a] : TRUE
      /\ fate[a] \in {"whole", "unhashed", "unloadable", "unlogged", "unreplayed", "zoneless", "without", "empty"}
  BY FateFacts DEF Hives
<1>2. /\ IsProgram(F) /\ SourcesIn(F) = {} /\ CitesIn(F) = {} /\ \A t : RowsIn(F, t) = {}
      /\ \A w \in {"zone", "setting"} : ValuesIn(F, w) = {}
      /\ \A c : CountsIn(F, c) = {} /\ Does(F) \subseteq {"warn"}
      /\ WarnsIn(F) = {[artefact |-> Kind[a], path |-> a, severity |-> "failed"]}
  BY ProgramOf, SourcesOf, CitesOf, RowsOf, ValuesOf, CountsOf, DoesOf, WarnsOf
<1>3. /\ IsProgram(L) /\ SourcesIn(L) \cap Artefacts = {} /\ CitesIn(L) = {}
      /\ \A t : RowsIn(L, t) = {} /\ \A w \in {"zone", "setting"} : ValuesIn(L, w) = {}
      /\ \A c : CountsIn(L, c) = {} /\ Does(L) \subseteq {"source", "warn"}
      /\ \A w \in WarnsIn(L) : w.artefact = "TRANSACTION_LOG"
      /\ fate[a] = "unlogged" => \A k \in DOMAIN LogsOf[a] : \E w \in WarnsIn(L) : w.path = LogsOf[a][k]
  BY LogFacts
<1> DEFINE S == Source(a) \o L
<1>4. /\ IsProgram(S) /\ SourcesIn(S) \cap Artefacts = {a} /\ CitesIn(S) = {}
      /\ \A t : RowsIn(S, t) = {} /\ \A w \in {"zone", "setting"} : ValuesIn(S, w) = {}
      /\ \A c : CountsIn(S, c) = {} /\ Does(S) \subseteq {"source", "warn"}
      /\ WarnsIn(S) = WarnsIn(L) /\ StartsAt(S, a)
  <2>1. IsProgram(Source(a)) /\ IsProgram(L)
    BY <1>3, ProgramOf
  <2> HIDE DEF L
  <2>2. IsProgram(S) /\ StartsAt(S, a)
    BY <2>1, ProgramOf, StartsFirst
  <2>3. SourcesIn(S) \cap Artefacts = {a}
    BY <1>3, <2>1, SourcesOf
  <2>4. CitesIn(S) = {} /\ WarnsIn(S) = WarnsIn(L)
    <3>1. CitesIn(S) = {}
      BY <1>3, <2>1, CitesOf
    <3>2. WarnsIn(S) = WarnsIn(Source(a)) \cup WarnsIn(L) /\ WarnsIn(Source(a)) = {}
      BY <2>1, WarnsOf
    <3> QED BY <3>1, <3>2
  <2>5. \A t : RowsIn(S, t) = {}
    BY <1>3, <2>1, RowsOf
  <2>6. \A w \in {"zone", "setting"} : ValuesIn(S, w) = {}
    BY <1>3, <2>1, ValuesOf
  <2>7. \A c : CountsIn(S, c) = {}
    BY <1>3, <2>1, CountsOf
  <2>8. Does(S) \subseteq {"source", "warn"}
    BY <1>3, <2>1, DoesOf
  <2> QED BY <2>2, <2>3, <2>4, <2>5, <2>6, <2>7, <2>8
<1> HIDE DEF S, L, F
<1>5. CASE fate[a] = "unhashed"
  <2>1. ~Hashed(a) /\ ~Loaded(a)
    BY <1>5 DEF Hashed, Loaded
  <2>2. CASE Kind[a] \in {"SYSTEM", "SOFTWARE"}
    <3>1. P = F
      BY <1>5, <2>2 DEF Hive, When, F
    <3> HIDE DEF P
    <3>2. SaidOf(a, WarnsIn(P))
      <4> DEFINE w == [artefact |-> Kind[a], path |-> a, severity |-> "failed"]
      <4>1. w \in WarnsIn(P) /\ w.path = a
        BY <1>2, <3>1
      <4> QED BY <4>1, SaidBy
    <3> QED BY <1>2, <2>1, <3>1, <3>2 DEF P, Reading0
  <2>3. CASE Kind[a] \notin {"SYSTEM", "SOFTWARE"}
    <3>1. P = <<>>
      BY <1>5, <2>3 DEF Hive, When
    <3> HIDE DEF P
    <3>2. SaidOf(a, WarnsIn(P))
      BY <1>5, <2>3 DEF SaidOf, Hives
    <3> QED BY <2>1, <3>1, <3>2, NoneFacts DEF P
  <2> QED BY <2>2, <2>3
<1>6. CASE fate[a] = "unloadable"
  <2>1. Hashed(a) /\ ~Loaded(a)
    BY <1>6 DEF Hashed, Loaded
  <2>2. P = S \o F
    BY <1>6 DEF Hive, S, F, L
  <2> HIDE DEF P
  <2>3. IsProgram(P) /\ StartsAt(P, a)
    BY <1>2, <1>4, <2>2, ProgramOf, StartsFirst
  <2>4. SourcesIn(P) \cap Artefacts = {a}
    BY <1>2, <1>4, <2>2, SourcesOf
  <2>5. CitesIn(P) = {} /\ WarnsIn(P) = WarnsIn(L) \cup WarnsIn(F)
    BY <1>2, <1>4, <2>2, CitesOf, WarnsOf
  <2>6. \A t : RowsIn(P, t) = {}
    BY <1>2, <1>4, <2>2, RowsOf
  <2>7. \A w \in {"zone", "setting"} : ValuesIn(P, w) = {}
    BY <1>2, <1>4, <2>2, ValuesOf
  <2>8. \A c : CountsIn(P, c) = {}
    BY <1>2, <1>4, <2>2, CountsOf
  <2>9. Does(P) \subseteq Reading0
    BY <1>2, <1>4, <2>2, DoesOf DEF Reading0
  <2>10. SaidOf(a, WarnsIn(P))
    <3> DEFINE w == [artefact |-> Kind[a], path |-> a, severity |-> "failed"]
    <3>1. w \in WarnsIn(P) /\ w.path = a
      BY <1>2, <2>5
    <3> QED BY <3>1, SaidBy
  <2>11. \A w \in WarnsIn(P) : w.artefact \in {"TRANSACTION_LOG", Kind[a]}
    BY <1>2, <1>3, <2>5
  <2> QED BY <2>1, <2>3, <2>4, <2>5, <2>6, <2>7, <2>8, <2>9, <2>10, <2>11 DEF P
<1>7. CASE fate[a] \notin {"unhashed", "unloadable"}
  <2> DEFINE R == recordReplay(a)
             T == R \o read
  <2>1. Hashed(a) /\ Loaded(a)
    BY <1>1, <1>7 DEF Hashed, Loaded
  <2>2. P = S \o T
    BY <1>7 DEF Hive, S, L
  <2>3. /\ IsProgram(R) /\ SourcesIn(R) = {} /\ CitesIn(R) = {} /\ \A t : RowsIn(R, t) = {}
        /\ \A w \in {"zone", "setting"} : ValuesIn(R, w) = {}
        /\ \A c : CountsIn(R, c) = {} /\ Does(R) \subseteq {"warn"}
        /\ WarnsIn(R) = (IF fate[a] = "unreplayed"
                         THEN {[artefact |-> Kind[a], path |-> a, severity |-> "malformed"]} ELSE {})
    <3>1. CASE fate[a] = "unreplayed"
      <4>1. R = Warn(Kind[a], a, "malformed")
        BY <3>1 DEF recordReplay, When
      <4> HIDE DEF R
      <4> QED BY <3>1, <4>1, ProgramOf, SourcesOf, CitesOf, RowsOf, ValuesOf, CountsOf, DoesOf, WarnsOf
    <3>2. CASE fate[a] # "unreplayed"
      <4>1. R = <<>>
        BY <3>2 DEF recordReplay, When
      <4> HIDE DEF R
      <4> QED BY <3>2, <4>1, NoneFacts
    <3> QED BY <3>1, <3>2
  <2> HIDE DEF P, R
  <2>4. IsProgram(T)
    BY <2>3, ProgramOf
  <2>5. IsProgram(P) /\ StartsAt(P, a)
    BY <1>4, <2>2, <2>4, ProgramOf, StartsFirst
  <2>6. SourcesIn(T) = {}
    BY <2>3, SourcesOf
  <2>7. CitesIn(T) = CitesIn(read) /\ WarnsIn(T) = WarnsIn(R) \cup WarnsIn(read)
    <3>1. CitesIn(T) = CitesIn(R) \cup CitesIn(read) /\ CitesIn(R) = {}
      BY <2>3, CitesOf
    <3>2. WarnsIn(T) = WarnsIn(R) \cup WarnsIn(read)
      BY <2>3, WarnsOf
    <3> QED BY <3>1, <3>2
  <2>8. ASSUME NEW t PROVE RowsIn(T, t) = RowsIn(read, t)
    <3>1. RowsIn(T, t) = RowsIn(R, t) \cup RowsIn(read, t) /\ RowsIn(R, t) = {}
      BY <2>3, RowsOf
    <3> QED BY <3>1
  <2>9. ASSUME NEW w \in {"zone", "setting"} PROVE ValuesIn(T, w) = ValuesIn(read, w)
    <3>1. ValuesIn(T, w) = ValuesIn(R, w) \cup ValuesIn(read, w) /\ ValuesIn(R, w) = {}
      BY <2>3, ValuesOf
    <3> QED BY <3>1
  <2>10. \A c : CountsIn(T, c) = {}
    BY <2>3, CountsOf
  <2>11. Does(T) \subseteq Reading0
    BY <2>3, DoesOf DEF Reading0
  <2> HIDE DEF T
  <2>12. SourcesIn(P) \cap Artefacts = {a}
    BY <1>4, <2>2, <2>4, <2>6, SourcesOf
  <2>13. CitesIn(P) = CitesIn(read) /\ WarnsIn(P) = WarnsIn(L) \cup WarnsIn(R) \cup WarnsIn(read)
    <3>1. CitesIn(P) = CitesIn(S) \cup CitesIn(T)
      BY <1>4, <2>2, <2>4, CitesOf
    <3>2. WarnsIn(P) = WarnsIn(S) \cup WarnsIn(T)
      BY <1>4, <2>2, <2>4, WarnsOf
    <3> QED BY <1>4, <2>7, <3>1, <3>2
  <2>14. ASSUME NEW t PROVE RowsIn(P, t) = RowsIn(read, t)
    <3>1. RowsIn(P, t) = RowsIn(S, t) \cup RowsIn(T, t) /\ RowsIn(S, t) = {}
      BY <1>4, <2>2, <2>4, RowsOf
    <3> QED BY <2>8, <3>1
  <2>15. ASSUME NEW w \in {"zone", "setting"} PROVE ValuesIn(P, w) = ValuesIn(read, w)
    <3>1. ValuesIn(P, w) = ValuesIn(S, w) \cup ValuesIn(T, w) /\ ValuesIn(S, w) = {}
      BY <1>4, <2>2, <2>4, ValuesOf
    <3> QED BY <2>9, <3>1
  <2>16. \A c : CountsIn(P, c) = {}
    BY <1>4, <2>2, <2>4, <2>10, CountsOf
  <2>17. Does(P) \subseteq Reading0
    BY <1>4, <2>2, <2>4, <2>11, DoesOf DEF Reading0
  <2>18. \A w \in WarnsIn(P) : w.artefact \in {"TRANSACTION_LOG", Kind[a]} \/ w \in WarnsIn(read)
    BY <1>3, <2>3, <2>13
  <2>19. fate[a] \notin {"without", "empty"} => SaidOf(a, WarnsIn(P))
    <3>1. CASE fate[a] = "unreplayed"
      <4> DEFINE w == [artefact |-> Kind[a], path |-> a, severity |-> "malformed"]
      <4>1. w \in WarnsIn(P) /\ w.path = a
        BY <2>3, <2>13, <3>1
      <4> QED BY <4>1, SaidBy
    <3>2. CASE fate[a] = "unlogged"
      <4>1. PICK k \in DOMAIN LogsOf[a] : TRUE
        BY <1>1, <3>2
      <4>2. PICK w \in WarnsIn(L) : w.path = LogsOf[a][k]
        BY <1>3, <3>2
      <4>3. w \in WarnsIn(P)
        BY <2>13
      <4> QED BY <4>1, <4>2, <4>3, SaidBy
    <3>3. CASE fate[a] \notin {"unreplayed", "unlogged"}
      BY <1>1, <1>7, <3>3 DEF SaidOf
    <3> QED BY <3>1, <3>2, <3>3
  <2> QED BY <2>1, <2>5, <2>12, <2>13, <2>14, <2>15, <2>16, <2>17, <2>18, <2>19 DEF P
<1> QED BY <1>5, <1>6, <1>7

-----------------------------------------------------------------------------
\* A set of numbers has a least one.
LEMMA LeastNumber ==
  ASSUME NEW S \in SUBSET Nat, S # {}
  PROVE  \E x \in S : \A y \in S : x <= y
<1>1. PICK x \in S : \A y \in S : ~(<<y, x>> \in OpToRel(<, Nat))
  BY WFMin, NatLessThanWellFounded
<1>2. \A y \in S : ~(y < x)
  BY <1>1 DEF OpToRel
<1>3. \A y \in S : x <= y
  BY <1>2
<1> QED BY <1>3

\* Indices are numbers.
LEMMA UpToNumbers == ASSUME NEW n \in Nat PROVE \A j \in 1..n : j \in Nat
  OBVIOUS

\* The first name is one of the names that are there, if any is.
LEMMA FirstIsNamed ==
  ASSUME NEW n \in Nat, NEW names, DOMAIN names = 1..n, NEW k \in 1..n, names[k] # None
  PROVE  \E j \in 1..n : FirstOf(names) = names[j] /\ names[j] # None
<1> DEFINE named == {j \in 1..n : names[j] # None}
           Least(j) == j \in named /\ \A i \in named : j <= i
<1>1. named # {} /\ named \in SUBSET Nat
  <2>1. k \in named
    OBVIOUS
  <2>2. named \in SUBSET Nat
    <3>1. \A j \in 1..n : j \in Nat
      BY UpToNumbers
    <3>2. \A j \in named : j \in 1..n
      OBVIOUS
    <3> HIDE DEF named
    <3> QED BY <3>1, <3>2
  <2> QED BY <2>1, <2>2
<1>2. \E j \in named : \A i \in named : j <= i
  BY <1>1, LeastNumber
<1>3. FirstOf(names) = names[CHOOSE j \in named : \A i \in named : j <= i]
  BY <1>1 DEF FirstOf
<1> DEFINE c == CHOOSE j \in named : \A i \in named : j <= i
<1>4. c \in named
  BY <1>2
<1> HIDE DEF c
<1> QED BY <1>3, <1>4 DEF c

\* The first present of two times is one of them.
LEMMA FirstOfTwo ==
  ASSUME NEW a, NEW b, {a, b} \ {None} # {}
  PROVE  FirstOf(<<a, b>>) \in {a, b} \ {None}
<1> DEFINE q == <<a, b>>
<1>1. DOMAIN q = 1..2 /\ q[1] = a /\ q[2] = b
  OBVIOUS
<1> HIDE DEF q
<1>2. 1 \in 1..2 /\ 2 \in 1..2 /\ 2 \in Nat /\ \A j \in 1..2 : j = 1 \/ j = 2
  OBVIOUS
<1>3. PICK k \in 1..2 : q[k] # None
  BY <1>1, <1>2
<1>4. PICK j \in 1..2 : FirstOf(q) = q[j] /\ q[j] # None
  BY <1>1, <1>2, <1>3, FirstIsNamed
<1>5. FirstOf(q) \in {a, b} \ {None}
  BY <1>1, <1>2, <1>4
<1> QED BY <1>5 DEF q

\* The first present of three.
LEMMA FirstOfThree ==
  ASSUME NEW a, NEW b, NEW c, {a, b, c} \ {None} # {}
  PROVE  FirstOf(<<a, b, c>>) \in {a, b, c} \ {None}
<1> DEFINE q == <<a, b, c>>
<1>1. DOMAIN q = 1..3 /\ q[1] = a /\ q[2] = b /\ q[3] = c
  OBVIOUS
<1> HIDE DEF q
<1>2. 1 \in 1..3 /\ 2 \in 1..3 /\ 3 \in 1..3 /\ 3 \in Nat /\ \A j \in 1..3 : j = 1 \/ j = 2 \/ j = 3
  OBVIOUS
<1>3. PICK k \in 1..3 : q[k] # None
  BY <1>1, <1>2
<1>4. PICK j \in 1..3 : FirstOf(q) = q[j] /\ q[j] # None
  BY <1>1, <1>2, <1>3, FirstIsNamed
<1>5. FirstOf(q) \in {a, b, c} \ {None}
  BY <1>1, <1>2, <1>4
<1> QED BY <1>5 DEF q

\* The first present of three and one more is one of the three, if any of them is.
LEMMA FirstOfFour ==
  ASSUME NEW a, NEW b, NEW c, NEW d, {a, b, c} \ {None} # {}
  PROVE  FirstOf(<<a, b, c, d>>) \in {a, b, c} \ {None}
<1> DEFINE q == <<a, b, c, d>>
           named == {k \in 1..4 : q[k] # None}
           Least(k) == k \in named /\ \A j \in named : k <= j
<1>1. DOMAIN q = 1..4 /\ q[1] = a /\ q[2] = b /\ q[3] = c /\ q[4] = d
  OBVIOUS
<1> HIDE DEF q
<1>2. /\ 1 \in 1..4 /\ 2 \in 1..4 /\ 3 \in 1..4 /\ 4 \in 1..4 /\ named \subseteq 1..4
      /\ 1 <= 2 /\ 1 <= 3 /\ 1 <= 4 /\ 2 <= 3 /\ 2 <= 4 /\ 3 <= 4 /\ ~(4 <= 1) /\ ~(4 <= 2) /\ ~(4 <= 3)
      /\ \A j \in 1..4 : (j = 1 \/ j = 2 \/ j = 3 \/ j = 4) /\ j <= j
  OBVIOUS
<1>3. 1 \in named \/ 2 \in named \/ 3 \in named
  BY <1>1, <1>2
<1>4. \E k \in 1..4 : Least(k)
  <2> HIDE DEF named
  <2>1. CASE 1 \in named
    BY <1>2, <2>1
  <2>2. CASE 1 \notin named /\ 2 \in named
    BY <1>2, <2>2
  <2>3. CASE 1 \notin named /\ 2 \notin named /\ 3 \in named
    BY <1>2, <2>3
  <2> QED BY <1>3, <2>1, <2>2, <2>3
<1> DEFINE k == CHOOSE i \in named : \A j \in named : i <= j
<1>5. FirstOf(q) = q[k]
  BY <1>1, <1>3 DEF FirstOf
<1>6. k \in named /\ \A j \in named : k <= j
  <2> HIDE DEF named
  <2> QED BY <1>4
<1> HIDE DEF k
<1>7. k \in 1..4 /\ q[k] # None /\ k # 4
  <2>1. k # 4
    <3> HIDE DEF named
    <3> QED BY <1>2, <1>3, <1>6
  <2> QED BY <1>6, <2>1
<1>8. k = 1 \/ k = 2 \/ k = 3
  BY <1>2, <1>7
<1>9. FirstOf(q) \in {a, b, c} \ {None}
  BY <1>1, <1>5, <1>7, <1>8
<1> QED BY <1>9 DEF q

CitedBy(r, O) ==
  \E o \in O : AboutRow(o, r) /\ (r.names # {} => o.value \in r.names)
HeldBy(o, rows) == \E r \in rows : AboutRow(o, r)

\* What is loaded of a file and what is cited of it are about the same records.
Paired(id, rows, cites) ==
  /\ \A r \in rows : r.source = id /\ CitedBy(r, cites)
  /\ \A o \in cites : HeldBy(o, rows)

\* A row is at its place.
LEMMA RowFacts ==
  ASSUME NEW id, NEW at, NEW names, NEW partial
  PROVE  /\ Row(id, at, names, partial).source = id /\ Row(id, at, names, partial).at = at
         /\ Row(id, at, names, partial).names = names \ {None}
         /\ Row(id, at, names, partial).partial = partial
  BY DEF Row

\* An observation's fields are what it was made from.
LEMMA ObservationFacts ==
  ASSUME NEW id, NEW kind, NEW at, NEW value
  PROVE  /\ Observation(id, kind, at, value).source = id /\ Observation(id, kind, at, value).kind = kind
         /\ Observation(id, kind, at, value).at = at /\ Observation(id, kind, at, value).value = value
  BY DEF Observation

\* One row and one citation: enough that the value cited is among the names.
LEMMA CitedFacts ==
  ASSUME NEW id, NEW kind, NEW at, NEW value, NEW names, NEW partial, NEW O,
         Observation(id, kind, at, value) \in O,
         names \ {None} # {} => value \in names \ {None}
  PROVE  CitedBy(Row(id, at, names, partial), O)
<1> DEFINE r == Row(id, at, names, partial)
           o == Observation(id, kind, at, value)
<1>1. /\ r.source = id /\ r.at = at /\ r.names = names \ {None}
      /\ o.source = id /\ o.at = at /\ o.value = value /\ o \in O
  BY DEF Row, Observation
<1> HIDE DEF r, o
<1>2. CitedBy(r, O)
  BY <1>1 DEF CitedBy, AboutRow
<1> QED BY <1>2 DEF r

\* A row with an observation's source, place and value holds it.
LEMMA HeldFacts ==
  ASSUME NEW id, NEW kind, NEW at, NEW value, NEW names, NEW partial, NEW rows,
         Row(id, at, names, partial) \in rows
  PROVE  HeldBy(Observation(id, kind, at, value), rows)
<1> DEFINE r == Row(id, at, names, partial)
           o == Observation(id, kind, at, value)
<1>1. r.source = id /\ r.at = at /\ o.source = id /\ o.at = at /\ r \in rows
  BY DEF Row, Observation
<1> HIDE DEF r, o
<1>2. HeldBy(o, rows)
  BY <1>1 DEF HeldBy, AboutRow
<1> QED BY <1>2 DEF o

\* A property that is among the names of a row cites it, and is held by it.
LEMMA BelowFacts ==
  ASSUME NEW id, NEW kind, NEW at, NEW names, NEW property \in names \ {None}, NEW partial
  PROVE  /\ \A O : Observation(id, kind, RegistryPath(at, property), property) \in O =>
                    CitedBy(Row(id, at, names, partial), O)
         /\ \A rows : Row(id, at, names, partial) \in rows =>
                       HeldBy(Observation(id, kind, RegistryPath(at, property), property), rows)
<1> DEFINE r == Row(id, at, names, partial)
           o == Observation(id, kind, RegistryPath(at, property), property)
<1>1. /\ r.source = id /\ r.at = at /\ r.names = names \ {None}
      /\ o.source = id /\ o.at = RegistryPath(at, property) /\ o.value = property
  BY DEF Row, Observation
<1> HIDE DEF r, o
<1>2. AboutRow(o, r) /\ o.value \in r.names
  BY <1>1 DEF AboutRow
<1>3. (\A O : o \in O => CitedBy(r, O)) /\ \A rows : r \in rows => HeldBy(o, rows)
  BY <1>2 DEF CitedBy, HeldBy
<1> QED BY <1>3 DEF r, o

\* Device keys: each row is cited and each observation has its row.
LEMMA DevnodesPaired ==
  ASSUME NEW id, NEW devnodes,
         \A d \in devnodes : /\ d.written = TRUE \/ d.stored \ {None} # {} \/ d.properties # {}
                             /\ None \notin d.properties
  PROVE  Paired(id, {Row(id, d.key, d.stored \cup d.properties, FALSE) : d \in devnodes},
                    recordDevnodes(id, devnodes))
<1> DEFINE rows == {Row(id, d.key, d.stored \cup d.properties, FALSE) : d \in devnodes}
           O == recordDevnodes(id, devnodes)
<1>1. ASSUME NEW d \in devnodes
      PROVE  CitedBy(Row(id, d.key, d.stored \cup d.properties, FALSE), O)
  <2> DEFINE names == d.stored \cup d.properties
  <2>1. /\ \A v \in d.stored \ {None} : Observation(id, "devnode.value", d.key, v) \in O
        /\ \A p \in d.properties : Observation(id, "devnode.property", RegistryPath(d.key, p), p) \in O
        /\ d.written = TRUE => Observation(id, "devnode.key_last_write", d.key, None) \in O
    <3> DEFINE Of1(e) == {Observation(id, "devnode.value", e.key, v) : v \in e.stored \ {None}}
               Of2(e) == IF e.written THEN {Observation(id, "devnode.key_last_write", e.key, None)} ELSE {}
               Of3(e) == {Observation(id, "devnode.property", RegistryPath(e.key, p), p) : p \in e.properties}
    <3>1. O = UNION {Of1(e) \cup Of2(e) \cup Of3(e) : e \in devnodes}
      BY DEF recordDevnodes
    <3>2. Of1(d) \subseteq O /\ Of2(d) \subseteq O /\ Of3(d) \subseteq O
      <4> DEFINE All(e) == Of1(e) \cup Of2(e) \cup Of3(e)
      <4>1. O = UNION {All(e) : e \in devnodes}
        BY <3>1
      <4>2. Of1(d) \subseteq All(d) /\ Of2(d) \subseteq All(d) /\ Of3(d) \subseteq All(d)
        OBVIOUS
      <4> HIDE DEF All, O, Of1, Of2, Of3
      <4>3. All(d) \subseteq O
        BY <4>1
      <4> QED BY <4>2, <4>3
    <3> HIDE DEF O
    <3> QED BY <3>2
  <2> HIDE DEF O
  <2>2. CASE d.stored \ {None} # {}
    <3>1. PICK v \in d.stored \ {None} : TRUE
      BY <2>2
    <3>2. Observation(id, "devnode.value", d.key, v) \in O /\ v \in names \ {None}
      BY <2>1, <3>1
    <3> HIDE DEF names
    <3>3. CitedBy(Row(id, d.key, names, FALSE), O)
      BY <3>2, CitedFacts
    <3> QED BY <3>3 DEF names
  <2>3. CASE d.properties \ {None} # {}
    <3>1. PICK p \in d.properties \ {None} : TRUE
      BY <2>3
    <3>2. Observation(id, "devnode.property", RegistryPath(d.key, p), p) \in O /\ p \in names \ {None}
      BY <2>1, <3>1
    <3> HIDE DEF names
    <3>3. CitedBy(Row(id, d.key, names, FALSE), O)
      BY <3>2, BelowFacts
    <3> QED BY <3>3 DEF names
  <2>4. CASE names \ {None} = {}
    <3>1. d.stored \ {None} = {} /\ d.properties = {}
      BY <2>4
    <3>2. d.written = TRUE
      BY <3>1
    <3> QED BY <2>1, <2>4, <3>2, CitedFacts
  <2> QED BY <2>2, <2>3, <2>4
<1>2. ASSUME NEW r \in rows PROVE r.source = id /\ CitedBy(r, O)
  <2>1. PICK d \in devnodes : r = Row(id, d.key, d.stored \cup d.properties, FALSE)
    OBVIOUS
  <2>2. r.source = id
    BY <2>1 DEF Row
  <2> HIDE DEF O
  <2> QED BY <1>1, <2>1, <2>2
<1>3. ASSUME NEW o \in O PROVE HeldBy(o, rows)
  <2>1. PICK d \in devnodes :
          o \in {Observation(id, "devnode.value", d.key, v) : v \in d.stored \ {None}}
            \cup (IF d.written THEN {Observation(id, "devnode.key_last_write", d.key, None)} ELSE {})
            \cup {Observation(id, "devnode.property", RegistryPath(d.key, p), p) : p \in d.properties}
    BY DEF recordDevnodes
  <2> DEFINE names == d.stored \cup d.properties
  <2>2. \/ \E kind, value : o = Observation(id, kind, d.key, value)
        \/ \E p \in names \ {None} : o = Observation(id, "devnode.property", RegistryPath(d.key, p), p)
    BY <2>1
  <2>3. Row(id, d.key, names, FALSE) \in rows
    OBVIOUS
  <2> HIDE DEF rows, names
  <2> QED BY <2>2, <2>3, HeldFacts, BelowFacts
<1> QED BY <1>2, <1>3 DEF Paired

\* One row and one citation of each record.
RowsOfEach(id, S, at, names, partial) == {Row(id, at[x], names[x], partial[x]) : x \in S}
CitesOfEach(id, kind, S, at, value) == {Observation(id, kind, at[x], value[x]) : x \in S}

\* Where each record gives a row and a citation, they are paired if the value cited is a name.
LEMMA PairedOneByOne ==
  ASSUME NEW id, NEW kind, NEW S, NEW at, NEW names, NEW partial, NEW value,
         \A x \in S : names[x] \ {None} # {} => value[x] \in names[x] \ {None}
  PROVE  Paired(id, RowsOfEach(id, S, at, names, partial), CitesOfEach(id, kind, S, at, value))
<1> USE DEF RowsOfEach, CitesOfEach
<1> DEFINE rows == RowsOfEach(id, S, at, names, partial)
           O == CitesOfEach(id, kind, S, at, value)
<1>1. ASSUME NEW r \in rows PROVE r.source = id /\ CitedBy(r, O)
  <2>1. PICK x \in S : r = Row(id, at[x], names[x], partial[x])
    OBVIOUS
  <2>2. r.source = id
    BY <2>1 DEF Row
  <2>3. Observation(id, kind, at[x], value[x]) \in O
    OBVIOUS
  <2> HIDE DEF O
  <2> QED BY <2>1, <2>2, <2>3, CitedFacts
<1>2. ASSUME NEW o \in O PROVE HeldBy(o, rows)
  <2>1. PICK x \in S : o = Observation(id, kind, at[x], value[x])
    OBVIOUS
  <2>2. Row(id, at[x], names[x], partial[x]) \in rows
    OBVIOUS
  <2> HIDE DEF rows
  <2> QED BY <2>1, <2>2, HeldFacts
<1> QED BY <1>1, <1>2 DEF Paired

\* MountedDevices values, likewise.
LEMMA MountEntriesPaired ==
  ASSUME NEW id, NEW entries
  PROVE  Paired(id, {Row(id, e.name, {e.device, e.partition, Offset(e.volume, e.offset)}, FALSE) :
                     e \in entries}, recordMountEntries(id, entries))
<1> DEFINE at == [e \in entries |-> e.name]
           names == [e \in entries |-> {e.device, e.partition, Offset(e.volume, e.offset)}]
           partial == [e \in entries |-> FALSE]
           value == [e \in entries |-> FirstOf(<<e.device, e.partition, Offset(e.volume, e.offset),
                                   IF e.target = "mbr_signature" THEN Signature(e.signature, e.offset)
                                   ELSE None>>)]
<1>1. \A e \in entries : names[e] \ {None} # {} => value[e] \in names[e] \ {None}
  <2> SUFFICES ASSUME NEW e \in entries, names[e] \ {None} # {}
               PROVE  value[e] \in names[e] \ {None}
    OBVIOUS
  <2> DEFINE v == Offset(e.volume, e.offset)
             h == IF e.target = "mbr_signature" THEN Signature(e.signature, e.offset) ELSE None
  <2>1. names[e] = {e.device, e.partition, v} /\ value[e] = FirstOf(<<e.device, e.partition, v, h>>)
    OBVIOUS
  <2> HIDE DEF names, value, v, h
  <2> QED BY <2>1, FirstOfFour
<1>2. /\ {Row(id, e.name, {e.device, e.partition, Offset(e.volume, e.offset)}, FALSE) : e \in entries}
           = RowsOfEach(id, entries, at, names, partial)
      /\ recordMountEntries(id, entries) = CitesOfEach(id, "mounted_device", entries, at, value)
  BY DEF recordMountEntries, RowsOfEach, CitesOfEach
<1> HIDE DEF at, names, partial, value
<1>3. \A x \in entries : names[x] \ {None} # {} => value[x] \in names[x] \ {None}
  BY <1>1
<1>4. Paired(id, RowsOfEach(id, entries, at, names, partial), CitesOfEach(id, "mounted_device", entries, at, value))
  BY <1>3, PairedOneByOne
<1> QED BY <1>2, <1>4

\* Windows Portable Devices keys, likewise.
LEMMA PortableDevicesPaired ==
  ASSUME NEW id, NEW devices
  PROVE  Paired(id, {Row(id, d.path, {d.instance, Offset(d.volume, d.offset)}, FALSE) : d \in devices},
              recordPortableDevices(id, devices))
<1> DEFINE at == [d \in devices |-> d.path]
           names == [d \in devices |-> {d.instance, Offset(d.volume, d.offset)}]
           partial == [d \in devices |-> FALSE]
           value == [d \in devices |-> FirstOf(<<d.instance, Offset(d.volume, d.offset)>>)]
<1>1. \A d \in devices : names[d] \ {None} # {} => value[d] \in names[d] \ {None}
  <2> SUFFICES ASSUME NEW d \in devices, names[d] \ {None} # {}
               PROVE  value[d] \in names[d] \ {None}
    OBVIOUS
  <2>1. names[d] = {d.instance, Offset(d.volume, d.offset)} /\
             value[d] = FirstOf(<<d.instance, Offset(d.volume, d.offset)>>)
    OBVIOUS
  <2> HIDE DEF names, value
  <2> QED BY <2>1, FirstOfTwo
<1>2. /\ {Row(id, d.path, {d.instance, Offset(d.volume, d.offset)}, FALSE) : d \in devices}
           = RowsOfEach(id, devices, at, names, partial)
      /\ recordPortableDevices(id, devices) = CitesOfEach(id, "portable_device", devices, at, value)
  BY DEF recordPortableDevices, RowsOfEach, CitesOfEach
<1> HIDE DEF at, names, partial, value
<1>3. \A x \in devices : names[x] \ {None} # {} => value[x] \in names[x] \ {None}
  BY <1>1
<1>4. Paired(id, RowsOfEach(id, devices, at, names, partial),
           CitesOfEach(id, "portable_device", devices, at, value))
  BY <1>3, PairedOneByOne
<1> QED BY <1>2, <1>4

\* EMDMgmt keys, likewise.
LEMMA EMDVolumesPaired ==
  ASSUME NEW id, NEW entries
  PROVE  Paired(id, {Row(id, e.path, {e.serial}, FALSE) : e \in entries}, recordEMDMgmt(id, entries))
<1> DEFINE at == [e \in entries |-> e.path]
           names == [e \in entries |-> {e.serial}]
           partial == [e \in entries |-> FALSE]
           value == [e \in entries |-> e.serial]
<1>1. \A e \in entries : names[e] \ {None} # {} => value[e] \in names[e] \ {None}
  OBVIOUS
<1>2. /\ {Row(id, e.path, {e.serial}, FALSE) : e \in entries}
           = RowsOfEach(id, entries, at, names, partial)
      /\ recordEMDMgmt(id, entries) = CitesOfEach(id, "emdmgmt.volume", entries, at, value)
  BY DEF recordEMDMgmt, RowsOfEach, CitesOfEach
<1> HIDE DEF at, names, partial, value
<1>3. \A x \in entries : names[x] \ {None} # {} => value[x] \in names[x] \ {None}
  BY <1>1
<1>4. Paired(id, RowsOfEach(id, entries, at, names, partial), CitesOfEach(id, "emdmgmt.volume", entries, at, value))
  BY <1>3, PairedOneByOne
<1> QED BY <1>2, <1>4

\* MountPoints2 keys, likewise.
LEMMA MountPointsPaired ==
  ASSUME NEW id, NEW points
  PROVE  Paired(id, {Row(id, p.path, {p.volume, p.letter, p.remote}, FALSE) : p \in points},
              recordMountPoints(id, points))
<1> DEFINE at == [p \in points |-> p.path]
           names == [p \in points |-> {p.volume, p.letter, p.remote}]
           partial == [p \in points |-> FALSE]
           value == [p \in points |-> FirstOf(<<p.volume, p.letter, p.remote>>)]
<1>1. \A p \in points : names[p] \ {None} # {} => value[p] \in names[p] \ {None}
  <2> SUFFICES ASSUME NEW p \in points, names[p] \ {None} # {}
               PROVE  value[p] \in names[p] \ {None}
    OBVIOUS
  <2>1. names[p] = {p.volume, p.letter, p.remote} /\ value[p] = FirstOf(<<p.volume, p.letter, p.remote>>)
    OBVIOUS
  <2> HIDE DEF names, value
  <2> QED BY <2>1, FirstOfThree
<1>2. /\ {Row(id, p.path, {p.volume, p.letter, p.remote}, FALSE) : p \in points}
           = RowsOfEach(id, points, at, names, partial)
      /\ recordMountPoints(id, points) = CitesOfEach(id, "mount_point", points, at, value)
  BY DEF recordMountPoints, RowsOfEach, CitesOfEach
<1> HIDE DEF at, names, partial, value
<1>3. \A x \in points : names[x] \ {None} # {} => value[x] \in names[x] \ {None}
  BY <1>1
<1>4. Paired(id, RowsOfEach(id, points, at, names, partial), CitesOfEach(id, "mount_point", points, at, value))
  BY <1>3, PairedOneByOne
<1> QED BY <1>2, <1>4

\* ShellBags, likewise.
LEMMA ShellBagsPaired ==
  ASSUME NEW id, NEW bags
  PROVE  Paired(id, {Row(id, b.key, {b.path}, b.partial) : b \in bags}, recordShellBags(id, bags))
<1> DEFINE at == [b \in bags |-> b.key]
           names == [b \in bags |-> {b.path}]
           partial == [b \in bags |-> b.partial]
           value == [b \in bags |-> b.path]
<1>1. \A b \in bags : names[b] \ {None} # {} => value[b] \in names[b] \ {None}
  OBVIOUS
<1>2. /\ {Row(id, b.key, {b.path}, b.partial) : b \in bags}
           = RowsOfEach(id, bags, at, names, partial)
      /\ recordShellBags(id, bags) = CitesOfEach(id, "shell_bag", bags, at, value)
  BY DEF recordShellBags, RowsOfEach, CitesOfEach
<1> HIDE DEF at, names, partial, value
<1>3. \A x \in bags : names[x] \ {None} # {} => value[x] \in names[x] \ {None}
  BY <1>1
<1>4. Paired(id, RowsOfEach(id, bags, at, names, partial), CitesOfEach(id, "shell_bag", bags, at, value))
  BY <1>3, PairedOneByOne
<1> QED BY <1>2, <1>4

\* Dialog lists, likewise.
LEMMA MRUEntriesPaired ==
  ASSUME NEW id, NEW entries
  PROVE  Paired(id, {Row(id, e.key, {e.path, e.name}, e.partial) : e \in entries}, recordMRUEntries(id, entries))
<1> DEFINE at == [e \in entries |-> e.key]
           names == [e \in entries |-> {e.path, e.name}]
           partial == [e \in entries |-> e.partial]
           value == [e \in entries |-> FirstOf(<<e.path, e.name>>)]
<1>1. \A e \in entries : names[e] \ {None} # {} => value[e] \in names[e] \ {None}
  <2> SUFFICES ASSUME NEW e \in entries, names[e] \ {None} # {}
               PROVE  value[e] \in names[e] \ {None}
    OBVIOUS
  <2>1. names[e] = {e.path, e.name} /\ value[e] = FirstOf(<<e.path, e.name>>)
    OBVIOUS
  <2> HIDE DEF names, value
  <2> QED BY <2>1, FirstOfTwo
<1>2. /\ {Row(id, e.key, {e.path, e.name}, e.partial) : e \in entries}
           = RowsOfEach(id, entries, at, names, partial)
      /\ recordMRUEntries(id, entries) = CitesOfEach(id, "mru", entries, at, value)
  BY DEF recordMRUEntries, RowsOfEach, CitesOfEach
<1> HIDE DEF at, names, partial, value
<1>3. \A x \in entries : names[x] \ {None} # {} => value[x] \in names[x] \ {None}
  BY <1>1
<1>4. Paired(id, RowsOfEach(id, entries, at, names, partial), CitesOfEach(id, "mru", entries, at, value))
  BY <1>3, PairedOneByOne
<1> QED BY <1>2, <1>4

\* UserAssist values, likewise.
LEMMA UserAssistPaired ==
  ASSUME NEW id, NEW entries
  PROVE  Paired(id, {Row(id, e.key, {e.name}, e.partial) : e \in entries}, recordUserAssist(id, entries))
<1> DEFINE at == [e \in entries |-> e.key]
           names == [e \in entries |-> {e.name}]
           partial == [e \in entries |-> e.partial]
           value == [e \in entries |-> e.name]
<1>1. \A e \in entries : names[e] \ {None} # {} => value[e] \in names[e] \ {None}
  OBVIOUS
<1>2. /\ {Row(id, e.key, {e.name}, e.partial) : e \in entries}
           = RowsOfEach(id, entries, at, names, partial)
      /\ recordUserAssist(id, entries) = CitesOfEach(id, "user_assist", entries, at, value)
  BY DEF recordUserAssist, RowsOfEach, CitesOfEach
<1> HIDE DEF at, names, partial, value
<1>3. \A x \in entries : names[x] \ {None} # {} => value[x] \in names[x] \ {None}
  BY <1>1
<1>4. Paired(id, RowsOfEach(id, entries, at, names, partial), CitesOfEach(id, "user_assist", entries, at, value))
  BY <1>3, PairedOneByOne
<1> QED BY <1>2, <1>4

-----------------------------------------------------------------------------
\* What is read of one file once it is hashed.
IsReading(s) ==
  IsProgram(s) /\ SourcesIn(s) = {} /\ Does(s) \subseteq Reading0 /\ \A c : CountsIn(s, c) = {}

\* Programs that only read are closed under their steps and joining.
LEMMA ReadingOf ==
  /\ IsReading(<<>>)
  /\ \A what : IsReading(Observe(what))
  /\ \A artefact, path, severity : IsReading(Warn(artefact, path, severity))
  /\ \A value : IsReading(Keep("zone", value))
  /\ \A value : IsReading(Keep("setting", value))
  /\ \A table, rows : IsReading(insert(table, rows))
  /\ \A s, u : IsReading(s) /\ IsReading(u) => IsReading(s \o u)
  /\ \A s : IsReading(s) => IsProgram(s)
<1>1. IsReading(<<>>)
  BY ProgramOf, SourcesOf, DoesOf, CountsOf DEF IsReading
<1>2. ASSUME NEW what PROVE IsReading(Observe(what))
  BY ProgramOf, SourcesOf, DoesOf, CountsOf DEF IsReading, Reading0
<1>3. ASSUME NEW artefact, NEW path, NEW severity PROVE IsReading(Warn(artefact, path, severity))
  BY ProgramOf, SourcesOf, DoesOf, CountsOf DEF IsReading, Reading0
<1>4. ASSUME NEW value PROVE IsReading(Keep("zone", value)) /\ IsReading(Keep("setting", value))
  BY ProgramOf, SourcesOf, DoesOf, CountsOf DEF IsReading, Reading0
<1>5. ASSUME NEW table, NEW rows PROVE IsReading(insert(table, rows))
  BY ProgramOf, SourcesOf, DoesOf, CountsOf DEF IsReading, Reading0
<1>6. ASSUME NEW s, NEW u, IsReading(s), IsReading(u) PROVE IsReading(s \o u)
  <2>1. IsProgram(s) /\ IsProgram(u)
    BY <1>6 DEF IsReading
  <2>2. IsProgram(s \o u)
    BY <2>1, ProgramOf
  <2>3. SourcesIn(s \o u) = {}
    BY <1>6, <2>1, SourcesOf DEF IsReading
  <2>4. Does(s \o u) \subseteq Reading0
    BY <1>6, <2>1, DoesOf DEF IsReading
  <2>5. \A c : CountsIn(s \o u, c) = {}
    BY <1>6, <2>1, CountsOf DEF IsReading
  <2> QED BY <2>2, <2>3, <2>4, <2>5 DEF IsReading
<1> QED BY <1>1, <1>2, <1>3, <1>4, <1>5, <1>6 DEF IsReading

\* The zone of a hive that has one is kept, cited and loaded.
Zoned(a) == fate[a] # "zoneless" /\ Holds[a].zone # None
ZoneRows(a) == IF Zoned(a) THEN {Row(a, Holds[a].zone, {}, FALSE)} ELSE {}
ZoneCites(a) ==
  IF Zoned(a) THEN {Observation(a, "host.time_zone", Holds[a].zone, Holds[a].zone)} ELSE {}

\* What reading the time zone of a SYSTEM hive lays out.
LEMMA ZoneFacts ==
  ASSUME NEW a
  PROVE  LET Z == ReadZone(a) IN
         /\ IsReading(Z) /\ CitesIn(Z) = ZoneCites(a) /\ WarnsIn(Z) = {}
         /\ \A t : RowsIn(Z, t) = (IF t = "host_time_zone" THEN ZoneRows(a) ELSE {})
         /\ ValuesIn(Z, "zone") = (IF Zoned(a) THEN {Holds[a].zone} ELSE {})
         /\ ValuesIn(Z, "setting") = {}
<1> DEFINE Z == ReadZone(a)
           z == Holds[a].zone
           C == {Observation(a, "host.time_zone", z, z)}
           A == Keep("zone", z) \o Observe(C)
           B == insert("host_time_zone", {Row(a, z, {}, FALSE)})
<1>1. CASE ~Zoned(a)
  <2>1. Z = <<>>
    BY <1>1 DEF ReadZone, When, Zoned
  <2> HIDE DEF Z
  <2>2. IsReading(Z) /\ CitesIn(Z) = {} /\ WarnsIn(Z) = {}
    BY <2>1, ReadingOf, NoneFacts
  <2>3. (\A t : RowsIn(Z, t) = {}) /\ \A w : ValuesIn(Z, w) = {}
    BY <2>1, NoneFacts
  <2> QED BY <1>1, <2>2, <2>3 DEF Z, ZoneCites, ZoneRows
<1>2. CASE Zoned(a)
  <2>1. Z = A \o B
    BY <1>2 DEF ReadZone, When, Zoned, LoadTimeZone
  <2> HIDE DEF Z, C
  <2>2. IsReading(A) /\ IsReading(B) /\ IsProgram(A) /\ IsProgram(B) /\ IsProgram(Observe(C))
        /\ IsProgram(Keep("zone", z))
    BY ReadingOf
  <2>3. CitesIn(A) = C /\ CitesIn(B) = {}
    <3>1. CitesIn(A) = CitesIn(Keep("zone", z)) \cup CitesIn(Observe(C))
      BY <2>2, CitesOf
    <3>2. CitesIn(Keep("zone", z)) = {} /\ CitesIn(Observe(C)) = C /\ CitesIn(B) = {}
      BY CitesOf
    <3> QED BY <3>1, <3>2
  <2>4. WarnsIn(A) = {} /\ WarnsIn(B) = {}
    BY <2>2, WarnsOf
  <2>5. ValuesIn(A, "zone") = {z} /\ ValuesIn(A, "setting") = {} /\
             \A w \in {"zone", "setting"} : ValuesIn(B, w) = {}
    BY <2>2, ValuesOf
  <2>6. \A t : RowsIn(A, t) = {}
    BY <2>2, RowsOf
  <2>7. \A t : RowsIn(B, t) = (IF t = "host_time_zone" THEN {Row(a, z, {}, FALSE)} ELSE {})
    BY RowsOf
  <2> HIDE DEF A, B
  <2>8. IsReading(Z)
    BY <2>1, <2>2, ReadingOf
  <2>9. CitesIn(Z) = C
    <3>1. CitesIn(Z) = CitesIn(A) \cup CitesIn(B)
      BY <2>1, <2>2, CitesOf
    <3> QED BY <2>3, <3>1
  <2>10. WarnsIn(Z) = {}
    BY <2>1, <2>2, <2>4, WarnsOf
  <2>11. ValuesIn(Z, "zone") = {z} /\ ValuesIn(Z, "setting") = {}
    <3>1. \A w : ValuesIn(Z, w) = ValuesIn(A, w) \cup ValuesIn(B, w)
      BY <2>1, <2>2, ValuesOf
    <3> QED BY <2>5, <3>1
  <2>12. ASSUME NEW t PROVE RowsIn(Z, t) = (IF t = "host_time_zone" THEN {Row(a, z, {}, FALSE)} ELSE {})
    <3>1. RowsIn(Z, t) = RowsIn(A, t) \cup RowsIn(B, t) /\ RowsIn(A, t) = {}
      BY <2>1, <2>2, <2>6, RowsOf
    <3> QED BY <2>7, <3>1
  <2> QED BY <1>2, <2>8, <2>9, <2>10, <2>11, <2>12 DEF Z, ZoneCites, ZoneRows, C
<1> QED BY <1>1, <1>2

SettingOf(a) == [id |-> a, found |-> Holds[a].setting]
SettingCites(a) ==
  IF Holds[a].setting # None
  THEN {Observation(a, "host.prefetch_setting", "EnablePrefetcher", Holds[a].setting)} ELSE {}

\* What reading the prefetch setting of a SYSTEM hive lays out.
LEMMA SettingFacts ==
  ASSUME NEW a
  PROVE  LET Z == ReadSetting(a) IN
         /\ IsReading(Z) /\ CitesIn(Z) = SettingCites(a) /\ WarnsIn(Z) = {}
         /\ \A t : RowsIn(Z, t) = {}
         /\ ValuesIn(Z, "zone") = {} /\ ValuesIn(Z, "setting") = {SettingOf(a)}
<1> DEFINE Z == ReadSetting(a)
           K == Keep("setting", SettingOf(a))
           B == When(Holds[a].setting # None,
                  Observe({Observation(a, "host.prefetch_setting", "EnablePrefetcher", Holds[a].setting)}))
<1>1. Z = K \o B
  BY DEF ReadSetting, SettingOf
<1>2. IsReading(K) /\ IsProgram(K) /\ CitesIn(K) = {} /\ WarnsIn(K) = {}
  BY ReadingOf, CitesOf, WarnsOf
<1>3. ValuesIn(K, "zone") = {} /\ ValuesIn(K, "setting") = {SettingOf(a)} /\ \A t : RowsIn(K, t) = {}
  BY ValuesOf, RowsOf
<1>4. IsReading(B) /\ IsProgram(B) /\ CitesIn(B) = SettingCites(a) /\ WarnsIn(B) = {}
  BY ReadingOf, CitesOf, WarnsOf DEF When, SettingCites
<1>5. ValuesIn(B, "zone") = {} /\ ValuesIn(B, "setting") = {}
  BY ValuesOf DEF When
<1>6. \A t : RowsIn(B, t) = {}
  BY RowsOf DEF When
<1> HIDE DEF Z, K, B
<1>7. IsReading(Z)
  BY <1>1, <1>2, <1>4, ReadingOf
<1>8. CitesIn(Z) = SettingCites(a)
  <2>1. CitesIn(Z) = CitesIn(K) \cup CitesIn(B)
    BY <1>1, <1>2, <1>4, CitesOf
  <2> QED BY <1>2, <1>4, <2>1
<1>9. WarnsIn(Z) = {}
  BY <1>1, <1>2, <1>4, WarnsOf
<1>10. ValuesIn(Z, "zone") = {} /\ ValuesIn(Z, "setting") = {SettingOf(a)}
  BY <1>1, <1>2, <1>4, ValuesOf, <1>3, <1>5
<1>11. \A t : RowsIn(Z, t) = {}
  BY <1>1, <1>2, <1>3, <1>4, <1>6, RowsOf
<1> QED BY <1>7, <1>8, <1>9, <1>10, <1>11 DEF Z

\* A citation, then another after it; rows, then others after them.
LEMMA ThenObserve ==
  ASSUME NEW s, IsReading(s), NEW what
  PROVE  LET v == s \o Observe(what) IN
         /\ IsReading(v) /\ CitesIn(v) = CitesIn(s) \cup what /\ WarnsIn(v) = WarnsIn(s)
         /\ \A t : RowsIn(v, t) = RowsIn(s, t)
         /\ \A w \in {"zone", "setting"} : ValuesIn(v, w) = ValuesIn(s, w)
<1> DEFINE u == Observe(what)
           v == s \o u
<1>1. IsReading(u) /\ IsProgram(s) /\ IsProgram(u) /\ CitesIn(u) = what /\ WarnsIn(u) = {}
  BY ReadingOf, CitesOf, WarnsOf
<1>2. (\A t : RowsIn(u, t) = {}) /\ \A w \in {"zone", "setting"} : ValuesIn(u, w) = {}
  BY RowsOf, ValuesOf
<1> HIDE DEF u
<1>3. /\ CitesIn(v) = CitesIn(s) \cup CitesIn(u) /\ WarnsIn(v) = WarnsIn(s) \cup WarnsIn(u)
      /\ \A t : RowsIn(v, t) = RowsIn(s, t) \cup RowsIn(u, t)
      /\ \A w : ValuesIn(v, w) = ValuesIn(s, w) \cup ValuesIn(u, w)
  <2>1. CitesIn(v) = CitesIn(s) \cup CitesIn(u)
    BY <1>1, CitesOf
  <2>2. WarnsIn(v) = WarnsIn(s) \cup WarnsIn(u)
    BY <1>1, WarnsOf
  <2>3. \A t : RowsIn(v, t) = RowsIn(s, t) \cup RowsIn(u, t)
    BY <1>1, RowsOf
  <2>4. \A w : ValuesIn(v, w) = ValuesIn(s, w) \cup ValuesIn(u, w)
    BY <1>1, ValuesOf
  <2> QED BY <2>1, <2>2, <2>3, <2>4
<1>7. IsReading(v)
  BY <1>1, ReadingOf
<1> HIDE DEF v
<1>4. IsReading(v) /\ CitesIn(v) = CitesIn(s) \cup what /\ WarnsIn(v) = WarnsIn(s)
  BY <1>1, <1>3, <1>7
<1>5. \A t : RowsIn(v, t) = RowsIn(s, t)
  BY <1>2, <1>3
<1>6. \A w \in {"zone", "setting"} : ValuesIn(v, w) = ValuesIn(s, w)
  BY <1>2, <1>3
<1> QED BY <1>4, <1>5, <1>6 DEF v, u

\* A reading with an insert after it.
LEMMA ThenInsert ==
  ASSUME NEW s, IsReading(s), NEW table, NEW rows
  PROVE  LET v == s \o insert(table, rows) IN
         /\ IsReading(v) /\ CitesIn(v) = CitesIn(s) /\ WarnsIn(v) = WarnsIn(s)
         /\ \A t : RowsIn(v, t) = RowsIn(s, t) \cup (IF t = table THEN rows ELSE {})
         /\ \A w \in {"zone", "setting"} : ValuesIn(v, w) = ValuesIn(s, w)
<1> DEFINE u == insert(table, rows)
           v == s \o u
<1>1. IsReading(u) /\ IsProgram(s) /\ IsProgram(u) /\ CitesIn(u) = {} /\ WarnsIn(u) = {}
  BY ReadingOf, CitesOf, WarnsOf
<1>2. /\ \A t : RowsIn(u, t) = (IF t = table THEN rows ELSE {})
      /\ \A w \in {"zone", "setting"} : ValuesIn(u, w) = {}
  BY RowsOf, ValuesOf
<1> HIDE DEF u
<1>3. /\ CitesIn(v) = CitesIn(s) \cup CitesIn(u) /\ WarnsIn(v) = WarnsIn(s) \cup WarnsIn(u)
      /\ \A t : RowsIn(v, t) = RowsIn(s, t) \cup RowsIn(u, t)
      /\ \A w : ValuesIn(v, w) = ValuesIn(s, w) \cup ValuesIn(u, w)
  <2>1. CitesIn(v) = CitesIn(s) \cup CitesIn(u)
    BY <1>1, CitesOf
  <2>2. WarnsIn(v) = WarnsIn(s) \cup WarnsIn(u)
    BY <1>1, WarnsOf
  <2>3. \A t : RowsIn(v, t) = RowsIn(s, t) \cup RowsIn(u, t)
    BY <1>1, RowsOf
  <2>4. \A w : ValuesIn(v, w) = ValuesIn(s, w) \cup ValuesIn(u, w)
    BY <1>1, ValuesOf
  <2> QED BY <2>1, <2>2, <2>3, <2>4
<1>7. IsReading(v)
  BY <1>1, ReadingOf
<1> HIDE DEF v
<1>4. IsReading(v) /\ CitesIn(v) = CitesIn(s) /\ WarnsIn(v) = WarnsIn(s)
  BY <1>1, <1>3, <1>7
<1>5. \A t : RowsIn(v, t) = RowsIn(s, t) \cup (IF t = table THEN rows ELSE {})
  BY <1>2, <1>3
<1>6. \A w \in {"zone", "setting"} : ValuesIn(v, w) = ValuesIn(s, w)
  BY <1>2, <1>3
<1> QED BY <1>4, <1>5, <1>6 DEF v, u

\* A reading with another after it.
LEMMA ThenRead ==
  ASSUME NEW s, IsReading(s), NEW u, IsReading(u)
  PROVE  LET v == s \o u IN
         /\ IsReading(v) /\ CitesIn(v) = CitesIn(s) \cup CitesIn(u)
         /\ WarnsIn(v) = WarnsIn(s) \cup WarnsIn(u)
         /\ \A t : RowsIn(v, t) = RowsIn(s, t) \cup RowsIn(u, t)
         /\ \A w : ValuesIn(v, w) = ValuesIn(s, w) \cup ValuesIn(u, w)
  BY ReadingOf, JoinFacts

-----------------------------------------------------------------------------
ReadTables ==
  {"host_time_zone", "devnode", "mount_entry", "portable_device", "emd_volume", "mount_point", "shell_bag",
   "mru_entry", "user_assist", "setup_section"}

\* What a program loads of an artefact it cites, and what it cites it loads.
RowsAreCited(a, s) ==
  \A t : \A r \in RowsIn(s, t) :
    /\ t \in ReadTables /\ r.source = a /\ CitedBy(r, CitesIn(s))
    /\ t \notin DOMAIN Carrying => r.partial = FALSE
CitesAreLoaded(s) ==
  \A o \in CitesIn(s) : o.kind = "host.prefetch_setting" \/ \E t \in ReadTables : HeldBy(o, RowsIn(s, t))

\* More observations leave a cited row cited.
LEMMA CitedMore ==
  ASSUME NEW r, NEW O, NEW Q, O \subseteq Q, CitedBy(r, O)
  PROVE  CitedBy(r, Q)
  BY DEF CitedBy

\* More rows leave an observation held.
LEMMA HeldMore ==
  ASSUME NEW o, NEW R, NEW Q, R \subseteq Q, HeldBy(o, R)
  PROVE  HeldBy(o, Q)
  BY DEF HeldBy

\* The tables whose rows may be partial.
LEMMA CarryingTables ==
  DOMAIN Carrying = {"shell_bag", "mru_entry", "user_assist", "disk_layout", "file_target", "prefetch_run"}
  BY DEF Carrying

DevnodeRows(a) == {Row(a, d.key, d.stored \cup d.properties, FALSE) : d \in Holds[a].devnodes}
MountRows(a) ==
  {Row(a, e.name, {e.device, e.partition, Offset(e.volume, e.offset)}, FALSE) :
     e \in Holds[a].mounts}
BagRows(a) == {Row(a, b.key, {b.path}, b.partial) : b \in Holds[a].bags}
MRURows(a) == {Row(a, e.key, {e.path, e.name}, e.partial) : e \in Holds[a].mru}
AssistRows(a) == {Row(a, e.key, {e.name}, e.partial) : e \in Holds[a].launched}
PointRows(a) == {Row(a, p.path, {p.volume, p.letter, p.remote}, FALSE) : p \in Holds[a].points}
PortableRows(a) == {Row(a, d.path, {d.instance, Offset(d.volume, d.offset)}, FALSE) : d \in Holds[a].portable}

ReadSystem(a) ==
  ReadZone(a) \o ReadSetting(a)
    \o Observe(recordDevnodes(a, Holds[a].devnodes)) \o Observe(recordMountEntries(a, Holds[a].mounts))
    \o LoadDevnodes(a, Holds[a].devnodes) \o LoadMountEntries(a, Holds[a].mounts)

\* What reading a loaded SYSTEM hive lays out.
LEMMA SystemReading ==
  ASSUME NEW a \in Artefacts, Kind[a] = "SYSTEM"
  PROVE  LET s == ReadSystem(a) IN
         /\ IsReading(s) /\ RowsAreCited(a, s) /\ CitesAreLoaded(s) /\ WarnsIn(s) = {}
         /\ RowsIn(s, "host_time_zone") = ZoneRows(a) /\ RowsIn(s, "devnode") = DevnodeRows(a)
         /\ \A t \in {"shell_bag", "mru_entry", "user_assist", "setup_section"} : RowsIn(s, t) = {}
         /\ ValuesIn(s, "zone") = (IF Zoned(a) THEN {Holds[a].zone} ELSE {})
         /\ ValuesIn(s, "setting") = {SettingOf(a)}
<1> DEFINE s == ReadSystem(a)
           D == recordDevnodes(a, Holds[a].devnodes)
           M == recordMountEntries(a, Holds[a].mounts)
           A == ReadZone(a) \o ReadSetting(a)
           B == A \o Observe(D)
           C == B \o Observe(M)
           E == C \o insert("devnode", DevnodeRows(a))
           F == E \o insert("mount_entry", MountRows(a))
           zv == IF Zoned(a) THEN {Holds[a].zone} ELSE {}
           zr(t) == IF t = "host_time_zone" THEN ZoneRows(a) ELSE {}
           zc == ZoneCites(a) \cup SettingCites(a)
<1>1. s = F
  BY DEF ReadSystem, LoadDevnodes, LoadMountEntries, DevnodeRows, MountRows
<1> HIDE DEF s, D, M, zv
<1>2. /\ IsReading(A) /\ CitesIn(A) = zc /\ WarnsIn(A) = {} /\ \A t : RowsIn(A, t) = zr(t)
      /\ ValuesIn(A, "zone") = zv /\ ValuesIn(A, "setting") = {SettingOf(a)}
  <2> DEFINE U == ReadZone(a)
             V == ReadSetting(a)
  <2>1. /\ IsReading(U) /\ CitesIn(U) = ZoneCites(a) /\ WarnsIn(U) = {}
        /\ \A t : RowsIn(U, t) = zr(t)
        /\ ValuesIn(U, "zone") = zv /\ ValuesIn(U, "setting") = {}
    BY ZoneFacts DEF zv
  <2>2. /\ IsReading(V) /\ CitesIn(V) = SettingCites(a) /\ WarnsIn(V) = {} /\ \A t : RowsIn(V, t) = {}
        /\ ValuesIn(V, "zone") = {} /\ ValuesIn(V, "setting") = {SettingOf(a)}
    BY SettingFacts
  <2> HIDE DEF U, V, zr
  <2>3. /\ IsReading(U \o V) /\ CitesIn(U \o V) = CitesIn(U) \cup CitesIn(V)
        /\ WarnsIn(U \o V) = WarnsIn(U) \cup WarnsIn(V)
        /\ \A t : RowsIn(U \o V, t) = RowsIn(U, t) \cup RowsIn(V, t)
        /\ \A w : ValuesIn(U \o V, w) = ValuesIn(U, w) \cup ValuesIn(V, w)
    BY <2>1, <2>2, ThenRead
  <2>4. \A t : RowsIn(U \o V, t) = zr(t)
    BY <2>1, <2>2, <2>3
  <2> QED BY <2>1, <2>2, <2>3, <2>4 DEF U, V
<1> HIDE DEF A, zr, zc
<1>3. /\ IsReading(B) /\ CitesIn(B) = zc \cup D /\ WarnsIn(B) = {} /\ \A t : RowsIn(B, t) = zr(t)
      /\ ValuesIn(B, "zone") = zv /\ ValuesIn(B, "setting") = {SettingOf(a)}
  BY <1>2, ThenObserve
<1> HIDE DEF B
<1>4. /\ IsReading(C) /\ CitesIn(C) = zc \cup D \cup M /\ WarnsIn(C) = {} /\ \A t : RowsIn(C, t) = zr(t)
      /\ ValuesIn(C, "zone") = zv /\ ValuesIn(C, "setting") = {SettingOf(a)}
  BY <1>3, ThenObserve
<1> HIDE DEF C
<1>5. /\ IsReading(E) /\ CitesIn(E) = zc \cup D \cup M /\ WarnsIn(E) = {}
      /\ \A t : RowsIn(E, t) = zr(t) \cup (IF t = "devnode" THEN DevnodeRows(a) ELSE {})
      /\ ValuesIn(E, "zone") = zv /\ ValuesIn(E, "setting") = {SettingOf(a)}
  BY <1>4, ThenInsert
<1> HIDE DEF E
<1>6. /\ IsReading(F) /\ CitesIn(F) = zc \cup D \cup M /\ WarnsIn(F) = {}
      /\ \A t : RowsIn(F, t) = zr(t) \cup (IF t = "devnode" THEN DevnodeRows(a) ELSE {})
                                  \cup (IF t = "mount_entry" THEN MountRows(a) ELSE {})
      /\ ValuesIn(F, "zone") = zv /\ ValuesIn(F, "setting") = {SettingOf(a)}
  BY <1>5, ThenInsert
<1> HIDE DEF F
<1>7. /\ RowsIn(F, "host_time_zone") = ZoneRows(a) /\ RowsIn(F, "devnode") = DevnodeRows(a)
      /\ RowsIn(F, "mount_entry") = MountRows(a)
      /\ \A t : t \notin {"host_time_zone", "devnode", "mount_entry"} => RowsIn(F, t) = {}
  BY <1>6 DEF zr
<1>8. Paired(a, DevnodeRows(a), D) /\ Paired(a, MountRows(a), M)
  BY RecordsAssumption, DevnodesPaired, MountEntriesPaired DEF DevnodeRows, MountRows, D, M
<1>9. ASSUME NEW r \in ZoneRows(a) PROVE r.source = a /\ CitedBy(r, CitesIn(F)) /\ r.partial = FALSE
  <2> DEFINE z == Holds[a].zone
  <2>1. r = Row(a, z, {}, FALSE) /\ Observation(a, "host.time_zone", z, z) \in zc
    BY <1>9 DEF ZoneRows, ZoneCites, zc
  <2> HIDE DEF z
  <2>2. Observation(a, "host.time_zone", z, z) \in CitesIn(F) /\ {} \ {None} = {}
    BY <1>6, <2>1
  <2>3. CitedBy(Row(a, z, {}, FALSE), CitesIn(F))
    BY <2>2, CitedFacts
  <2>4. r.source = a /\ r.partial = FALSE
    BY <2>1 DEF Row
  <2> QED BY <2>1, <2>3, <2>4
<1>10. RowsAreCited(a, F)
  <2> SUFFICES ASSUME NEW t, NEW r \in RowsIn(F, t)
               PROVE  /\ t \in ReadTables /\ r.source = a /\ CitedBy(r, CitesIn(F)) /\ r.partial = FALSE
    BY DEF RowsAreCited
  <2>1. D \subseteq CitesIn(F) /\ M \subseteq CitesIn(F)
    BY <1>6
  <2>2. CASE t = "host_time_zone"
    BY <1>7, <1>9, <2>2 DEF ReadTables
  <2>3. CASE t = "devnode"
    BY <1>7, <2>3, <1>8, <2>1, CitedMore DEF Paired, DevnodeRows, Row, ReadTables
  <2>4. CASE t = "mount_entry"
    BY <1>7, <2>4, <1>8, <2>1, CitedMore DEF Paired, MountRows, Row, ReadTables
  <2> QED BY <1>7, <2>2, <2>3, <2>4
<1>11. CitesAreLoaded(F)
  <2> SUFFICES ASSUME NEW o \in CitesIn(F)
               PROVE  o.kind = "host.prefetch_setting" \/ \E t \in ReadTables : HeldBy(o, RowsIn(F, t))
    BY DEF CitesAreLoaded
  <2>1. "host_time_zone" \in ReadTables /\ "devnode" \in ReadTables /\ "mount_entry" \in ReadTables
    BY DEF ReadTables
  <2>2. CASE o \in ZoneCites(a)
    <3> DEFINE z == Holds[a].zone
    <3>1. o = Observation(a, "host.time_zone", z, z) /\ Row(a, z, {}, FALSE) \in RowsIn(F, "host_time_zone")
      BY <1>7, <2>2 DEF ZoneRows, ZoneCites
    <3> HIDE DEF z
    <3>2. HeldBy(Observation(a, "host.time_zone", z, z), RowsIn(F, "host_time_zone"))
      BY <3>1, HeldFacts
    <3> QED BY <2>1, <3>1, <3>2
  <2>3. CASE o \in SettingCites(a)
    BY <2>3, ObservationFacts DEF SettingCites
  <2>4. CASE o \in D
    BY <1>7, <1>8, <2>1, <2>4 DEF Paired
  <2>5. CASE o \in M
    BY <1>7, <1>8, <2>1, <2>5 DEF Paired
  <2> QED BY <1>6, <2>2, <2>3, <2>4, <2>5 DEF zc
<1>12. \A t \in {"shell_bag", "mru_entry", "user_assist", "setup_section"} : RowsIn(F, t) = {}
  BY <1>7
<1> QED BY <1>1, <1>6, <1>7, <1>10, <1>11, <1>12 DEF s, zv

ReadSoftware(a) ==
  LET volumes == IF fate[a] \in {"without", "empty"} THEN {} ELSE Holds[a].volumes IN
  Observe(recordPortableDevices(a, Holds[a].portable))
    \o When(volumes = {}, Absent("EMDMgmt", a))
    \o Observe(recordEMDMgmt(a, volumes))
    \o LoadPortableDevices(a, Holds[a].portable) \o LoadEMDVolumes(a, volumes)

\* What reading a loaded SOFTWARE hive lays out.
LEMMA SoftwareReading ==
  ASSUME NEW a
  PROVE  LET s == ReadSoftware(a) IN
         /\ IsReading(s) /\ RowsAreCited(a, s) /\ CitesAreLoaded(s)
         /\ WarnsIn(s) \subseteq {[artefact |-> "EMDMgmt", path |-> a, severity |-> "absent"]}
         /\ fate[a] \in {"without", "empty"} =>
              WarnsIn(s) = {[artefact |-> "EMDMgmt", path |-> a, severity |-> "absent"]}
         /\ \A t \in ReadTables \ {"portable_device", "emd_volume"} : RowsIn(s, t) = {}
         /\ \A w \in {"zone", "setting"} : ValuesIn(s, w) = {}
<1> DEFINE s == ReadSoftware(a)
           vs == IF fate[a] \in {"without", "empty"} THEN {} ELSE Holds[a].volumes
           P == recordPortableDevices(a, Holds[a].portable)
           V == recordEMDMgmt(a, vs)
           VR == {Row(a, e.path, {e.serial}, FALSE) : e \in vs}
           w0 == [artefact |-> "EMDMgmt", path |-> a, severity |-> "absent"]
           A == Observe(P)
           N == When(vs = {}, Absent("EMDMgmt", a))
           B == A \o N
           C == B \o Observe(V)
           E == C \o insert("portable_device", PortableRows(a))
           F == E \o insert("emd_volume", VR)
           gone == IF vs = {} THEN {w0} ELSE {}
<1>1. s = F
  BY DEF ReadSoftware, LoadPortableDevices, LoadEMDVolumes, PortableRows
<1> HIDE DEF s, P, V, VR
<1>2. /\ IsReading(A) /\ CitesIn(A) = P /\ WarnsIn(A) = {} /\ \A t : RowsIn(A, t) = {}
      /\ \A w \in {"zone", "setting"} : ValuesIn(A, w) = {}
  BY ReadingOf, CitesOf, WarnsOf, RowsOf, ValuesOf
<1>3. /\ IsReading(N) /\ CitesIn(N) = {} /\ WarnsIn(N) = gone /\ \A t : RowsIn(N, t) = {}
      /\ \A w \in {"zone", "setting"} : ValuesIn(N, w) = {}
  <2>1. CASE vs = {}
    <3>1. N = Warn("EMDMgmt", a, "absent") /\ gone = {w0}
      BY <2>1 DEF When, Absent
    <3> HIDE DEF N, vs, gone
    <3>2. WarnsIn(N) = {w0}
      BY <3>1, WarnsOf
    <3> QED BY <3>1, <3>2, ReadingOf, CitesOf, RowsOf, ValuesOf
  <2>2. CASE vs # {}
    <3>1. N = <<>> /\ gone = {}
      BY <2>2 DEF When
    <3> HIDE DEF N, vs, gone
    <3> QED BY <3>1, ReadingOf, CitesOf, WarnsOf, RowsOf, ValuesOf
  <2> QED BY <2>1, <2>2
<1> HIDE DEF A, N, gone
<1>4. /\ IsReading(B) /\ CitesIn(B) = P /\ WarnsIn(B) = gone /\ \A t : RowsIn(B, t) = {}
      /\ \A w \in {"zone", "setting"} : ValuesIn(B, w) = {}
  <2>0. IsReading(A) /\ IsReading(N)
    BY <1>2, <1>3
  <2>1. /\ IsReading(A \o N) /\ CitesIn(A \o N) = CitesIn(A) \cup CitesIn(N)
        /\ WarnsIn(A \o N) = WarnsIn(A) \cup WarnsIn(N)
        /\ \A t : RowsIn(A \o N, t) = RowsIn(A, t) \cup RowsIn(N, t)
        /\ \A w : ValuesIn(A \o N, w) = ValuesIn(A, w) \cup ValuesIn(N, w)
    BY ONLY <2>0, ThenRead
  <2> QED BY <1>2, <1>3, <2>1
<1> HIDE DEF B
<1>5. /\ IsReading(C) /\ CitesIn(C) = P \cup V /\ WarnsIn(C) = gone /\ \A t : RowsIn(C, t) = {}
      /\ \A w \in {"zone", "setting"} : ValuesIn(C, w) = {}
  BY <1>4, ThenObserve
<1> HIDE DEF C
<1>6. /\ IsReading(E) /\ CitesIn(E) = P \cup V /\ WarnsIn(E) = gone
      /\ \A t : RowsIn(E, t) = (IF t = "portable_device" THEN PortableRows(a) ELSE {})
      /\ \A w \in {"zone", "setting"} : ValuesIn(E, w) = {}
  <2> DEFINE v == C \o insert("portable_device", PortableRows(a))
  <2>0. IsReading(C)
    BY <1>5
  <2>1. /\ IsReading(v) /\ CitesIn(v) = CitesIn(C) /\ WarnsIn(v) = WarnsIn(C)
        /\ \A t : RowsIn(v, t) = RowsIn(C, t) \cup (IF t = "portable_device" THEN PortableRows(a) ELSE {})
        /\ \A w \in {"zone", "setting"} : ValuesIn(v, w) = ValuesIn(C, w)
    BY ONLY <2>0, ThenInsert
  <2> HIDE DEF v
  <2>2. /\ IsReading(v) /\ CitesIn(v) = P \cup V /\ WarnsIn(v) = gone
        /\ \A t : RowsIn(v, t) = (IF t = "portable_device" THEN PortableRows(a) ELSE {})
        /\ \A w \in {"zone", "setting"} : ValuesIn(v, w) = {}
    BY <1>5, <2>1
  <2> QED BY <2>2 DEF v
<1> HIDE DEF E
<1>7. /\ IsReading(F) /\ CitesIn(F) = P \cup V /\ WarnsIn(F) = gone
      /\ \A t : RowsIn(F, t) = (IF t = "portable_device" THEN PortableRows(a) ELSE {})
                                  \cup (IF t = "emd_volume" THEN VR ELSE {})
      /\ \A w \in {"zone", "setting"} : ValuesIn(F, w) = {}
  <2> DEFINE v == E \o insert("emd_volume", VR)
  <2>0. IsReading(E)
    BY <1>6
  <2>1. /\ IsReading(v) /\ CitesIn(v) = CitesIn(E) /\ WarnsIn(v) = WarnsIn(E)
        /\ \A t : RowsIn(v, t) = RowsIn(E, t) \cup (IF t = "emd_volume" THEN VR ELSE {})
        /\ \A w \in {"zone", "setting"} : ValuesIn(v, w) = ValuesIn(E, w)
    BY ONLY <2>0, ThenInsert
  <2> HIDE DEF v
  <2>2. /\ IsReading(v) /\ CitesIn(v) = P \cup V /\ WarnsIn(v) = gone
        /\ \A t : RowsIn(v, t) = (IF t = "portable_device" THEN PortableRows(a) ELSE {})
                                    \cup (IF t = "emd_volume" THEN VR ELSE {})
        /\ \A w \in {"zone", "setting"} : ValuesIn(v, w) = {}
    BY <1>6, <2>1
  <2> QED BY <2>2 DEF v
<1> HIDE DEF F
<1>8. /\ RowsIn(F, "portable_device") = PortableRows(a) /\ RowsIn(F, "emd_volume") = VR
      /\ \A t : t \notin {"portable_device", "emd_volume"} => RowsIn(F, t) = {}
  BY <1>7
<1>9. Paired(a, PortableRows(a), P) /\ Paired(a, VR, V)
  BY PortableDevicesPaired, EMDVolumesPaired DEF PortableRows, P, V, VR
<1>10. RowsAreCited(a, F)
  <2> SUFFICES ASSUME NEW t, NEW r \in RowsIn(F, t)
               PROVE  /\ t \in ReadTables /\ r.source = a /\ CitedBy(r, CitesIn(F)) /\ r.partial = FALSE
    BY DEF RowsAreCited
  <2>1. P \subseteq CitesIn(F) /\ V \subseteq CitesIn(F)
    BY <1>7
  <2>2. CASE t = "portable_device"
    BY <1>8, <2>2, <1>9, <2>1, CitedMore DEF Paired, PortableRows, Row, ReadTables
  <2>3. CASE t = "emd_volume"
    BY <1>8, <2>3, <1>9, <2>1, CitedMore DEF Paired, VR, Row, ReadTables
  <2> QED BY <1>8, <2>2, <2>3
<1>11. CitesAreLoaded(F)
  <2> SUFFICES ASSUME NEW o \in CitesIn(F) PROVE \E t \in ReadTables : HeldBy(o, RowsIn(F, t))
    BY DEF CitesAreLoaded
  <2>1. "portable_device" \in ReadTables /\ "emd_volume" \in ReadTables
    BY DEF ReadTables
  <2>2. CASE o \in P
    BY <1>8, <1>9, <2>1, <2>2 DEF Paired
  <2>3. CASE o \in V
    BY <1>8, <1>9, <2>1, <2>3 DEF Paired
  <2> QED BY <1>7, <2>2, <2>3
<1>12. /\ WarnsIn(F) \subseteq {w0}
       /\ fate[a] \in {"without", "empty"} => WarnsIn(F) = {w0}
       /\ \A t \in ReadTables \ {"portable_device", "emd_volume"} : RowsIn(F, t) = {}
       /\ \A w \in {"zone", "setting"} : ValuesIn(F, w) = {}
  BY <1>7, <1>8 DEF gone
<1> QED BY <1>1, <1>7, <1>10, <1>11, <1>12 DEF s

-----------------------------------------------------------------------------
\* What is read so far is cited and loaded.
IsSound(a, s) == IsReading(s) /\ RowsAreCited(a, s) /\ CitesAreLoaded(s)

\* Rows of one table are all that these programs differ by.
AddsRows(v, s, table, rows) ==
  /\ WarnsIn(v) = WarnsIn(s)
  /\ \A t : RowsIn(v, t) = RowsIn(s, t) \cup (IF t = table THEN rows ELSE {})
  /\ \A w \in {"zone", "setting"} : ValuesIn(v, w) = ValuesIn(s, w)

\* The records of one table, cited and then loaded.
LEMMA AndPair ==
  ASSUME NEW a, NEW s, IsSound(a, s), NEW table \in ReadTables, NEW rows, NEW cites, Paired(a, rows, cites),
         table \in DOMAIN Carrying \/ \A r \in rows : r.partial = FALSE
  PROVE  LET v == s \o Observe(cites) \o insert(table, rows) IN
         IsSound(a, v) /\ AddsRows(v, s, table, rows)
<1> DEFINE A == s \o Observe(cites)
           v == A \o insert(table, rows)
<1>1. IsReading(s)
  BY DEF IsSound
<1>2. /\ IsReading(A) /\ CitesIn(A) = CitesIn(s) \cup cites /\ WarnsIn(A) = WarnsIn(s)
      /\ \A t : RowsIn(A, t) = RowsIn(s, t)
      /\ \A w \in {"zone", "setting"} : ValuesIn(A, w) = ValuesIn(s, w)
  BY <1>1, ThenObserve
<1> HIDE DEF A
<1>3. IsReading(A)
  BY <1>2
<1>4. /\ IsReading(v) /\ CitesIn(v) = CitesIn(A) /\ WarnsIn(v) = WarnsIn(A)
      /\ \A t : RowsIn(v, t) = RowsIn(A, t) \cup (IF t = table THEN rows ELSE {})
      /\ \A w \in {"zone", "setting"} : ValuesIn(v, w) = ValuesIn(A, w)
  BY <1>3, ThenInsert
<1> HIDE DEF v
<1>5. /\ IsReading(v) /\ CitesIn(v) = CitesIn(s) \cup cites /\ WarnsIn(v) = WarnsIn(s)
      /\ \A t : RowsIn(v, t) = RowsIn(s, t) \cup (IF t = table THEN rows ELSE {})
      /\ \A w \in {"zone", "setting"} : ValuesIn(v, w) = ValuesIn(s, w)
  BY <1>2, <1>4
<1>6. RowsAreCited(a, v)
  <2> SUFFICES ASSUME NEW t, NEW r \in RowsIn(v, t)
               PROVE  /\ t \in ReadTables /\ r.source = a /\ CitedBy(r, CitesIn(v))
                      /\ t \notin DOMAIN Carrying => r.partial = FALSE
    BY DEF RowsAreCited
  <2>1. CitesIn(s) \subseteq CitesIn(v) /\ cites \subseteq CitesIn(v)
    BY <1>5
  <2>2. CASE r \in RowsIn(s, t)
    BY <2>2, <2>1, CitedMore DEF IsSound, RowsAreCited
  <2>3. CASE t = table /\ r \in rows
    BY <2>3, <2>1, CitedMore DEF Paired
  <2> QED BY <1>5, <2>2, <2>3
<1>7. CitesAreLoaded(v)
  <2> SUFFICES ASSUME NEW o \in CitesIn(v)
               PROVE  o.kind = "host.prefetch_setting" \/ \E t \in ReadTables : HeldBy(o, RowsIn(v, t))
    BY DEF CitesAreLoaded
  <2>1. \A t : RowsIn(s, t) \subseteq RowsIn(v, t)
    BY <1>5
  <2>2. rows \subseteq RowsIn(v, table)
    BY <1>5
  <2>3. CASE o \in CitesIn(s)
    BY <2>1, <2>3, HeldMore DEF IsSound, CitesAreLoaded
  <2>4. CASE o \in cites
    BY <2>4, <2>2, HeldMore DEF Paired
  <2> QED BY <1>5, <2>3, <2>4
<1> QED BY <1>5, <1>6, <1>7 DEF IsSound, AddsRows, v, A

\* Reading nothing is sound.
LEMMA NothingRead ==
  ASSUME NEW a
  PROVE  /\ IsSound(a, <<>>) /\ CitesIn(<<>>) = {} /\ WarnsIn(<<>>) = {} /\ \A t : RowsIn(<<>>, t) = {}
         /\ \A w \in {"zone", "setting"} : ValuesIn(<<>>, w) = {}
BY NoneFacts, ReadingOf DEF RowsAreCited, CitesAreLoaded, IsSound

\* Nothing before an observation is the observation.
LEMMA NothingBefore ==
  ASSUME NEW x
  PROVE  <<>> \o Observe(x) = Observe(x)
<1> DEFINE i == [do |-> "observe", what |-> x]
<1>1. <<>> \o <<i>> = <<i>>
  <2> HIDE DEF i
  <2>1. <<i>> \in Seq({i})
    OBVIOUS
  <2> QED BY <2>1
<1> QED BY <1>1 DEF Observe

UserRows(a, t) ==
  CASE t = "mount_point" /\ Kind[a] = "NTUSER" -> PointRows(a)
    [] t = "mru_entry" /\ Kind[a] = "NTUSER" -> MRURows(a)
    [] t = "user_assist" /\ Kind[a] = "NTUSER" -> AssistRows(a)
    [] t = "shell_bag" -> BagRows(a)
    [] OTHER -> {}

ReadUser(a) ==
  When(Kind[a] = "NTUSER",
       Observe(recordMountPoints(a, Holds[a].points)) \o LoadMountPoints(a, Holds[a].points)
       \o Observe(recordMRUEntries(a, Holds[a].mru)) \o LoadMRUEntries(a, Holds[a].mru)
       \o Observe(recordUserAssist(a, Holds[a].launched)) \o LoadUserAssist(a, Holds[a].launched))
  \o Observe(recordShellBags(a, Holds[a].bags)) \o LoadShellBags(a, Holds[a].bags)

\* What reading a loaded user hive lays out.
LEMMA UserReading ==
  ASSUME NEW a
  PROVE  LET s == ReadUser(a) IN
         /\ IsSound(a, s) /\ WarnsIn(s) = {} /\ \A t : RowsIn(s, t) = UserRows(a, t)
         /\ \A w \in {"zone", "setting"} : ValuesIn(s, w) = {}
<1> DEFINE PC == recordMountPoints(a, Holds[a].points)
           PR == PointRows(a)
           MC == recordMRUEntries(a, Holds[a].mru)
           MR == MRURows(a)
           UC == recordUserAssist(a, Holds[a].launched)
           UR == AssistRows(a)
           BC == recordShellBags(a, Holds[a].bags)
           BR == BagRows(a)
           A == Observe(PC) \o insert("mount_point", PR)
           B == A \o Observe(MC) \o insert("mru_entry", MR)
           C == B \o Observe(UC) \o insert("user_assist", UR)
           N == When(Kind[a] = "NTUSER", C)
           s == N \o Observe(BC) \o insert("shell_bag", BR)
           Held1(t) == (IF t = "mount_point" THEN PR ELSE {})
           Held2(t) == Held1(t) \cup (IF t = "mru_entry" THEN MR ELSE {})
           Held3(t) == Held2(t) \cup (IF t = "user_assist" THEN UR ELSE {})
<1>1. ReadUser(a) = s
  BY DEF ReadUser, LoadMountPoints, LoadMRUEntries, LoadUserAssist, LoadShellBags, PointRows, MRURows,
         AssistRows, BagRows
<1>2. /\ Paired(a, PR, PC) /\ Paired(a, MR, MC) /\ Paired(a, UR, UC) /\ Paired(a, BR, BC)
      /\ \A r \in PR : r.partial = FALSE
  <2>1. \A r \in PR : r.partial = FALSE
    BY DEF PointRows, Row
  <2> QED BY <2>1, MountPointsPaired, MRUEntriesPaired, UserAssistPaired, ShellBagsPaired
       DEF PointRows, MRURows, AssistRows, BagRows
<1>3. /\ "mount_point" \in ReadTables /\ "mru_entry" \in ReadTables /\ "user_assist" \in ReadTables
      /\ "shell_bag" \in ReadTables /\ "mru_entry" \in DOMAIN Carrying /\ "user_assist" \in DOMAIN Carrying
      /\ "shell_bag" \in DOMAIN Carrying
  BY CarryingTables DEF ReadTables
<1> HIDE DEF PC, MC, UC, BC, PR, MR, UR, BR
<1>4. /\ IsSound(a, A) /\ WarnsIn(A) = {} /\ \A t : RowsIn(A, t) = Held1(t)
      /\ \A w \in {"zone", "setting"} : ValuesIn(A, w) = {}
  <2> DEFINE z == <<>>
  <2>1. /\ IsSound(a, z) /\ WarnsIn(z) = {} /\ \A t : RowsIn(z, t) = {}
        /\ \A w \in {"zone", "setting"} : ValuesIn(z, w) = {}
    BY NothingRead
  <2>2. z \o Observe(PC) = Observe(PC)
    BY NothingBefore
  <2> HIDE DEF z
  <2>3. IsSound(a, z)
    BY <2>1
  <2>6. /\ Paired(a, PR, PC) /\ "mount_point" \in ReadTables
        /\ "mount_point" \in DOMAIN Carrying \/ \A r \in PR : r.partial = FALSE
    BY <1>2, <1>3
  <2> DEFINE v == z \o Observe(PC) \o insert("mount_point", PR)
  <2>7. IsSound(a, v) /\ AddsRows(v, z, "mount_point", PR)
    BY ONLY <2>3, <2>6, AndPair
  <2>4. /\ IsSound(a, v) /\ WarnsIn(v) = WarnsIn(z)
        /\ \A t : RowsIn(v, t) = RowsIn(z, t) \cup (IF t = "mount_point" THEN PR ELSE {})
        /\ \A w \in {"zone", "setting"} : ValuesIn(v, w) = ValuesIn(z, w)
    BY <2>7 DEF AddsRows
  <2>5. v = A
    BY <2>2
  <2> HIDE DEF v, A
  <2> QED BY <2>1, <2>4, <2>5
<1> HIDE DEF A, Held1
<1>5. /\ IsSound(a, B) /\ WarnsIn(B) = {} /\ \A t : RowsIn(B, t) = Held2(t)
      /\ \A w \in {"zone", "setting"} : ValuesIn(B, w) = {}
  <2>1. IsSound(a, A)
    BY <1>4
  <2>3. /\ Paired(a, MR, MC) /\ "mru_entry" \in ReadTables
        /\ "mru_entry" \in DOMAIN Carrying \/ \A r \in MR : r.partial = FALSE
    BY <1>2, <1>3
  <2>7. IsSound(a, B) /\ AddsRows(B, A, "mru_entry", MR)
    BY ONLY <2>1, <2>3, AndPair
  <2>2. /\ IsSound(a, B) /\ WarnsIn(B) = WarnsIn(A)
        /\ \A t : RowsIn(B, t) = RowsIn(A, t) \cup (IF t = "mru_entry" THEN MR ELSE {})
        /\ \A w \in {"zone", "setting"} : ValuesIn(B, w) = ValuesIn(A, w)
    BY <2>7 DEF AddsRows
  <2> HIDE DEF B
  <2> QED BY <1>4, <2>2
<1> HIDE DEF B, Held2
<1>6. /\ IsSound(a, C) /\ WarnsIn(C) = {} /\ \A t : RowsIn(C, t) = Held3(t)
      /\ \A w \in {"zone", "setting"} : ValuesIn(C, w) = {}
  <2>1. IsSound(a, B)
    BY <1>5
  <2>3. /\ Paired(a, UR, UC) /\ "user_assist" \in ReadTables
        /\ "user_assist" \in DOMAIN Carrying \/ \A r \in UR : r.partial = FALSE
    BY <1>2, <1>3
  <2>7. IsSound(a, C) /\ AddsRows(C, B, "user_assist", UR)
    BY ONLY <2>1, <2>3, AndPair
  <2>2. /\ IsSound(a, C) /\ WarnsIn(C) = WarnsIn(B)
        /\ \A t : RowsIn(C, t) = RowsIn(B, t) \cup (IF t = "user_assist" THEN UR ELSE {})
        /\ \A w \in {"zone", "setting"} : ValuesIn(C, w) = ValuesIn(B, w)
    BY <2>7 DEF AddsRows
  <2> HIDE DEF C
  <2> QED BY <1>5, <2>2
<1> HIDE DEF C, Held3
<1>7. /\ IsSound(a, N) /\ WarnsIn(N) = {}
      /\ \A t : RowsIn(N, t) = (IF Kind[a] = "NTUSER" THEN Held3(t) ELSE {})
      /\ \A w \in {"zone", "setting"} : ValuesIn(N, w) = {}
  <2>1. CASE Kind[a] = "NTUSER"
    BY <1>6, <2>1 DEF When
  <2>2. CASE Kind[a] # "NTUSER"
    <3>1. N = <<>>
      BY <2>2 DEF When
    <3> HIDE DEF N
    <3> QED BY <2>2, <3>1, NothingRead
  <2> QED BY <2>1, <2>2
<1> HIDE DEF N
<1>8. /\ IsSound(a, s) /\ WarnsIn(s) = {}
      /\ \A t : RowsIn(s, t) = (IF Kind[a] = "NTUSER" THEN Held3(t) ELSE {})
                                 \cup (IF t = "shell_bag" THEN BR ELSE {})
      /\ \A w \in {"zone", "setting"} : ValuesIn(s, w) = {}
  <2>1. IsSound(a, N)
    BY <1>7
  <2>3. /\ Paired(a, BR, BC) /\ "shell_bag" \in ReadTables
        /\ "shell_bag" \in DOMAIN Carrying \/ \A r \in BR : r.partial = FALSE
    BY <1>2, <1>3
  <2>7. IsSound(a, s) /\ AddsRows(s, N, "shell_bag", BR)
    BY ONLY <2>1, <2>3, AndPair
  <2>2. /\ IsSound(a, s) /\ WarnsIn(s) = WarnsIn(N)
        /\ \A t : RowsIn(s, t) = RowsIn(N, t) \cup (IF t = "shell_bag" THEN BR ELSE {})
        /\ \A w \in {"zone", "setting"} : ValuesIn(s, w) = ValuesIn(N, w)
    BY <2>7 DEF AddsRows
  <2> HIDE DEF s
  <2> QED BY <1>7, <2>2
<1> HIDE DEF s
<1>9. ASSUME NEW t PROVE RowsIn(s, t) = UserRows(a, t)
  <2>1. RowsIn(s, t) = (IF Kind[a] = "NTUSER"
                        THEN (IF t = "mount_point" THEN PR ELSE {}) \cup (IF t = "mru_entry" THEN MR ELSE {})
                               \cup (IF t = "user_assist" THEN UR ELSE {})
                        ELSE {}) \cup (IF t = "shell_bag" THEN BR ELSE {})
    BY <1>8 DEF Held1, Held2, Held3
  <2>2. UserRows(a, t) = (IF t = "mount_point" /\ Kind[a] = "NTUSER" THEN PR
                          ELSE IF t = "mru_entry" /\ Kind[a] = "NTUSER" THEN MR
                          ELSE IF t = "user_assist" /\ Kind[a] = "NTUSER" THEN UR
                          ELSE IF t = "shell_bag" THEN BR ELSE {})
    BY DEF UserRows, PR, MR, UR, BR
  <2>3. CASE t = "mount_point"
    BY <2>1, <2>2, <2>3
  <2>4. CASE t = "mru_entry"
    BY <2>1, <2>2, <2>4
  <2>5. CASE t = "user_assist"
    BY <2>1, <2>2, <2>5
  <2>6. CASE t = "shell_bag"
    BY <2>1, <2>2, <2>6
  <2>7. CASE t \notin {"mount_point", "mru_entry", "user_assist", "shell_bag"}
    BY <2>1, <2>2, <2>7
  <2> QED BY <2>3, <2>4, <2>5, <2>6, <2>7
<1> QED BY <1>1, <1>8, <1>9

-----------------------------------------------------------------------------
Files == {"LNK", "JUMPLIST", "PREFETCH"}
FileCites(a) ==
  CASE Kind[a] = "LNK" -> recordLink(a, Holds[a].link)
    [] Kind[a] = "JUMPLIST" -> UNION {recordJumpEntry(a, e) : e \in Holds[a].entries}
    [] Kind[a] = "PREFETCH" -> recordPrefetchRun(a, Holds[a].launch)

\* What a run does of an artefact when it comes to it.
Attends(a, P) ==
  /\ IsProgram(P) /\ Does(P) \subseteq Reading0
  /\ SourcesIn(P) \cap Artefacts = (IF Hashed(a) THEN {a} ELSE {})
  /\ Hashed(a) => StartsAt(P, a)
  /\ \A c : CountsIn(P, c) = {}
Says(a, P) ==
  SaidOf(a, WarnsIn(P)) /\ \A w \in WarnsIn(P) : w.artefact # "TimeZoneInformation"
Cites(a, P) ==
  /\ Kind[a] \in Files /\ Loaded(a) => FileCites(a) \subseteq CitesIn(P)
  /\ \A o \in CitesIn(P) :
       \/ o.kind = "host.prefetch_setting" \/ \E t \in ReadTables : HeldBy(o, RowsIn(P, t))
       \/ Kind[a] \in Files /\ Loaded(a) /\ o \in FileCites(a)
Yields(a, P) ==
  /\ RowsAreCited(a, P) /\ (~Loaded(a) => \A t : RowsIn(P, t) = {})
  /\ RowsIn(P, "host_time_zone") = (IF Kind[a] = "SYSTEM" /\ Loaded(a) THEN ZoneRows(a) ELSE {})
  /\ RowsIn(P, "devnode") = (IF Kind[a] = "SYSTEM" /\ Loaded(a) THEN DevnodeRows(a) ELSE {})
  /\ RowsIn(P, "shell_bag") =
       (IF Kind[a] \in {"NTUSER", "USRCLASS"} /\ Loaded(a) THEN BagRows(a) ELSE {})
  /\ RowsIn(P, "mru_entry") = (IF Kind[a] = "NTUSER" /\ Loaded(a) THEN MRURows(a) ELSE {})
  /\ RowsIn(P, "user_assist") = (IF Kind[a] = "NTUSER" /\ Loaded(a) THEN AssistRows(a) ELSE {})
  /\ \A r \in RowsIn(P, "setup_section") : Kind[a] = "SETUPAPI" /\ r.zone = zone
Keeps(a, P) ==
  /\ ValuesIn(P, "zone") =
       (IF Kind[a] = "SYSTEM" /\ Loaded(a) /\ Zoned(a) THEN {Holds[a].zone} ELSE {})
  /\ ValuesIn(P, "setting") = (IF Kind[a] = "SYSTEM" /\ Loaded(a) THEN {SettingOf(a)} ELSE {})
Serves(a, P) == Attends(a, P) /\ Says(a, P) /\ Cites(a, P) /\ Yields(a, P) /\ Keeps(a, P)

\* A hive does what its reading does, once it is loaded.
LEMMA HiveServes ==
  ASSUME FatesKnown, NEW a \in Artefacts, Kind[a] \in Hives, NEW read, IsSound(a, read),
         \A w \in WarnsIn(read) : w.artefact = "EMDMgmt"
  PROVE  LET P == Hive(a, read) IN
         /\ Attends(a, P) /\ Cites(a, P) /\ RowsAreCited(a, P)
         /\ \A t : RowsIn(P, t) = (IF Loaded(a) THEN RowsIn(read, t) ELSE {})
         /\ \A w \in {"zone", "setting"} : ValuesIn(P, w) = (IF Loaded(a) THEN ValuesIn(read, w) ELSE {})
         /\ \A w \in WarnsIn(P) : w.artefact # "TimeZoneInformation"
         /\ Loaded(a) => WarnsIn(read) \subseteq WarnsIn(P)
         /\ fate[a] \notin {"without", "empty"} => SaidOf(a, WarnsIn(P))
<1> DEFINE P == Hive(a, read)
<1>1. /\ IsProgram(read) /\ SourcesIn(read) = {} /\ (\A c : CountsIn(read, c) = {}) /\ Does(read) \subseteq Reading0
      /\ RowsAreCited(a, read) /\ CitesAreLoaded(read)
  BY DEF IsSound, IsReading
<1>2. /\ IsProgram(P) /\ Does(P) \subseteq Reading0
      /\ SourcesIn(P) \cap Artefacts = (IF Hashed(a) THEN {a} ELSE {})
      /\ CitesIn(P) = (IF Loaded(a) THEN CitesIn(read) ELSE {})
      /\ \A t : RowsIn(P, t) = (IF Loaded(a) THEN RowsIn(read, t) ELSE {})
      /\ \A w \in {"zone", "setting"} : ValuesIn(P, w) = (IF Loaded(a) THEN ValuesIn(read, w) ELSE {})
      /\ \A c : CountsIn(P, c) = {}
      /\ Hashed(a) => StartsAt(P, a)
      /\ \A w \in WarnsIn(P) :
           w.artefact \in {"TRANSACTION_LOG", Kind[a]} \/ (Loaded(a) /\ w \in WarnsIn(read))
      /\ Loaded(a) => WarnsIn(read) \subseteq WarnsIn(P)
      /\ fate[a] \notin {"without", "empty"} => SaidOf(a, WarnsIn(P))
  BY <1>1, HiveFacts
<1> HIDE DEF P
<1>3. Attends(a, P)
  BY <1>2 DEF Attends
<1>4. Kind[a] \notin Files /\ Kind[a] # "TimeZoneInformation"
  BY DEF Files, Hives
<1>5. Cites(a, P)
  <2> SUFFICES ASSUME NEW o \in CitesIn(P)
               PROVE  o.kind = "host.prefetch_setting" \/ \E t \in ReadTables : HeldBy(o, RowsIn(P, t))
    BY <1>4 DEF Cites
  <2>1. Loaded(a) /\ o \in CitesIn(read)
    BY <1>2
  <2>2. \A t : RowsIn(P, t) = RowsIn(read, t)
    BY <1>2, <2>1
  <2> QED BY <1>1, <2>1, <2>2 DEF CitesAreLoaded
<1>6. RowsAreCited(a, P)
  <2> SUFFICES ASSUME NEW t, NEW r \in RowsIn(P, t)
               PROVE  /\ t \in ReadTables /\ r.source = a /\ CitedBy(r, CitesIn(P))
                      /\ t \notin DOMAIN Carrying => r.partial = FALSE
    BY DEF RowsAreCited
  <2>1. Loaded(a) /\ r \in RowsIn(read, t) /\ CitesIn(P) = CitesIn(read)
    BY <1>2
  <2> QED BY <1>1, <2>1 DEF RowsAreCited
<1>7. \A w \in WarnsIn(P) : w.artefact # "TimeZoneInformation"
  BY <1>2, <1>4
<1> QED BY <1>2, <1>3, <1>5, <1>6, <1>7 DEF P

\* A SYSTEM hive's whole program does what an artefact's must.
LEMMA SystemServes ==
  ASSUME FatesKnown, NEW a \in Artefacts, Kind[a] = "SYSTEM"
  PROVE  Serves(a, SystemHive(a))
<1> DEFINE s == ReadSystem(a)
           P == SystemHive(a)
<1>1. P = Hive(a, s)
  BY DEF SystemHive, ReadSystem
<1>2. /\ IsReading(s) /\ RowsAreCited(a, s) /\ CitesAreLoaded(s) /\ WarnsIn(s) = {}
      /\ RowsIn(s, "host_time_zone") = ZoneRows(a) /\ RowsIn(s, "devnode") = DevnodeRows(a)
      /\ \A t \in {"shell_bag", "mru_entry", "user_assist", "setup_section"} : RowsIn(s, t) = {}
      /\ ValuesIn(s, "zone") = (IF Zoned(a) THEN {Holds[a].zone} ELSE {})
      /\ ValuesIn(s, "setting") = {SettingOf(a)}
  BY SystemReading
<1> HIDE DEF s, P
<1>3. IsSound(a, s) /\ (\A w \in WarnsIn(s) : w.artefact = "EMDMgmt") /\ Kind[a] \in Hives
  BY <1>2 DEF IsSound, Hives
<1>4. /\ Attends(a, P) /\ Cites(a, P) /\ RowsAreCited(a, P)
      /\ \A t : RowsIn(P, t) = (IF Loaded(a) THEN RowsIn(s, t) ELSE {})
      /\ \A w \in {"zone", "setting"} : ValuesIn(P, w) = (IF Loaded(a) THEN ValuesIn(s, w) ELSE {})
      /\ \A w \in WarnsIn(P) : w.artefact # "TimeZoneInformation"
      /\ fate[a] \notin {"without", "empty"} => SaidOf(a, WarnsIn(P))
  BY <1>1, <1>3, HiveServes
<1>5. Says(a, P)
  BY <1>4, FateFacts DEF Says
<1>6. Yields(a, P)
  BY <1>2, <1>4 DEF Yields
<1>7. Keeps(a, P)
  BY <1>2, <1>4 DEF Keeps
<1> QED BY <1>4, <1>5, <1>6, <1>7 DEF Serves, P

\* So does a SOFTWARE hive's.
LEMMA SoftwareServes ==
  ASSUME FatesKnown, NEW a \in Artefacts, Kind[a] = "SOFTWARE"
  PROVE  Serves(a, SoftwareHive(a))
<1> DEFINE s == ReadSoftware(a)
           P == SoftwareHive(a)
           w0 == [artefact |-> "EMDMgmt", path |-> a, severity |-> "absent"]
<1>1. P = Hive(a, s)
  BY DEF SoftwareHive, ReadSoftware
<1>2. /\ IsReading(s) /\ RowsAreCited(a, s) /\ CitesAreLoaded(s)
      /\ WarnsIn(s) \subseteq {w0}
      /\ fate[a] \in {"without", "empty"} => WarnsIn(s) = {w0}
      /\ \A t \in ReadTables \ {"portable_device", "emd_volume"} : RowsIn(s, t) = {}
      /\ \A w \in {"zone", "setting"} : ValuesIn(s, w) = {}
  BY SoftwareReading
<1>3. w0.artefact = "EMDMgmt" /\ w0.path = a
  OBVIOUS
<1> HIDE DEF s, P, w0
<1>4. IsSound(a, s) /\ (\A w \in WarnsIn(s) : w.artefact = "EMDMgmt") /\ Kind[a] \in Hives
  BY <1>2, <1>3 DEF IsSound, Hives
<1>5. /\ Attends(a, P) /\ Cites(a, P) /\ RowsAreCited(a, P)
      /\ \A t : RowsIn(P, t) = (IF Loaded(a) THEN RowsIn(s, t) ELSE {})
      /\ \A w \in {"zone", "setting"} : ValuesIn(P, w) = (IF Loaded(a) THEN ValuesIn(s, w) ELSE {})
      /\ \A w \in WarnsIn(P) : w.artefact # "TimeZoneInformation"
      /\ Loaded(a) => WarnsIn(s) \subseteq WarnsIn(P)
      /\ fate[a] \notin {"without", "empty"} => SaidOf(a, WarnsIn(P))
  BY <1>1, <1>4, HiveServes
<1>6. Says(a, P)
  <2>1. CASE fate[a] \in {"without", "empty"}
    BY <2>1, <1>2, <1>5, <1>3, SaidBy DEF Loaded, Hashed, Says
  <2>2. CASE fate[a] \notin {"without", "empty"}
    BY <1>5, <2>2 DEF Says
  <2> QED BY <2>1, <2>2
<1>7. Yields(a, P)
  <2>1. \A t \in {"host_time_zone", "devnode", "shell_bag", "mru_entry", "user_assist", "setup_section"} :
          RowsIn(s, t) = {}
    BY <1>2 DEF ReadTables
  <2>2. \A t \in {"host_time_zone", "devnode", "shell_bag", "mru_entry", "user_assist", "setup_section"} :
          RowsIn(P, t) = {}
    BY <1>5, <2>1
  <2> HIDE DEF P
  <2> QED BY <1>5, <2>2 DEF Yields
<1>8. Keeps(a, P)
  BY <1>2, <1>5 DEF Keeps
<1> QED BY <1>5, <1>6, <1>7, <1>8 DEF Serves, P

\* So does a user hive's.
LEMMA UserServes ==
  ASSUME FatesKnown, NEW a \in Artefacts, Kind[a] \in {"NTUSER", "USRCLASS"}
  PROVE  Serves(a, UserHive(a))
<1> DEFINE s == ReadUser(a)
           P == UserHive(a)
<1>1. P = Hive(a, s)
  BY DEF UserHive, ReadUser
<1>2. /\ IsSound(a, s) /\ WarnsIn(s) = {} /\ \A t : RowsIn(s, t) = UserRows(a, t)
      /\ \A w \in {"zone", "setting"} : ValuesIn(s, w) = {}
  BY UserReading
<1> HIDE DEF s, P
<1>3. (\A w \in WarnsIn(s) : w.artefact = "EMDMgmt") /\ Kind[a] \in Hives /\ IsSound(a, s)
  BY <1>2 DEF Hives
<1>4. /\ Attends(a, P) /\ Cites(a, P) /\ RowsAreCited(a, P)
      /\ \A t : RowsIn(P, t) = (IF Loaded(a) THEN RowsIn(s, t) ELSE {})
      /\ \A w \in {"zone", "setting"} : ValuesIn(P, w) = (IF Loaded(a) THEN ValuesIn(s, w) ELSE {})
      /\ \A w \in WarnsIn(P) : w.artefact # "TimeZoneInformation"
      /\ fate[a] \notin {"without", "empty"} => SaidOf(a, WarnsIn(P))
  BY <1>1, <1>3, HiveServes
<1>5. Says(a, P)
  BY <1>4, FateFacts DEF Says
<1>6. Yields(a, P)
  BY <1>2, <1>4 DEF UserRows, Yields
<1>7. Keeps(a, P)
  BY <1>2, <1>4 DEF Keeps
<1> QED BY <1>4, <1>5, <1>6, <1>7 DEF Serves, P

-----------------------------------------------------------------------------
\* Joining programs is associative.
LEMMA Regroup ==
  \A s, u, v : IsProgram(s) /\ IsProgram(u) /\ IsProgram(v) => (s \o u) \o v = s \o (u \o v)
<1> SUFFICES ASSUME NEW s, NEW u, NEW v, IsProgram(s), IsProgram(u), IsProgram(v)
             PROVE  (s \o u) \o v = s \o (u \o v)
  OBVIOUS
<1> DEFINE I == Items(s) \cup Items(u) \cup Items(v)
<1>1. s \in Seq(I) /\ u \in Seq(I) /\ v \in Seq(I)
  BY DEF IsProgram
<1> HIDE DEF I
<1> QED BY <1>1, ConcatAssociative

\* Two programs with the same effects but for the file the first begins with.
SameBut(P, s) ==
  /\ CitesIn(P) = CitesIn(s) /\ WarnsIn(P) = WarnsIn(s) /\ \A t : RowsIn(P, t) = RowsIn(s, t)
  /\ \A w \in {"zone", "setting"} : ValuesIn(P, w) = ValuesIn(s, w)

\* A file that is hashed, and then read.
LEMMA SourceThen ==
  ASSUME NEW a \in Artefacts, Hashed(a), NEW s, IsReading(s)
  PROVE  Attends(a, Source(a) \o s) /\ SameBut(Source(a) \o s, s)
<1> DEFINE S == Source(a)
           P == S \o s
<1>1. IsProgram(S) /\ IsProgram(s) /\ StartsAt(S, a)
  BY ProgramOf, StartsFirst DEF IsReading
<1>2. SourcesIn(S) = {a} /\ CitesIn(S) = {} /\ WarnsIn(S) = {}
  BY SourcesOf, CitesOf, WarnsOf
<1>3. (\A t : RowsIn(S, t) = {}) /\ (\A w \in {"zone", "setting"} : ValuesIn(S, w) = {})
  BY RowsOf, ValuesOf
<1>4. (\A c : CountsIn(S, c) = {}) /\ Does(S) \subseteq {"source"}
  BY CountsOf, DoesOf
<1> HIDE DEF S
<1>5. /\ IsProgram(P) /\ SourcesIn(P) = SourcesIn(S) \cup SourcesIn(s)
      /\ CitesIn(P) = CitesIn(S) \cup CitesIn(s) /\ WarnsIn(P) = WarnsIn(S) \cup WarnsIn(s)
      /\ \A t : RowsIn(P, t) = RowsIn(S, t) \cup RowsIn(s, t)
      /\ \A w : ValuesIn(P, w) = ValuesIn(S, w) \cup ValuesIn(s, w)
      /\ \A c : CountsIn(P, c) = CountsIn(S, c) \cup CountsIn(s, c)
      /\ Does(P) = Does(S) \cup Does(s)
  BY <1>1, JoinFacts
<1>6. StartsAt(P, a)
  BY <1>1, StartsFirst
<1> HIDE DEF P
<1>7. SourcesIn(s) = {} /\ Does(s) \subseteq Reading0 /\ \A c : CountsIn(s, c) = {}
  BY DEF IsReading
<1>8. SourcesIn(P) \cap Artefacts = {a} /\ Does(P) \subseteq Reading0
  BY <1>2, <1>4, <1>5, <1>7 DEF Reading0
<1>9. \A c : CountsIn(P, c) = {}
  BY <1>4, <1>5, <1>7
<1>10. Attends(a, P)
  BY <1>5, <1>6, <1>8, <1>9 DEF Attends
<1>11. CitesIn(P) = CitesIn(s) /\ WarnsIn(P) = WarnsIn(s)
  BY <1>2, <1>5
<1>12. \A t : RowsIn(P, t) = RowsIn(s, t)
  BY <1>3, <1>5
<1>13. \A w \in {"zone", "setting"} : ValuesIn(P, w) = ValuesIn(s, w)
  BY <1>3, <1>5
<1> QED BY <1>10, <1>11, <1>12, <1>13 DEF SameBut, P, S

\* A warning, or none.
LEMMA WarnFacts ==
  ASSUME NEW c \in BOOLEAN, NEW artefact, NEW path, NEW severity
  PROVE  LET N == When(c, Warn(artefact, path, severity)) IN
         /\ IsReading(N) /\ CitesIn(N) = {} /\ \A t : RowsIn(N, t) = {}
         /\ \A w \in {"zone", "setting"} : ValuesIn(N, w) = {}
         /\ WarnsIn(N) = (IF c THEN {[artefact |-> artefact, path |-> path, severity |-> severity]} ELSE {})
<1> DEFINE N == When(c, Warn(artefact, path, severity))
<1>1. CASE c = TRUE
  <2>1. N = Warn(artefact, path, severity)
    BY <1>1 DEF When
  <2> HIDE DEF N
  <2>2. WarnsIn(N) = {[artefact |-> artefact, path |-> path, severity |-> severity]}
    BY <2>1, WarnsOf
  <2>3. IsReading(N) /\ CitesIn(N) = {} /\ (\A t : RowsIn(N, t) = {}) /\
             \A w \in {"zone", "setting"} : ValuesIn(N, w) = {}
    BY <2>1, ReadingOf, CitesOf, RowsOf, ValuesOf
  <2> QED BY <1>1, <2>2, <2>3 DEF N
<1>2. CASE c = FALSE
  <2>1. N = <<>>
    BY <1>2 DEF When
  <2> HIDE DEF N
  <2>2. IsReading(N) /\ CitesIn(N) = {} /\ (\A t : RowsIn(N, t) = {}) /\ WarnsIn(N) = {}
        /\ \A w \in {"zone", "setting"} : ValuesIn(N, w) = {}
    BY <2>1, ReadingOf, NoneFacts
  <2> QED BY <1>2, <2>2 DEF N
<1> QED BY <1>1, <1>2

\* What is neither hashed nor read.
LEMMA LeftUnhashed ==
  ASSUME NEW a \in Artefacts, ~Hashed(a), NEW P, IsReading(P), CitesIn(P) = {}, \A t : RowsIn(P, t) = {},
         \A w \in {"zone", "setting"} : ValuesIn(P, w) = {}
  PROVE  Attends(a, P) /\ Cites(a, P) /\ Yields(a, P) /\ Keeps(a, P)
BY DEF Loaded, Attends, IsReading, Cites, Keeps, Yields, RowsAreCited

SectionRows(a) ==
  {[source |-> a, at |-> s.line, names |-> {s.instance} \ {None}, partial |-> FALSE, zone |-> zone] :
     s \in Holds[a].sections}

\* Set-up sections: rows cited, observations held, none partial.
LEMMA SectionsPaired ==
  ASSUME NEW a
  PROVE  /\ Paired(a, SectionRows(a), recordSetupSections(a, Holds[a].sections))
         /\ \A r \in SectionRows(a) : r.partial = FALSE /\ r.zone = zone
<1> DEFINE S == Holds[a].sections
           O == recordSetupSections(a, S)
           at(s) == s.line
           R(s) == [source |-> a, at |-> s.line, names |-> {s.instance} \ {None}, partial |-> FALSE, zone |-> zone]
           C(s) == Observation(a, "setupapi", s.line, s.instance)
<1>1. SectionRows(a) = {R(s) : s \in S} /\ O = {C(s) : s \in S}
  BY DEF SectionRows, recordSetupSections
<1>2. \A s : /\ R(s).source = a /\ R(s).at = s.line /\ R(s).names = {s.instance} \ {None}
             /\ R(s).partial = FALSE /\ R(s).zone = zone
             /\ C(s).source = a /\ C(s).at = s.line /\ C(s).value = s.instance
  BY DEF Observation
<1> HIDE DEF S, O, R, C
<1>3. ASSUME NEW r \in SectionRows(a)
      PROVE  r.source = a /\ CitedBy(r, O) /\ r.partial = FALSE /\ r.zone = zone
  <2>1. PICK s \in S : r = R(s)
    BY <1>1
  <2>2. C(s) \in O
    BY <1>1
  <2>3. CitedBy(r, O)
    BY <1>2, <2>1, <2>2 DEF CitedBy, AboutRow
  <2> QED BY <1>2, <2>1, <2>3
<1>4. ASSUME NEW o \in O PROVE HeldBy(o, SectionRows(a))
  <2>1. PICK s \in S : o = C(s)
    BY <1>1
  <2>2. R(s) \in SectionRows(a)
    BY <1>1
  <2> QED BY <1>2, <2>1, <2>2 DEF HeldBy, AboutRow
<1> QED BY <1>3, <1>4 DEF Paired, O, S

\* A set-up log's program does what an artefact's must.
LEMMA SetupServes ==
  ASSUME FatesKnown, NEW a \in Artefacts, Kind[a] = "SETUPAPI"
  PROVE  Serves(a, SetupLog(a))
<1> DEFINE P == SetupLog(a)
           C == recordSetupSections(a, Holds[a].sections)
           R == SectionRows(a)
           N == When(fate[a] # "whole", Warn("SETUPAPI", a, "malformed"))
           s == N \o Observe(C) \o insert("setup_section", R)
<1>1. fate[a] \in {"whole", "unhashed", "torn", "unterminated"}
  BY FateFacts
<1>2. CASE fate[a] = "unhashed"
  <2> DEFINE w0 == [artefact |-> "SETUPAPI", path |-> a, severity |-> "failed"]
  <2>1. P = Warn("SETUPAPI", a, "failed") /\ ~Hashed(a)
    BY <1>2 DEF SetupLog, Hashed
  <2>2. w0.artefact = "SETUPAPI" /\ w0.path = a
    OBVIOUS
  <2>3. WarnsIn(Warn("SETUPAPI", a, "failed")) = {w0}
    BY WarnsOf
  <2> HIDE DEF P, w0
  <2>4. IsReading(P) /\ CitesIn(P) = {} /\ (\A t : RowsIn(P, t) = {}) /\
             \A w \in {"zone", "setting"} : ValuesIn(P, w) = {}
    BY <2>1, ReadingOf, CitesOf, RowsOf, ValuesOf
  <2>5. WarnsIn(P) = {w0}
    BY <2>1, <2>3
  <2>6. Says(a, P)
    BY <2>2, <2>5, SaidBy DEF Says
  <2> QED BY <2>1, <2>4, <2>6, LeftUnhashed DEF Serves, P
<1>3. CASE fate[a] # "unhashed"
  <2>1. Hashed(a) /\ Loaded(a)
    BY <1>1, <1>3 DEF Hashed, Loaded
  <2>2. P = Source(a) \o N \o Observe(C) \o insert("setup_section", R)
    BY <1>3 DEF SetupLog, LoadSetupSections, SectionRows
  <2> DEFINE w0 == [artefact |-> "SETUPAPI", path |-> a, severity |-> "malformed"]
  <2>3. w0.artefact = "SETUPAPI" /\ w0.path = a
    OBVIOUS
  <2>4. /\ IsReading(N) /\ CitesIn(N) = {} /\ (\A t : RowsIn(N, t) = {})
        /\ \A w \in {"zone", "setting"} : ValuesIn(N, w) = {}
        /\ WarnsIn(N) = (IF fate[a] # "whole" THEN {w0} ELSE {})
    <3>1. (fate[a] # "whole") \in BOOLEAN
      OBVIOUS
    <3> QED BY <3>1, WarnFacts
  <2> HIDE DEF P, N, C, R, w0
  <2>5. IsSound(a, N)
    BY <2>4 DEF IsSound, RowsAreCited, CitesAreLoaded
  <2>6. /\ Paired(a, R, C) /\ "setup_section" \in ReadTables
        /\ "setup_section" \in DOMAIN Carrying \/ \A r \in R : r.partial = FALSE
        /\ \A r \in R : r.zone = zone
    BY SectionsPaired DEF R, C, ReadTables
  <2>7. IsSound(a, s) /\ AddsRows(s, N, "setup_section", R)
    BY <2>5, <2>6, AndPair
  <2>8. P = Source(a) \o s
    <3>1. IsProgram(Source(a)) /\ IsProgram(N) /\ IsProgram(Observe(C)) /\ IsProgram(insert("setup_section", R))
      BY <2>4, ProgramOf DEF IsReading
    <3> DEFINE U == N \o Observe(C)
               I == insert("setup_section", R)
               S == Source(a)
               O == Observe(C)
    <3> HIDE DEF U, I, S, O
    <3>2. IsProgram(U)
      BY <3>1, ProgramOf DEF U
    <3>3. IsProgram(S) /\ IsProgram(N) /\ IsProgram(O) /\ IsProgram(I)
      BY <3>1 DEF S, O, I
    <3>4. (S \o N) \o O = S \o U
      BY <3>3, Regroup DEF U, O
    <3>5. (S \o U) \o I = S \o (U \o I)
      BY <3>2, <3>3, Regroup
    <3> QED BY <2>2, <3>4, <3>5 DEF U, I, S, O
  <2> HIDE DEF s
  <2>9. IsReading(s)
    BY <2>7 DEF IsSound
  <2>10. Attends(a, P) /\ SameBut(P, s)
    BY <2>1, <2>8, <2>9, SourceThen
  <2>11. /\ CitesIn(P) = CitesIn(s) /\ WarnsIn(P) = WarnsIn(N)
         /\ \A t : RowsIn(P, t) = (IF t = "setup_section" THEN R ELSE {})
         /\ \A t : RowsIn(P, t) = RowsIn(s, t)
         /\ \A w \in {"zone", "setting"} : ValuesIn(P, w) = {}
    BY <2>4, <2>7, <2>10 DEF AddsRows, SameBut
  <2>12. Says(a, P)
    <3>1. CASE fate[a] = "whole"
      BY <2>4, <2>11, <3>1 DEF Says, SaidOf
    <3>2. CASE fate[a] # "whole"
      BY <2>4, <2>11, <3>2, <2>3, SaidBy DEF Says
    <3> QED BY <3>1, <3>2
  <2>13. RowsAreCited(a, P) /\ CitesAreLoaded(P)
    BY <2>7, <2>11 DEF IsSound, RowsAreCited, CitesAreLoaded
  <2>14. Cites(a, P) /\ Keeps(a, P)
    BY <2>11, <2>13 DEF Cites, Keeps, Files, CitesAreLoaded
  <2>15. Yields(a, P)
    BY <2>1, <2>6, <2>11, <2>13 DEF Yields
  <2> QED BY <2>10, <2>12, <2>14, <2>15 DEF Serves, P
<1> QED BY <1>2, <1>3

\* So does an event log's.
LEMMA EventLogServes ==
  ASSUME FatesKnown, NEW a \in Artefacts, Kind[a] = "EVTX"
  PROVE  Serves(a, EventLog(a))
<1> DEFINE P == EventLog(a)
           N == When(fate[a] = "unloadable", Warn("EVTX", a, "failed"))
           M == When(fate[a] = "torn", Warn("EVTX", a, "malformed"))
           s == N \o M
           wf == [artefact |-> "EVTX", path |-> a, severity |-> "failed"]
           wm == [artefact |-> "EVTX", path |-> a, severity |-> "malformed"]
<1>1. fate[a] \in {"whole", "skipped", "unhashed", "unloadable", "torn"}
  BY FateFacts
<1>2. wf.artefact = "EVTX" /\ wf.path = a /\ wm.artefact = "EVTX" /\ wm.path = a
  OBVIOUS
<1>3. CASE fate[a] = "skipped"
  <2>1. P = <<>> /\ ~Hashed(a)
    BY <1>3 DEF EventLog, Hashed
  <2> HIDE DEF P
  <2>2. IsReading(P) /\ CitesIn(P) = {} /\ (\A t : RowsIn(P, t) = {}) /\ WarnsIn(P) = {}
        /\ \A w \in {"zone", "setting"} : ValuesIn(P, w) = {}
    BY <2>1, ReadingOf, NoneFacts
  <2>3. Says(a, P)
    BY <1>3, <2>2 DEF Says, SaidOf
  <2> QED BY <2>1, <2>2, <2>3, LeftUnhashed DEF Serves, P
<1>4. CASE fate[a] = "unhashed"
  <2>1. P = Warn("EVTX", a, "failed") /\ ~Hashed(a)
    BY <1>4 DEF EventLog, Hashed
  <2>2. WarnsIn(Warn("EVTX", a, "failed")) = {wf}
    BY WarnsOf
  <2> HIDE DEF P, wf, wm
  <2>3. IsReading(P) /\ CitesIn(P) = {} /\ (\A t : RowsIn(P, t) = {}) /\
             \A w \in {"zone", "setting"} : ValuesIn(P, w) = {}
    BY <2>1, ReadingOf, CitesOf, RowsOf, ValuesOf
  <2>4. WarnsIn(P) = {wf}
    BY <2>1, <2>2
  <2>5. Says(a, P)
    BY <1>2, <2>4, SaidBy DEF Says
  <2> QED BY <2>1, <2>3, <2>5, LeftUnhashed DEF Serves, P
<1>5. CASE fate[a] \notin {"skipped", "unhashed"}
  <2>1. Hashed(a)
    BY <1>5 DEF Hashed
  <2>2. P = Source(a) \o N \o M
    BY <1>5 DEF EventLog
  <2>3. /\ IsReading(N) /\ CitesIn(N) = {} /\ (\A t : RowsIn(N, t) = {})
        /\ \A w \in {"zone", "setting"} : ValuesIn(N, w) = {}
        /\ WarnsIn(N) = (IF fate[a] = "unloadable" THEN {wf} ELSE {})
    <3> DEFINE c == fate[a] = "unloadable"
    <3>1. c \in BOOLEAN /\ N = When(c, Warn("EVTX", a, "failed"))
      OBVIOUS
    <3> HIDE DEF c, N
    <3>2. /\ IsReading(N) /\ CitesIn(N) = {} /\ (\A t : RowsIn(N, t) = {})
          /\ \A w \in {"zone", "setting"} : ValuesIn(N, w) = {}
          /\ WarnsIn(N) = (IF c THEN {wf} ELSE {})
      BY <3>1, WarnFacts
    <3> QED BY <3>2 DEF c
  <2>4. /\ IsReading(M) /\ CitesIn(M) = {} /\ (\A t : RowsIn(M, t) = {})
        /\ \A w \in {"zone", "setting"} : ValuesIn(M, w) = {}
        /\ WarnsIn(M) = (IF fate[a] = "torn" THEN {wm} ELSE {})
    <3> DEFINE c == fate[a] = "torn"
    <3>1. c \in BOOLEAN /\ M = When(c, Warn("EVTX", a, "malformed"))
      OBVIOUS
    <3> HIDE DEF c, M
    <3>2. /\ IsReading(M) /\ CitesIn(M) = {} /\ (\A t : RowsIn(M, t) = {})
          /\ \A w \in {"zone", "setting"} : ValuesIn(M, w) = {}
          /\ WarnsIn(M) = (IF c THEN {wm} ELSE {})
      BY <3>1, WarnFacts
    <3> QED BY <3>2 DEF c
  <2> HIDE DEF P, N, M, wf, wm
  <2>5. /\ IsReading(s) /\ CitesIn(s) = CitesIn(N) \cup CitesIn(M) /\ WarnsIn(s) = WarnsIn(N) \cup WarnsIn(M)
        /\ \A t : RowsIn(s, t) = RowsIn(N, t) \cup RowsIn(M, t)
        /\ \A w : ValuesIn(s, w) = ValuesIn(N, w) \cup ValuesIn(M, w)
    <3>1. IsReading(N) /\ IsReading(M)
      BY <2>3, <2>4
    <3> QED BY ONLY <3>1, ThenRead
  <2>6. P = Source(a) \o s
    <3>1. IsProgram(Source(a)) /\ IsProgram(N) /\ IsProgram(M)
      BY <2>3, <2>4, ProgramOf DEF IsReading
    <3> QED BY <2>2, <3>1, Regroup
  <2> HIDE DEF s
  <2>7. Attends(a, P) /\ SameBut(P, s)
    BY <2>1, <2>5, <2>6, SourceThen
  <2>8. /\ CitesIn(P) = {} /\ WarnsIn(P) = WarnsIn(N) \cup WarnsIn(M) /\ \A t : RowsIn(P, t) = {}
        /\ \A w \in {"zone", "setting"} : ValuesIn(P, w) = {}
    BY <2>3, <2>4, <2>5, <2>7 DEF SameBut
  <2>9. Says(a, P)
    <3>1. CASE fate[a] = "whole"
      BY <2>3, <2>4, <2>8, <3>1 DEF Says, SaidOf
    <3>2. CASE fate[a] = "unloadable"
      BY <2>3, <2>4, <2>8, <3>2, <1>2, SaidBy DEF Says
    <3>3. CASE fate[a] = "torn"
      BY <2>3, <2>4, <2>8, <3>3, <1>2, SaidBy DEF Says
    <3> QED BY <1>1, <1>5, <3>1, <3>2, <3>3
  <2>10. Cites(a, P) /\ Keeps(a, P)
    BY <2>8 DEF Cites, Keeps, Files
  <2>11. Yields(a, P)
    BY <2>8 DEF Yields, RowsAreCited
  <2> QED BY <2>7, <2>9, <2>10, <2>11 DEF Serves, P
<1> QED BY <1>3, <1>4, <1>5

-----------------------------------------------------------------------------
\* So does any file's whose reader cites what it holds.
LEMMA FileServes ==
  ASSUME FatesKnown, NEW a \in Artefacts, Kind[a] \in Files, NEW read, IsReading(read),
         CitesIn(read) = FileCites(a), \A t : RowsIn(read, t) = {},
         \A w \in {"zone", "setting"} : ValuesIn(read, w) = {},
         WarnsIn(read) = (IF fate[a] = "torn"
                          THEN {[artefact |-> Kind[a], path |-> a, severity |-> "malformed"]} ELSE {})
  PROVE  Serves(a, File(a, read))
<1> DEFINE P == File(a, read)
           w0 == [artefact |-> Kind[a], path |-> a, severity |-> "malformed"]
<1>1. /\ fate[a] \in {"whole", "unhashed", "unloadable", "torn"} /\ w0.artefact = Kind[a] /\ w0.path = a
      /\ Kind[a] # "TimeZoneInformation"
  BY FateFacts DEF Files
<1>2. CASE fate[a] = "unhashed"
  <2>1. P = <<>> /\ ~Hashed(a)
    BY <1>2 DEF File, Hashed
  <2> HIDE DEF P
  <2>2. IsReading(P) /\ CitesIn(P) = {} /\ (\A t : RowsIn(P, t) = {}) /\ WarnsIn(P) = {}
        /\ \A w \in {"zone", "setting"} : ValuesIn(P, w) = {}
    BY <2>1, ReadingOf, NoneFacts
  <2>3. Says(a, P)
    BY <1>2, <2>2 DEF Says, SaidOf, Files
  <2> QED BY <2>1, <2>2, <2>3, LeftUnhashed DEF Serves, P
<1>3. CASE fate[a] # "unhashed"
  <2> DEFINE s == IF fate[a] = "unloadable" THEN Warn(Kind[a], a, "malformed") ELSE read
  <2>1. Hashed(a) /\ (Loaded(a) <=> fate[a] # "unloadable") /\ P = Source(a) \o s
    BY <1>1, <1>3 DEF Hashed, Loaded, File
  <2>2. WarnsIn(Warn(Kind[a], a, "malformed")) = {w0}
    BY WarnsOf
  <2> HIDE DEF P, w0
  <2>3. /\ IsReading(s) /\ CitesIn(s) = (IF Loaded(a) THEN FileCites(a) ELSE {})
        /\ WarnsIn(s) = (IF fate[a] \in {"torn", "unloadable"} THEN {w0} ELSE {})
        /\ (\A t : RowsIn(s, t) = {}) /\ \A w \in {"zone", "setting"} : ValuesIn(s, w) = {}
    <3>1. CASE fate[a] = "unloadable"
      <4>1. s = Warn(Kind[a], a, "malformed")
        BY <3>1
      <4> HIDE DEF s
      <4>2. IsReading(s) /\ CitesIn(s) = {} /\ (\A t : RowsIn(s, t) = {})
            /\ \A w \in {"zone", "setting"} : ValuesIn(s, w) = {}
        BY <4>1, ReadingOf, CitesOf, RowsOf, ValuesOf
      <4> QED BY <2>1, <2>2, <3>1, <4>1, <4>2
    <3>2. CASE fate[a] # "unloadable"
      <4>1. s = read
        BY <3>2
      <4> HIDE DEF s
      <4> QED BY <2>1, <3>2, <4>1 DEF w0
    <3> QED BY <3>1, <3>2
  <2> HIDE DEF s
  <2>4. Attends(a, P) /\ SameBut(P, s)
    BY <2>1, <2>3, SourceThen
  <2>5. /\ CitesIn(P) = (IF Loaded(a) THEN FileCites(a) ELSE {})
        /\ WarnsIn(P) = (IF fate[a] \in {"torn", "unloadable"} THEN {w0} ELSE {})
        /\ (\A t : RowsIn(P, t) = {}) /\ \A w \in {"zone", "setting"} : ValuesIn(P, w) = {}
    BY <2>3, <2>4 DEF SameBut
  <2>6. Says(a, P)
    <3>1. CASE fate[a] = "whole"
      BY <2>5, <3>1 DEF Says, SaidOf
    <3>2. CASE fate[a] # "whole"
      BY <1>1, <1>3, <2>5, <3>2, SaidBy DEF Says
    <3> QED BY <3>1, <3>2
  <2>7. Cites(a, P)
    BY <2>5 DEF Cites
  <2>8. Keeps(a, P) /\ Yields(a, P)
    BY <2>5 DEF Files, Keeps, Yields, RowsAreCited
  <2> QED BY <2>4, <2>6, <2>7, <2>8 DEF Serves, P
<1> QED BY <1>2, <1>3

\* Hence a shortcut's, a jump list's and a prefetch file's.
LEMMA FilesServe ==
  ASSUME FatesKnown, NEW a \in Artefacts
  PROVE  /\ Kind[a] = "LNK" => Serves(a, Shortcut(a))
         /\ Kind[a] = "JUMPLIST" => Serves(a, JumpListFile(a))
         /\ Kind[a] = "PREFETCH" => Serves(a, Prefetch(a))
<1>1. ASSUME Kind[a] = "LNK" PROVE Serves(a, Shortcut(a))
  <2> DEFINE C == recordLink(a, Holds[a].link)
             s == Observe(C)
  <2>1. FileCites(a) = C /\ Kind[a] \in Files /\ fate[a] # "torn" /\ Shortcut(a) = File(a, s)
    BY <1>1, FateFacts DEF FileCites, Files, Shortcut
  <2> HIDE DEF C
  <2>2. IsReading(s) /\ CitesIn(s) = C /\ (\A t : RowsIn(s, t) = {}) /\ WarnsIn(s) = {}
        /\ \A w \in {"zone", "setting"} : ValuesIn(s, w) = {}
    BY ReadingOf, CitesOf, RowsOf, WarnsOf, ValuesOf
  <2> HIDE DEF s
  <2>3. Serves(a, File(a, s))
    BY <2>1, <2>2, FileServes
  <2> QED BY <2>1, <2>3
<1>2. ASSUME Kind[a] \in {"JUMPLIST", "PREFETCH"}, NEW C, C = FileCites(a)
      PROVE  Serves(a, File(a, Torn(a) \o Observe(C)))
  <2> DEFINE N == Torn(a)
             c == fate[a] = "torn"
             s == N \o Observe(C)
             w0 == [artefact |-> Kind[a], path |-> a, severity |-> "malformed"]
  <2>1. c \in BOOLEAN /\ N = When(c, Warn(Kind[a], a, "malformed")) /\ Kind[a] \in Files
    BY <1>2 DEF Torn, Files
  <2> HIDE DEF c, N
  <2>2. /\ IsReading(N) /\ CitesIn(N) = {} /\ (\A t : RowsIn(N, t) = {})
        /\ \A w \in {"zone", "setting"} : ValuesIn(N, w) = {}
        /\ WarnsIn(N) = (IF c THEN {w0} ELSE {})
    BY <2>1, WarnFacts
  <2> HIDE DEF w0
  <2>3. IsReading(N)
    BY <2>2
  <2>4. /\ IsReading(s) /\ CitesIn(s) = CitesIn(N) \cup C /\ WarnsIn(s) = WarnsIn(N)
        /\ \A t : RowsIn(s, t) = RowsIn(N, t)
        /\ \A w \in {"zone", "setting"} : ValuesIn(s, w) = ValuesIn(N, w)
    BY ONLY <2>3, ThenObserve
  <2> HIDE DEF s
  <2>5. /\ IsReading(s) /\ CitesIn(s) = FileCites(a) /\ (\A t : RowsIn(s, t) = {})
        /\ \A w \in {"zone", "setting"} : ValuesIn(s, w) = {}
    BY <1>2, <2>2, <2>4
  <2>6. WarnsIn(s) = (IF fate[a] = "torn"
                      THEN {[artefact |-> Kind[a], path |-> a, severity |-> "malformed"]} ELSE {})
    BY <2>2, <2>4 DEF c, w0
  <2>7. Serves(a, File(a, s))
    BY <2>1, <2>5, <2>6, FileServes
  <2> QED BY <2>7 DEF s, N
<1>3. ASSUME Kind[a] = "JUMPLIST" PROVE Serves(a, JumpListFile(a))
  BY <1>3, <1>2 DEF FileCites, JumpListFile
<1>4. ASSUME Kind[a] = "PREFETCH" PROVE Serves(a, Prefetch(a))
  BY <1>4, <1>2 DEF FileCites, Prefetch
<1> QED BY <1>1, <1>3, <1>4

\* Whatever it is, an artefact is attended to as its kind is.
LEMMA ArtefactServes ==
  ASSUME FatesKnown, NEW a \in Artefacts
  PROVE  Serves(a, Artefact(a))
<1>1. Kind[a] \in {"SYSTEM", "SOFTWARE", "NTUSER", "USRCLASS", "EVTX", "SETUPAPI", "LNK", "JUMPLIST", "PREFETCH"}
  BY FateFacts
<1>2. CASE Kind[a] = "SYSTEM"
  BY <1>2, SystemServes DEF Artefact
<1>3. CASE Kind[a] = "SOFTWARE"
  BY <1>3, SoftwareServes DEF Artefact
<1>4. CASE Kind[a] \in {"NTUSER", "USRCLASS"}
  BY <1>4, UserServes DEF Artefact
<1>5. CASE Kind[a] = "EVTX"
  BY <1>5, EventLogServes DEF Artefact
<1>6. CASE Kind[a] = "SETUPAPI"
  BY <1>6, SetupServes DEF Artefact
<1>7. CASE Kind[a] = "LNK"
  BY <1>7, FilesServe DEF Artefact
<1>8. CASE Kind[a] = "JUMPLIST"
  BY <1>8, FilesServe DEF Artefact
<1>9. CASE Kind[a] = "PREFETCH"
  BY <1>9, FilesServe DEF Artefact
<1> QED BY <1>1, <1>2, <1>3, <1>4, <1>5, <1>6, <1>7, <1>8, <1>9

-----------------------------------------------------------------------------
\* What the run has, and what the steps it has laid out will add.
AllSources == sources \cup SourcesIn(agenda)
AllCites == observations \cup CitesIn(agenda)
AllWarns == warnings \cup WarnsIn(agenda)
AllRows(t) == db[t] \cup RowsIn(agenda, t)

\* What a program lays out is its first step's and the rest's.
LEMMA UnfoldFacts ==
  ASSUME NEW s, IsProgram(s), s # <<>>
  PROVE  LET h == Head(s)
             u == Tail(s)
         IN  /\ IsProgram(u)
             /\ SourcesIn(s) = (IF h.do = "source" THEN {h.of} ELSE {}) \cup SourcesIn(u)
             /\ CitesIn(s) = (IF h.do = "observe" THEN h.what ELSE {}) \cup CitesIn(u)
             /\ WarnsIn(s) = (IF h.do = "warn" THEN h.what ELSE {}) \cup WarnsIn(u)
             /\ \A t : RowsIn(s, t) = (IF h.do = "insert" /\ h.table = t THEN h.rows ELSE {}) \cup RowsIn(u, t)
             /\ \A w : ValuesIn(s, w) = (IF h.do = w THEN {h.value} ELSE {}) \cup ValuesIn(u, w)
             /\ \A c : CountsIn(s, c) = (IF h.do = "count" /\ h.what = c THEN {h.n} ELSE {}) \cup CountsIn(u, c)
             /\ Does(s) = {h.do} \cup Does(u)
<1> DEFINE h == Head(s)
           u == Tail(s)
           o == <<h>>
<1>1. IsProgram(u) /\ Items(s) = {h} \cup Items(u)
  BY ItemsUnfold
<1>2. IsProgram(o) /\ Items(o) = {h}
  BY ItemsOfOne
<1>3. /\ Does(o) = {h.do}
      /\ SourcesIn(o) = (IF h.do = "source" THEN {h.of} ELSE {})
      /\ CitesIn(o) = (IF h.do = "observe" THEN h.what ELSE {})
      /\ WarnsIn(o) = (IF h.do = "warn" THEN h.what ELSE {})
      /\ \A t : RowsIn(o, t) = (IF h.do = "insert" /\ h.table = t THEN h.rows ELSE {})
      /\ \A w : ValuesIn(o, w) = (IF h.do = w THEN {h.value} ELSE {})
      /\ \A c : CountsIn(o, c) = (IF h.do = "count" /\ h.what = c THEN {h.n} ELSE {})
  BY OneFacts
<1> HIDE DEF h, u, o
<1>4. Items(s) = Items(o) \cup Items(u)
  BY <1>1, <1>2
<1>5. /\ SourcesIn(s) = SourcesIn(o) \cup SourcesIn(u)
      /\ CitesIn(s) = CitesIn(o) \cup CitesIn(u)
      /\ WarnsIn(s) = WarnsIn(o) \cup WarnsIn(u)
      /\ \A t : RowsIn(s, t) = RowsIn(o, t) \cup RowsIn(u, t)
      /\ \A w : ValuesIn(s, w) = ValuesIn(o, w) \cup ValuesIn(u, w)
      /\ \A c : CountsIn(s, c) = CountsIn(o, c) \cup CountsIn(u, c)
      /\ Does(s) = Does(o) \cup Does(u)
  BY ONLY <1>4, OfUnion
<1>6. /\ IsProgram(u)
      /\ SourcesIn(s) = (IF h.do = "source" THEN {h.of} ELSE {}) \cup SourcesIn(u)
      /\ CitesIn(s) = (IF h.do = "observe" THEN h.what ELSE {}) \cup CitesIn(u)
      /\ WarnsIn(s) = (IF h.do = "warn" THEN h.what ELSE {}) \cup WarnsIn(u)
      /\ Does(s) = {h.do} \cup Does(u)
  BY <1>1, <1>3, <1>5
<1>7. \A t : RowsIn(s, t) = (IF h.do = "insert" /\ h.table = t THEN h.rows ELSE {}) \cup RowsIn(u, t)
  BY <1>3, <1>5
<1>8. \A w : ValuesIn(s, w) = (IF h.do = w THEN {h.value} ELSE {}) \cup ValuesIn(u, w)
  BY <1>3, <1>5
<1>9. \A c : CountsIn(s, c) = (IF h.do = "count" /\ h.what = c THEN {h.n} ELSE {}) \cup CountsIn(u, c)
  BY <1>3, <1>5
<1> QED BY <1>6, <1>7, <1>8, <1>9 DEF h, u

\* The stages, by number.
LEMMA ProgramsAre ==
  ASSUME NEW S, NEW s \in Seq(S)
  PROVE  IsProgram(s)
  BY DEF IsProgram, Items

\* The stages that read, in the order the run goes through them.
LEMMA ReadingStages ==
  /\ IsProgram(Reading) /\ Len(Reading) = 16
  /\ Reading[1] = "rules" /\ Reading[2] = "discovery" /\ Reading[3] = "SYSTEM" /\ Reading[4] = "setting"
  /\ Reading[5] = "SOFTWARE" /\ Reading[6] = "NTUSER" /\ Reading[7] = "USRCLASS" /\ Reading[8] = "user hives"
  /\ Reading[9] = "EVTX" /\ Reading[10] = "events" /\ Reading[11] = "SETUPAPI" /\ Reading[12] = "LNK"
  /\ Reading[13] = "JUMPLIST" /\ Reading[14] = "targets" /\ Reading[15] = "PREFETCH" /\ Reading[16] = "launches"
<1> DEFINE a == "rules"
           b == "discovery"
           c == "SYSTEM"
           d == "setting"
           e == "SOFTWARE"
           f == "NTUSER"
           g == "USRCLASS"
           h == "user hives"
           i == "EVTX"
           j == "events"
           k == "SETUPAPI"
           l == "LNK"
           m == "JUMPLIST"
           n == "targets"
           o == "PREFETCH"
           p == "launches"
           s == <<a, b, c, d, e, f, g, h, i, j, k, l, m, n, o, p>>
           S == {a, b, c, d, e, f, g, h, i, j, k, l, m, n, o, p}
<1>1. Reading = s
  BY DEF Reading
<1> HIDE DEF a, b, c, d, e, f, g, h, i, j, k, l, m, n, o, p
<1>2. s \in Seq(S) /\ Len(s) = 16
  OBVIOUS
<1>3. s[1] = a /\ s[2] = b /\ s[3] = c /\ s[4] = d /\ s[5] = e /\ s[6] = f /\ s[7] = g /\ s[8] = h
  OBVIOUS
<1>4. s[9] = i /\ s[10] = j /\ s[11] = k /\ s[12] = l /\ s[13] = m /\ s[14] = n /\ s[15] = o /\ s[16] = p
  OBVIOUS
<1> HIDE DEF s, S
<1>5. IsProgram(s)
  BY <1>2, ProgramsAre
<1>6. /\ Reading[1] = a /\ Reading[2] = b /\ Reading[3] = c /\ Reading[4] = d
      /\ Reading[5] = e /\ Reading[6] = f /\ Reading[7] = g /\ Reading[8] = h
  BY <1>1, <1>3
<1>7. /\ Reading[9] = i /\ Reading[10] = j /\ Reading[11] = k /\ Reading[12] = l
      /\ Reading[13] = m /\ Reading[14] = n /\ Reading[15] = o /\ Reading[16] = p
  BY <1>1, <1>4
<1>8. IsProgram(Reading) /\ Len(Reading) = 16
  BY <1>1, <1>2, <1>5
<1> USE DEF a, b, c, d, e, f, g, h, i, j, k, l, m, n, o, p
<1> QED BY <1>6, <1>7, <1>8

\* Where the steps of two joined programs are.
LEMMA JoinedAt ==
  ASSUME NEW s, NEW u, IsProgram(s), IsProgram(u)
  PROVE  /\ Len(s \o u) = Len(s) + Len(u)
         /\ \A k \in 1..Len(s) : (s \o u)[k] = s[k]
         /\ \A k \in 1..Len(u) : (s \o u)[Len(s) + k] = u[k]
<1> DEFINE S == Items(s) \cup Items(u)
<1>1. s \in Seq(S) /\ u \in Seq(S)
  BY DEF IsProgram
<1> HIDE DEF S
<1> QED BY <1>1

\* All the stages, in order.
LEMMA StageNames ==
  /\ Len(Stages) = 23
  /\ Stages[1] = "rules" /\ Stages[2] = "discovery" /\ Stages[3] = "SYSTEM" /\ Stages[4] = "setting"
  /\ Stages[5] = "SOFTWARE" /\ Stages[6] = "NTUSER" /\ Stages[7] = "USRCLASS" /\ Stages[8] = "user hives"
  /\ Stages[9] = "EVTX" /\ Stages[10] = "events" /\ Stages[11] = "SETUPAPI" /\ Stages[12] = "LNK"
  /\ Stages[13] = "JUMPLIST" /\ Stages[14] = "targets" /\ Stages[15] = "PREFETCH" /\ Stages[16] = "launches"
  /\ Stages[17] = "partial" /\ Stages[18] = "ledger" /\ Stages[19] = "derive" /\ Stages[20] = "export"
  /\ Stages[21] = "report" /\ Stages[22] = "database" /\ Stages[23] = "manifest"
<1> DEFINE R == Reading
           L == <<"partial", "ledger", "derive", "export", "report", "database", "manifest">>
<1>3. Stages = R \o L
  BY DEF Stages
<1>1. L \in Seq({"partial", "ledger", "derive", "export", "report", "database", "manifest"}) /\ Len(L) = 7
  OBVIOUS
<1>2. /\ L[1] = "partial" /\ L[2] = "ledger" /\ L[3] = "derive" /\ L[4] = "export"
      /\ L[5] = "report" /\ L[6] = "database" /\ L[7] = "manifest"
  OBVIOUS
<1> HIDE DEF L
<1>4. IsProgram(L)
  BY ONLY <1>1, ProgramsAre
<1>5. IsProgram(R) /\ Len(R) = 16
  BY ReadingStages
<1> HIDE DEF R
<1>6. /\ Len(Stages) = 23
      /\ \A k \in 1..16 : Stages[k] = R[k]
      /\ \A k \in 1..7 : Stages[16 + k] = L[k]
  <2>1. /\ Len(R \o L) = Len(R) + Len(L)
        /\ \A k \in 1..Len(R) : (R \o L)[k] = R[k]
        /\ \A k \in 1..Len(L) : (R \o L)[Len(R) + k] = L[k]
    <3>1. IsProgram(R) /\ IsProgram(L)
      BY <1>4, <1>5
    <3> HIDE DEF R
    <3> QED BY ONLY <3>1, JoinedAt
  <2>2. Len(R) = 16 /\ Len(L) = 7
    BY <1>1, <1>5
  <2>3. /\ Len(Stages) = Len(R) + Len(L)
        /\ \A k \in 1..Len(R) : Stages[k] = R[k]
        /\ \A k \in 1..Len(L) : Stages[Len(R) + k] = L[k]
    BY ONLY <1>3, <2>1, Zenon
  <2> QED BY ONLY <2>2, <2>3
<1>7. /\ Stages[17] = L[1] /\ Stages[18] = L[2] /\ Stages[19] = L[3] /\ Stages[20] = L[4]
      /\ Stages[21] = L[5] /\ Stages[22] = L[6] /\ Stages[23] = L[7]
  BY <1>6
<1>8. /\ Stages[1] = R[1] /\ Stages[2] = R[2] /\ Stages[3] = R[3] /\ Stages[4] = R[4]
      /\ Stages[5] = R[5] /\ Stages[6] = R[6] /\ Stages[7] = R[7] /\ Stages[8] = R[8]
  BY <1>6
<1>9. /\ Stages[9] = R[9] /\ Stages[10] = R[10] /\ Stages[11] = R[11] /\ Stages[12] = R[12]
      /\ Stages[13] = R[13] /\ Stages[14] = R[14] /\ Stages[15] = R[15] /\ Stages[16] = R[16]
  BY <1>6
<1>10. /\ Stages[17] = "partial" /\ Stages[18] = "ledger" /\ Stages[19] = "derive" /\ Stages[20] = "export"
       /\ Stages[21] = "report" /\ Stages[22] = "database" /\ Stages[23] = "manifest"
  BY <1>2, <1>7
<1> USE DEF R
<1>11. /\ Stages[1] = "rules" /\ Stages[2] = "discovery" /\ Stages[3] = "SYSTEM" /\ Stages[4] = "setting"
       /\ Stages[5] = "SOFTWARE" /\ Stages[6] = "NTUSER" /\ Stages[7] = "USRCLASS" /\ Stages[8] = "user hives"
  BY <1>8, ReadingStages
<1>12. /\ Stages[9] = "EVTX" /\ Stages[10] = "events" /\ Stages[11] = "SETUPAPI" /\ Stages[12] = "LNK"
       /\ Stages[13] = "JUMPLIST" /\ Stages[14] = "targets" /\ Stages[15] = "PREFETCH" /\ Stages[16] = "launches"
  BY <1>9, ReadingStages
<1> QED BY <1>6, <1>10, <1>11, <1>12

StageOf == [SYSTEM |-> 3, SOFTWARE |-> 5, NTUSER |-> 6, USRCLASS |-> 7, EVTX |-> 9, SETUPAPI |-> 11,
            LNK |-> 12, JUMPLIST |-> 13, PREFETCH |-> 15]

\* The stage that takes up each kind of artefact.
LEMMA StageOfKind ==
  /\ StageOf["SYSTEM"] = 3 /\ StageOf["SOFTWARE"] = 5 /\ StageOf["NTUSER"] = 6 /\ StageOf["USRCLASS"] = 7
  /\ StageOf["EVTX"] = 9 /\ StageOf["SETUPAPI"] = 11 /\ StageOf["LNK"] = 12 /\ StageOf["JUMPLIST"] = 13
  /\ StageOf["PREFETCH"] = 15
  BY DEF StageOf

\* Each kind of artefact has a stage of its own.
LEMMA StageOfName ==
  ASSUME NEW n \in 1..23
  PROVE  /\ Stages[n] = "SYSTEM" <=> n = 3
         /\ Stages[n] = "SOFTWARE" <=> n = 5
         /\ Stages[n] = "NTUSER" <=> n = 6
         /\ Stages[n] = "USRCLASS" <=> n = 7
         /\ Stages[n] = "EVTX" <=> n = 9
         /\ Stages[n] = "SETUPAPI" <=> n = 11
         /\ Stages[n] = "LNK" <=> n = 12
         /\ Stages[n] = "JUMPLIST" <=> n = 13
         /\ Stages[n] = "PREFETCH" <=> n = 15
<1>1. \/ n = 1 \/ n = 2 \/ n = 3 \/ n = 4 \/ n = 5 \/ n = 6 \/ n = 7 \/ n = 8 \/ n = 9 \/ n = 10 \/ n = 11 \/ n = 12
      \/ n = 13 \/ n = 14 \/ n = 15 \/ n = 16 \/ n = 17 \/ n = 18 \/ n = 19 \/ n = 20 \/ n = 21 \/ n = 22 \/ n = 23
  OBVIOUS
<1>2. Stages[n] = "SYSTEM" <=> n = 3
  BY <1>1, StageNames
<1>3. Stages[n] = "SOFTWARE" <=> n = 5
  BY <1>1, StageNames
<1>4. Stages[n] = "NTUSER" <=> n = 6
  BY <1>1, StageNames
<1>5. Stages[n] = "USRCLASS" <=> n = 7
  BY <1>1, StageNames
<1>6. Stages[n] = "EVTX" <=> n = 9
  BY <1>1, StageNames
<1>7. Stages[n] = "SETUPAPI" <=> n = 11
  BY <1>1, StageNames
<1>8. Stages[n] = "LNK" <=> n = 12
  BY <1>1, StageNames
<1>9. Stages[n] = "JUMPLIST" <=> n = 13
  BY <1>1, StageNames
<1>10. Stages[n] = "PREFETCH" <=> n = 15
  BY <1>1, StageNames
<1> QED BY <1>2, <1>3, <1>4, <1>5, <1>6, <1>7, <1>8, <1>9, <1>10

\* An artefact is taken up at the stage named for its kind.
LEMMA KindStage ==
  ASSUME NEW a \in Artefacts, NEW n \in 1..23
  PROVE  /\ StageOf[Kind[a]] \in 1..15
         /\ Stages[n] = Kind[a] <=> n = StageOf[Kind[a]]
<1>1. Kind[a] \in {"SYSTEM", "SOFTWARE", "NTUSER", "USRCLASS", "EVTX", "SETUPAPI", "LNK", "JUMPLIST", "PREFETCH"}
  BY CaseAssumption DEF Odd
<1>2. CASE Kind[a] = "SYSTEM"
  BY <1>2, StageOfKind, StageOfName
<1>3. CASE Kind[a] = "SOFTWARE"
  BY <1>3, StageOfKind, StageOfName
<1>4. CASE Kind[a] = "NTUSER"
  BY <1>4, StageOfKind, StageOfName
<1>5. CASE Kind[a] = "USRCLASS"
  BY <1>5, StageOfKind, StageOfName
<1>6. CASE Kind[a] = "EVTX"
  BY <1>6, StageOfKind, StageOfName
<1>7. CASE Kind[a] = "SETUPAPI"
  BY <1>7, StageOfKind, StageOfName
<1>8. CASE Kind[a] = "LNK"
  BY <1>8, StageOfKind, StageOfName
<1>9. CASE Kind[a] = "JUMPLIST"
  BY <1>9, StageOfKind, StageOfName
<1>10. CASE Kind[a] = "PREFETCH"
  BY <1>10, StageOfKind, StageOfName
<1> QED BY <1>1, <1>2, <1>3, <1>4, <1>5, <1>6, <1>7, <1>8, <1>9, <1>10

\* An artefact the run has come to.
Begun(a) == StageOf[Kind[a]] <= stage /\ \E k \in DOMAIN Discovered \ todo : Discovered[k] = a
Taken(kind) == {a \in Artefacts : Kind[a] = kind /\ Begun(a) /\ Loaded(a)}

Doable(n) ==
  CASE n = 17 -> {"warn"} [] n = 18 -> {"insert"} [] n = 19 -> {"derive"} [] n = 20 -> {"export"}
    [] n = 21 -> {"report"} [] n = 22 -> {"checkpoint", "close", "record"} [] n = 23 -> {"publish"}
    [] OTHER -> Reading0

Typed ==
  /\ FatesKnown /\ stage \in 0..23 /\ DOMAIN db = Tables /\ IsProgram(agenda)
  /\ todo \subseteq DOMAIN Discovered /\ \A k \in todo : stage = StageOf[Kind[Discovered[k]]]
  /\ Does(agenda) \subseteq Doable(stage)
  /\ \A i \in Items(agenda) : i.do = "derive" => i.table \in Derived

\* What is kept stays, or becomes what the program was to keep.
Moved(w, old, new) ==
  /\ ValuesIn(agenda', w) \subseteq ValuesIn(agenda, w)
  /\ (new = old /\ ValuesIn(agenda', w) = ValuesIn(agenda, w)) \/ new \in ValuesIn(agenda, w)

\* A step of a program leaves what the run has and will have as it is.
Same ==
  /\ AllSources' = AllSources /\ AllCites' = AllCites /\ AllWarns' = AllWarns
  /\ \A t \in Tables \ Derived : AllRows(t)' = AllRows(t)
  /\ fate' = fate /\ stage' = stage /\ todo' = todo
  /\ IsProgram(agenda') /\ Does(agenda') \subseteq Does(agenda) /\ Items(agenda') \subseteq Items(agenda)
  /\ DOMAIN db' = Tables
  /\ Moved("zone", zone, zone') /\ Moved("setting", setting, setting')

\* A step that moves an item from to-do to done changes no total.
LEMMA SameOfStep ==
  ASSUME Typed, NEW what, Doing(what), Done,
         sources' = (IF what = "source" THEN sources \cup {Head(agenda).of} ELSE sources),
         observations' = (IF what = "observe" THEN observations \cup Head(agenda).what ELSE observations),
         warnings' = (IF what = "warn" THEN warnings \cup Head(agenda).what ELSE warnings),
         DOMAIN db' = Tables,
         zone' = (IF what = "zone" THEN Head(agenda).value ELSE zone),
         setting' = (IF what = "setting" THEN Head(agenda).value ELSE setting),
         \A t \in Tables \ Derived :
           db'[t] = (IF what = "insert" /\ Head(agenda).table = t THEN db[t] \cup Head(agenda).rows ELSE db[t])
  PROVE  Same
<1> DEFINE h == Head(agenda)
           u == Tail(agenda)
<1>1. IsProgram(agenda) /\ agenda # <<>> /\ h.do = what /\ agenda' = u /\ UNCHANGED <<fate, stage, todo>>
  BY DEF Typed, Doing, Done
<1>2. /\ IsProgram(u)
      /\ SourcesIn(agenda) = (IF h.do = "source" THEN {h.of} ELSE {}) \cup SourcesIn(u)
      /\ CitesIn(agenda) = (IF h.do = "observe" THEN h.what ELSE {}) \cup CitesIn(u)
      /\ WarnsIn(agenda) = (IF h.do = "warn" THEN h.what ELSE {}) \cup WarnsIn(u)
      /\ \A t : RowsIn(agenda, t) = (IF h.do = "insert" /\ h.table = t THEN h.rows ELSE {}) \cup RowsIn(u, t)
      /\ \A w : ValuesIn(agenda, w) = (IF h.do = w THEN {h.value} ELSE {}) \cup ValuesIn(u, w)
      /\ Does(agenda) = {h.do} \cup Does(u)
  BY <1>1, UnfoldFacts
<1>3. Items(u) \subseteq Items(agenda)
  BY <1>1, ItemsUnfold
<1>4. /\ sources' = (IF what = "source" THEN sources \cup {h.of} ELSE sources)
      /\ observations' = (IF what = "observe" THEN observations \cup h.what ELSE observations)
      /\ warnings' = (IF what = "warn" THEN warnings \cup h.what ELSE warnings)
      /\ \A t \in Tables \ Derived :
           db'[t] = (IF what = "insert" /\ h.table = t THEN db[t] \cup h.rows ELSE db[t])
      /\ zone' = (IF what = "zone" THEN h.value ELSE zone)
      /\ setting' = (IF what = "setting" THEN h.value ELSE setting)
  OBVIOUS
<1> HIDE DEF h, u
<1>5. sources' \cup SourcesIn(u) = sources \cup SourcesIn(agenda)
  BY <1>1, <1>2, <1>4
<1>6. observations' \cup CitesIn(u) = observations \cup CitesIn(agenda)
  BY <1>1, <1>2, <1>4
<1>7. warnings' \cup WarnsIn(u) = warnings \cup WarnsIn(agenda)
  BY <1>1, <1>2, <1>4
<1>8. ASSUME NEW t \in Tables \ Derived PROVE db'[t] \cup RowsIn(u, t) = db[t] \cup RowsIn(agenda, t)
  BY <1>1, <1>2, <1>4
<1>9. AllSources' = AllSources
  BY <1>1, <1>5 DEF AllSources
<1>10. AllCites' = AllCites
  BY <1>1, <1>6 DEF AllCites
<1>11. AllWarns' = AllWarns
  BY <1>1, <1>7 DEF AllWarns
<1>12. \A t \in Tables \ Derived : AllRows(t)' = AllRows(t)
  BY <1>1, <1>8 DEF AllRows
<1>13. Moved("zone", zone, zone')
  <2>1. ValuesIn(agenda, "zone") = (IF what = "zone" THEN {h.value} ELSE {}) \cup ValuesIn(agenda', "zone")
    BY <1>1, <1>2
  <2>2. CASE what = "zone"
    BY <1>4, <2>1, <2>2 DEF Moved
  <2>3. CASE what # "zone"
    BY <1>4, <2>1, <2>3 DEF Moved
  <2> QED BY <2>2, <2>3
<1>14. Moved("setting", setting, setting')
  <2>1. ValuesIn(agenda, "setting") = (IF what = "setting" THEN {h.value} ELSE {}) \cup ValuesIn(agenda', "setting")
    BY <1>1, <1>2
  <2>2. CASE what = "setting"
    BY <1>4, <2>1, <2>2 DEF Moved
  <2>3. CASE what # "setting"
    BY <1>4, <2>1, <2>3 DEF Moved
  <2> QED BY <2>2, <2>3
<1> QED BY <1>1, <1>2, <1>3, <1>9, <1>10, <1>11, <1>12, <1>13, <1>14 DEF Same

-----------------------------------------------------------------------------
\* A step that lays nothing out.
Onward ==
  \/ Completes \/ AddSource \/ ObserveBatch \/ WarnOf \/ KeepZone \/ KeepSetting \/ CountUp
  \/ Insert \/ Derive \/ exportView \/ writeReport
  \/ Checkpoint \/ Close \/ RecordDatabase \/ Publish \/ Fails \/ UNCHANGED vars

\* A step begins a stage, takes up an artefact or is onward.
LEMMA NextCases == [Next]_vars => NextStage \/ TakeUp \/ Onward
  BY DEF Next, Onward

\* A step that touches no evidence changes no total.
LEMMA Idles ==
  ASSUME Typed, UNCHANGED <<agenda, fate, stage, todo, kept, ledger, db>>
  PROVE  Same
<1>1. /\ agenda' = agenda /\ sources' = sources /\ observations' = observations /\ warnings' = warnings
      /\ db' = db /\ zone' = zone /\ setting' = setting /\ fate' = fate /\ stage' = stage /\ todo' = todo
  BY DEF ledger, kept
<1>2. AllSources' = AllSources /\ AllCites' = AllCites /\ AllWarns' = AllWarns
  BY <1>1 DEF AllSources, AllCites, AllWarns
<1>3. \A t \in Tables \ Derived : AllRows(t)' = AllRows(t)
  BY <1>1 DEF AllRows
<1>4. Moved("zone", zone, zone') /\ Moved("setting", setting, setting')
  BY <1>1 DEF Moved
<1>5. IsProgram(agenda') /\ Does(agenda') \subseteq Does(agenda) /\ Items(agenda') \subseteq Items(agenda)
  BY <1>1 DEF Typed
<1>6. DOMAIN db' = Tables
  BY <1>1 DEF Typed
<1> QED BY <1>1, <1>2, <1>3, <1>4, <1>5, <1>6 DEF Same

\* An onward step never changes what the run will have in all.
LEMMA OnwardIsSame ==
  ASSUME Typed, Onward
  PROVE  Same
<1>1. DOMAIN db = Tables
  BY DEF Typed
<1>2. CASE Completes
  BY <1>2, Idles DEF Completes, case
<1>3. CASE Fails
  BY <1>3, Idles DEF Fails
<1>4. CASE UNCHANGED vars
  BY <1>4, Idles DEF vars, control, case
<1>5. CASE AddSource
  BY <1>5, <1>1, SameOfStep DEF AddSource, kept, case
<1>6. CASE ObserveBatch
  BY <1>6, <1>1, SameOfStep DEF ObserveBatch, kept, case
<1>7. CASE WarnOf
  BY <1>7, <1>1, SameOfStep DEF WarnOf, kept, case
<1>8. CASE KeepZone
  BY <1>8, <1>1, SameOfStep DEF KeepZone, ledger, case
<1>9. CASE KeepSetting
  BY <1>9, <1>1, SameOfStep DEF KeepSetting, ledger, case
<1>10. CASE CountUp
  BY <1>10, <1>1, SameOfStep DEF CountUp, ledger, kept, case
<1>11. CASE Insert
  BY <1>11, <1>1, SameOfStep DEF Insert, ledger, kept
<1>12. CASE Derive
  <2>1. /\ Doing("derive") /\ Done /\ UNCHANGED <<sources, observations, warnings, zone, setting>>
        /\ db' = [db EXCEPT ![Head(agenda).table] = View(db, Head(agenda).reads)]
    BY <1>12 DEF Derive, ledger, kept
  <2>2. DOMAIN db' = Tables
    BY <1>1, <2>1
  <2>3. Head(agenda) \in Items(agenda) /\ Head(agenda).do = "derive"
    BY <2>1, ItemsUnfold DEF Typed, Doing
  <2>4. Head(agenda).table \in Derived
    BY <2>3 DEF Typed
  <2>5. \A t \in Tables \ Derived : db'[t] = db[t]
    BY <1>1, <2>1, <2>4
  <2> QED BY <2>1, <2>2, <2>5, SameOfStep
<1>13. CASE exportView
  BY <1>13, <1>1, SameOfStep DEF exportView, ledger, kept, case
<1>14. CASE writeReport
  BY <1>14, <1>1, SameOfStep DEF writeReport, ledger, kept, case
<1>15. CASE Checkpoint
  BY <1>15, <1>1, SameOfStep DEF Checkpoint, ledger, kept
<1>16. CASE Close
  BY <1>16, <1>1, SameOfStep DEF Close, ledger, kept
<1>17. CASE RecordDatabase
  BY <1>17, <1>1, SameOfStep DEF RecordDatabase, ledger, kept, case
<1>18. CASE Publish
  BY <1>18, <1>1, SameOfStep DEF Publish, ledger, kept, case
<1> QED BY <1>2, <1>3, <1>4, <1>5, <1>6, <1>7, <1>8, <1>9, <1>10, <1>11, <1>12, <1>13, <1>14, <1>15, <1>16,
           <1>17, <1>18 DEF Onward

-----------------------------------------------------------------------------
\* A finite set is the elements of the sequence that is made of it.
LEMMA SetToSeqFacts ==
  ASSUME NEW S, IsFiniteSet(S)
  PROVE  /\ Cardinality(S) \in Nat
         /\ SetToSeq(S) \in [1..Cardinality(S) -> S]
         /\ \A x \in S : \E k \in 1..Cardinality(S) : SetToSeq(S)[k] = x
<1> DEFINE n == Cardinality(S)
<1>1. n \in Nat /\ ExistsBijection(1..n, S)
  BY FS_CardinalityType
<1>2. PICK f \in Bijection(1..n, S) : TRUE
  BY <1>1 DEF ExistsBijection
<1>3. f \in [1..n -> S] /\ IsInjective(f)
  BY <1>2 DEF Bijection, Injection, IsInjective
<1> DEFINE g == SetToSeq(S)
<1>4. g \in [1..n -> S] /\ IsInjective(g)
  BY <1>3 DEF SetToSeq
<1> HIDE DEF g
<1>5. IsFiniteSet(1..n) /\ Cardinality(1..n) = n
  BY <1>1, FS_Interval
<1>6. g \in Injection(1..n, S)
  BY <1>4 DEF Injection, IsInjective
<1>7. g \in Surjection(1..n, S)
  BY <1>5, <1>6, FS_Injection DEF Surjection
<1>8. \A x \in S : \E k \in 1..n : g[k] = x
  BY <1>7 DEF Surjection
<1> QED BY <1>1, <1>4, <1>8 DEF g

\* There are finitely many artefacts.
LEMMA ArtefactsFinite == IsFiniteSet(Artefacts)
<1> DEFINE n == Len(Discovered)
<1>1. n \in Nat /\ DOMAIN Discovered = 1..n /\ Discovered \in [1..n -> Artefacts]
  BY CollectionAssumption DEF Artefacts
<1>2. \A a \in Artefacts : \E k \in 1..n : Discovered[k] = a
  BY <1>1 DEF Artefacts
<1>3. Discovered \in Surjection(1..n, Artefacts)
  BY <1>1, <1>2 DEF Surjection
<1>4. IsFiniteSet(1..n)
  BY <1>1, FS_Interval
<1> QED BY <1>3, <1>4, FS_Surjection

\* Warnings of the elements of a finite set.
LEMMA WarnsOfSet ==
  ASSUME NEW S, IsFiniteSet(S), NEW e, DOMAIN e = DOMAIN SetToSeq(S), NEW W,
         e = [k \in DOMAIN e |-> e[k]],
         \A k \in DOMAIN e : SetToSeq(S)[k] \in S =>
           e[k].do = "warn" /\ e[k].what = W[SetToSeq(S)[k]]
  PROVE  /\ IsReading(e) /\ CitesIn(e) = {} /\ \A t : RowsIn(e, t) = {}
         /\ \A w \in {"zone", "setting"} : ValuesIn(e, w) = {}
         /\ Does(e) \subseteq {"warn"}
         /\ WarnsIn(e) = UNION {W[x] : x \in S}
<1> DEFINE n == Cardinality(S)
           f == SetToSeq(S)
<1>1. n \in Nat /\ f \in [1..n -> S] /\ \A x \in S : \E k \in 1..n : f[k] = x
  BY SetToSeqFacts
<1> HIDE DEF n, f
<1>2. DOMAIN e = 1..n /\ e = [k \in 1..n |-> e[k]]
  BY <1>1 DEF f
<1>3. \A k \in 1..n : e[k].do = "warn" /\ e[k].what = W[f[k]]
  BY <1>1, <1>2 DEF f
<1>4. /\ IsProgram(e) /\ SourcesIn(e) = {} /\ CitesIn(e) = {} /\ \A t : RowsIn(e, t) = {}
      /\ \A w \in {"zone", "setting"} : ValuesIn(e, w) = {}
      /\ \A c : CountsIn(e, c) = {} /\ Does(e) \subseteq {"warn"}
      /\ WarnsIn(e) = UNION {e[k].what : k \in 1..n}
  BY <1>1, <1>2, <1>3, EachWarns
<1>5. {e[k].what : k \in 1..n} = {W[x] : x \in S}
  BY <1>1, <1>3
<1>6. IsReading(e)
  BY <1>4 DEF IsReading, Reading0
<1>7. WarnsIn(e) = UNION {W[x] : x \in S}
  BY <1>4, <1>5
<1> QED BY <1>4, <1>6, <1>7

-----------------------------------------------------------------------------
\* Which table a table's rows are parts of, and when a row is a part of another.
ParentOf == [event_field |-> "event", disk_partition |-> "disk_layout", prefetch_execution |-> "prefetch_run",
             prefetch_volume |-> "prefetch_run", prefetch_file |-> "prefetch_run",
             rule_condition |-> "rule", rule_review_exception |-> "rule_review_fact"]
PartOf(t, c, p) ==
  CASE t \in {"event_field", "disk_partition"} -> p.source = c.source /\ p.at = c.at
    [] t \in {"prefetch_execution", "prefetch_volume", "prefetch_file"} -> p.source = c.source
    [] OTHER -> p = c[1]

\* The child tables and their parents.
LEMMA Parents ==
  /\ DOMAIN ParentOf = {"event_field", "disk_partition", "prefetch_execution", "prefetch_volume", "prefetch_file",
                        "rule_condition", "rule_review_exception"}
  /\ ParentOf["event_field"] = "event" /\ ParentOf["disk_partition"] = "disk_layout"
  /\ ParentOf["prefetch_execution"] = "prefetch_run" /\ ParentOf["prefetch_volume"] = "prefetch_run"
  /\ ParentOf["prefetch_file"] = "prefetch_run" /\ ParentOf["rule_condition"] = "rule"
  /\ ParentOf["rule_review_exception"] = "rule_review_fact"
  BY DEF ParentOf

\* No rows are laid out after rows that are parts of them.
Ordered(s) ==
  \A j, k \in DOMAIN s :
    /\ j < k /\ s[j].do = "insert" /\ s[k].do = "insert" /\ s[j].table \in DOMAIN ParentOf
    /\ s[k].table = ParentOf[s[j].table]
    => s[j].rows = {} \/ s[k].rows = {}

\* A step's rows are among its program's.
LEMMA RowsAt ==
  ASSUME NEW s, NEW k \in DOMAIN s, s[k].do = "insert", NEW r \in s[k].rows
  PROVE  r \in RowsIn(s, s[k].table)
  BY DEF RowsIn, Of, Items

\* A program with no child beside its parent table is in order.
LEMMA OrderedIf ==
  ASSUME NEW s, \A t \in DOMAIN ParentOf : RowsIn(s, t) = {} \/ RowsIn(s, ParentOf[t]) = {}
  PROVE  Ordered(s)
<1> SUFFICES ASSUME NEW j \in DOMAIN s, NEW k \in DOMAIN s, s[j].do = "insert", s[k].do = "insert",
                    s[j].table \in DOMAIN ParentOf, s[k].table = ParentOf[s[j].table],
                    s[j].rows # {}, s[k].rows # {}
             PROVE  FALSE
  BY DEF Ordered
<1>1. RowsIn(s, s[j].table) # {} /\ RowsIn(s, s[k].table) # {}
  BY RowsAt
<1> QED BY <1>1

\* Two ordered programs join in order when no parent comes late.
LEMMA OrderedJoin ==
  ASSUME NEW s, NEW u, IsProgram(s), IsProgram(u), Ordered(s), Ordered(u),
         \A t \in DOMAIN ParentOf : RowsIn(s, t) = {} \/ RowsIn(u, ParentOf[t]) = {}
  PROVE  Ordered(s \o u)
<1> DEFINE v == s \o u
           m == Len(s)
           n == Len(u)
<1>1. m \in Nat /\ n \in Nat /\ DOMAIN s = 1..m /\ DOMAIN u = 1..n
  BY DEF IsProgram
<1>2. /\ Len(v) = m + n
      /\ \A k \in 1..m : v[k] = s[k]
      /\ \A k \in 1..n : v[m + k] = u[k]
  BY JoinedAt
<1>3. IsProgram(v)
  BY ItemsOfJoin
<1> HIDE DEF m, n, v
<1>4. DOMAIN v = 1..(m + n)
  BY <1>2, <1>3 DEF IsProgram
<1> SUFFICES ASSUME NEW j \in DOMAIN v, NEW k \in DOMAIN v, j < k, v[j].do = "insert", v[k].do = "insert",
                    v[j].table \in DOMAIN ParentOf, v[k].table = ParentOf[v[j].table],
                    v[j].rows # {}, v[k].rows # {}
             PROVE  FALSE
  BY DEF Ordered, v
<1>5. j \in 1..(m + n) /\ k \in 1..(m + n)
  BY <1>4
<1>6. CASE k \in 1..m
  <2>1. j \in 1..m
    BY <1>1, <1>5, <1>6
  <2>2. v[j] = s[j] /\ v[k] = s[k] /\ j \in DOMAIN s /\ k \in DOMAIN s
    BY <1>1, <1>2, <1>6, <2>1
  <2> QED BY <2>2 DEF Ordered
<1>7. CASE j \notin 1..m
  <2>1. j - m \in 1..n /\ k - m \in 1..n /\ m + (j - m) = j /\ m + (k - m) = k /\ j - m < k - m
    BY <1>1, <1>5, <1>7
  <2>2. v[j] = u[j - m] /\ v[k] = u[k - m]
    BY <1>2, <2>1
  <2> QED BY <1>1, <2>1, <2>2 DEF Ordered
<1>8. CASE j \in 1..m /\ k \notin 1..m
  <2>1. k - m \in 1..n /\ m + (k - m) = k
    BY <1>1, <1>5, <1>8
  <2>2. v[j] = s[j] /\ v[k] = u[k - m] /\ j \in DOMAIN s /\ k - m \in DOMAIN u
    BY <1>1, <1>2, <1>8, <2>1
  <2>3. RowsIn(s, v[j].table) # {} /\ RowsIn(u, v[k].table) # {}
    BY <2>2, RowsAt
  <2> QED BY <2>3
<1> QED BY <1>6, <1>7, <1>8

\* An ordered program's rest is ordered, no parent following a child.
LEMMA OrderedTail ==
  ASSUME NEW s, IsProgram(s), s # <<>>, Ordered(s)
  PROVE  /\ Ordered(Tail(s))
         /\ Head(s).do = "insert" /\ Head(s).table \in DOMAIN ParentOf /\ Head(s).rows # {} =>
              RowsIn(Tail(s), ParentOf[Head(s).table]) = {}
<1> DEFINE u == Tail(s)
           n == Len(s)
<1>1. /\ IsProgram(u) /\ n \in Nat /\ n > 0 /\ DOMAIN s = 1..n /\ Head(s) = s[1] /\ Len(u) = n - 1
      /\ \A k \in 1..(n - 1) : u[k] = s[k + 1]
  BY ItemsUnfold
<1> HIDE DEF u, n
<1>2. DOMAIN u = 1..(n - 1)
  BY <1>1 DEF IsProgram
<1>3. Ordered(u)
  <2> SUFFICES ASSUME NEW j \in DOMAIN u, NEW k \in DOMAIN u, j < k, u[j].do = "insert", u[k].do = "insert",
                    u[j].table \in DOMAIN ParentOf, u[k].table = ParentOf[u[j].table]
               PROVE  u[j].rows = {} \/ u[k].rows = {}
    BY DEF Ordered
  <2>1. u[j] = s[j + 1] /\ u[k] = s[k + 1] /\ j + 1 \in DOMAIN s /\ k + 1 \in DOMAIN s /\ j + 1 < k + 1
    BY <1>1, <1>2
  <2> QED BY <2>1 DEF Ordered
<1>4. ASSUME Head(s).do = "insert", Head(s).table \in DOMAIN ParentOf, Head(s).rows # {},
             NEW r \in RowsIn(u, ParentOf[Head(s).table])
      PROVE  FALSE
  <2>1. PICK k \in DOMAIN u : u[k].do = "insert" /\ u[k].table = ParentOf[Head(s).table] /\ r \in u[k].rows
    BY <1>4 DEF RowsIn, Of, Items
  <2>2. u[k] = s[k + 1] /\ 1 \in DOMAIN s /\ k + 1 \in DOMAIN s /\ 1 < k + 1
    BY <1>1, <1>2
  <2>3. s[1].rows = {} \/ s[k + 1].rows = {}
    BY <1>1, <1>4, <2>1, <2>2 DEF Ordered
  <2> QED BY <1>1, <1>4, <2>1, <2>2, <2>3
<1> QED BY <1>3, <1>4 DEF u

\* Programs of artefacts load no parts.
LEMMA Childless ==
  ASSUME NEW s, \A t : RowsIn(s, t) # {} => t \in ReadTables
  PROVE  Ordered(s)
BY Parents, OrderedIf DEF ReadTables

-----------------------------------------------------------------------------
\* Nothing but rows of one table is added.
OnlyRows(v, s, table, rows) ==
  IsReading(v) /\ CitesIn(v) = CitesIn(s) /\ AddsRows(v, s, table, rows)

\* A reading with an insert adds that table's rows only.
LEMMA AndInsert ==
  ASSUME NEW s, IsReading(s), NEW table, NEW rows
  PROVE  OnlyRows(s \o insert(table, rows), s, table, rows)
<1> DEFINE v == s \o insert(table, rows)
<1>1. /\ IsReading(v) /\ CitesIn(v) = CitesIn(s) /\ WarnsIn(v) = WarnsIn(s)
      /\ \A t : RowsIn(v, t) = RowsIn(s, t) \cup (IF t = table THEN rows ELSE {})
      /\ \A w \in {"zone", "setting"} : ValuesIn(v, w) = ValuesIn(s, w)
  BY ThenInsert
<1> HIDE DEF v
<1>2. AddsRows(v, s, table, rows)
  BY <1>1 DEF AddsRows
<1>3. OnlyRows(v, s, table, rows)
  BY <1>1, <1>2 DEF OnlyRows
<1> QED BY <1>3 DEF v

\* An insert alone adds that table's rows only.
LEMMA FirstInsert ==
  ASSUME NEW table, NEW rows
  PROVE  OnlyRows(insert(table, rows), <<>>, table, rows)
<1> DEFINE v == insert(table, rows)
<1>1. IsReading(v) /\ CitesIn(v) = {} /\ WarnsIn(v) = {}
  BY ReadingOf, CitesOf, WarnsOf
<1>2. \A t : RowsIn(v, t) = (IF t = table THEN rows ELSE {})
  BY RowsOf
<1>3. \A w \in {"zone", "setting"} : ValuesIn(v, w) = {}
  BY ValuesOf
<1>4. /\ CitesIn(<<>>) = {} /\ WarnsIn(<<>>) = {} /\ (\A t : RowsIn(<<>>, t) = {})
      /\ \A w : ValuesIn(<<>>, w) = {}
  BY NoneFacts
<1> HIDE DEF v
<1>5. AddsRows(v, <<>>, table, rows)
  BY <1>1, <1>2, <1>3, <1>4 DEF AddsRows
<1>6. OnlyRows(v, <<>>, table, rows)
  BY <1>1, <1>4, <1>5 DEF OnlyRows
<1> QED BY <1>6 DEF v

RuleTables ==
  {"rule_setup_class", "rule_category", "rule", "rule_condition", "rule_indicator", "rule_review_fact",
   "rule_review_exception"}

\* The rules go to the tables of the rules, each with what it needs before it.
LEMMA RulesWork ==
  LET P == LoadRules(Rules) IN
  /\ IsReading(P) /\ CitesIn(P) = {} /\ WarnsIn(P) = {} /\ Ordered(P)
  /\ \A w \in {"zone", "setting"} : ValuesIn(P, w) = {}
  /\ \A t : t \notin RuleTables => RowsIn(P, t) = {}
  /\ \A t \in {"rule_condition", "rule_review_exception"} :
       \A c \in RowsIn(P, t) : \E p \in RowsIn(P, ParentOf[t]) : PartOf(t, c, p)
<1> DEFINE r1 == Rules.classes
           r2 == Rules.categories
           r3 == {r.id : r \in Rules.rules}
           r4 == UNION {{<<r.id, fact>> : fact \in r.facts} : r \in Rules.rules}
           r5 == Rules.indicators
           r6 == {v.fact : v \in Rules.reviews}
           r7 == UNION {{<<v.fact, u>> : u \in v.unless} : v \in Rules.reviews}
           v1 == insert("rule_setup_class", r1)
           v2 == v1 \o insert("rule_category", r2)
           v3 == v2 \o insert("rule", r3)
           v4 == v3 \o insert("rule_condition", r4)
           v5 == v4 \o insert("rule_indicator", r5)
           v6 == v5 \o insert("rule_review_fact", r6)
           v7 == v6 \o insert("rule_review_exception", r7)
           P == LoadRules(Rules)
<1>1. P = v7
  BY DEF LoadRules
<1>2. \A c \in r4 : \E p \in r3 : p = c[1]
  OBVIOUS
<1>3. \A c \in r7 : \E p \in r6 : p = c[1]
  OBVIOUS
<1> HIDE DEF P, r1, r2, r3, r4, r5, r6, r7
<1>4. OnlyRows(v1, <<>>, "rule_setup_class", r1)
  BY FirstInsert
<1> HIDE DEF v1
<1>5. OnlyRows(v2, v1, "rule_category", r2)
  BY <1>4, AndInsert DEF OnlyRows
<1> HIDE DEF v2
<1>6. OnlyRows(v3, v2, "rule", r3)
  BY <1>5, AndInsert DEF OnlyRows
<1> HIDE DEF v3
<1>7. OnlyRows(v4, v3, "rule_condition", r4) /\ v4 = v3 \o insert("rule_condition", r4)
  BY <1>6, AndInsert DEF OnlyRows
<1> HIDE DEF v4
<1>8. OnlyRows(v5, v4, "rule_indicator", r5) /\ v5 = v4 \o insert("rule_indicator", r5)
  BY <1>7, AndInsert DEF OnlyRows
<1> HIDE DEF v5
<1>9. OnlyRows(v6, v5, "rule_review_fact", r6) /\ v6 = v5 \o insert("rule_review_fact", r6)
  BY <1>8, AndInsert DEF OnlyRows
<1> HIDE DEF v6
<1>10. OnlyRows(v7, v6, "rule_review_exception", r7) /\ v7 = v6 \o insert("rule_review_exception", r7)
  BY <1>9, AndInsert DEF OnlyRows
<1> HIDE DEF v7
<1>11. \A t : RowsIn(v3, t) = (IF t = "rule_setup_class" THEN r1 ELSE {})
            \cup (IF t = "rule_category" THEN r2 ELSE {})
                              \cup (IF t = "rule" THEN r3 ELSE {})
  BY <1>4, <1>5, <1>6, NoneFacts DEF OnlyRows, AddsRows
<1>12. \A t : RowsIn(v5, t) = RowsIn(v3, t) \cup (IF t = "rule_condition" THEN r4 ELSE {})
                              \cup (IF t = "rule_indicator" THEN r5 ELSE {})
  BY <1>7, <1>8 DEF OnlyRows, AddsRows
<1>13. \A t : RowsIn(v7, t) = RowsIn(v5, t) \cup (IF t = "rule_review_fact" THEN r6 ELSE {})
                              \cup (IF t = "rule_review_exception" THEN r7 ELSE {})
  BY <1>9, <1>10 DEF OnlyRows, AddsRows
<1>14. IsReading(P) /\ CitesIn(P) = {} /\ WarnsIn(P) = {}
  BY <1>4, <1>5, <1>6, <1>7, <1>8, <1>9, <1>10, <1>1, NoneFacts DEF OnlyRows, AddsRows
<1>15. \A w \in {"zone", "setting"} : ValuesIn(P, w) = {}
  BY <1>4, <1>5, <1>6, <1>7, <1>8, <1>9, <1>10, <1>1, NoneFacts DEF OnlyRows, AddsRows
<1>16. /\ RowsIn(P, "rule") = r3 /\ RowsIn(P, "rule_condition") = r4
       /\ RowsIn(P, "rule_review_fact") = r6 /\ RowsIn(P, "rule_review_exception") = r7
  BY <1>1, <1>11, <1>12, <1>13
<1>17. \A t : t \notin RuleTables => RowsIn(P, t) = {}
  BY <1>1, <1>11, <1>12, <1>13 DEF RuleTables
<1>18. \A t \in {"rule_condition", "rule_review_exception"} :
         \A c \in RowsIn(P, t) : \E p \in RowsIn(P, ParentOf[t]) : PartOf(t, c, p)
  BY <1>2, <1>3, <1>16, Parents DEF PartOf
<1>19. Ordered(P)
  <2>1. \A t \in DOMAIN ParentOf : t # "rule_condition" => RowsIn(v5, t) = {}
    BY <1>11, <1>12, Parents
  <2>2. IsReading(v3) /\ IsReading(v4) /\ IsReading(v5) /\ IsReading(v6)
    BY <1>6, <1>7, <1>8, <1>9 DEF OnlyRows
  <2>3. IsProgram(v3) /\ IsProgram(v4) /\ IsProgram(v5) /\ IsProgram(v6)
    BY <2>2 DEF IsReading
  <2>4. /\ \A table, rows : IsProgram(insert(table, rows))
        /\ \A table, rows : \A t : t # table => RowsIn(insert(table, rows), t) = {}
    BY ProgramOf, RowsOf
  <2>5. \A table, rows : Ordered(insert(table, rows))
    <3> TAKE table, rows
    <3> DEFINE s == insert(table, rows)
    <3>1. \A t : t # table => RowsIn(s, t) = {}
      BY <2>4
    <3> HIDE DEF s
    <3>2. \A t \in DOMAIN ParentOf : t # ParentOf[t]
      BY Parents
    <3>3. Ordered(s)
      BY <3>1, <3>2, OrderedIf
    <3> QED BY <3>3 DEF s
  <2>6. Ordered(v3)
    BY <1>11, Parents, OrderedIf
  <2>7. Ordered(v4)
    <3> DEFINE u == insert("rule_condition", r4)
    <3>1. \A t \in DOMAIN ParentOf : RowsIn(v3, t) = {}
      BY <1>11, Parents
    <3>2. IsProgram(u) /\ Ordered(u)
      BY <2>4, <2>5
    <3> HIDE DEF u
    <3>3. Ordered(v3 \o u)
      BY <2>3, <2>6, <3>1, <3>2, OrderedJoin
    <3> QED BY <1>7, <3>3 DEF u
  <2>8. Ordered(v5)
    <3> DEFINE u == insert("rule_indicator", r5)
    <3>1. \A t \in DOMAIN ParentOf : RowsIn(u, ParentOf[t]) = {}
      BY <2>4, Parents
    <3>2. IsProgram(u) /\ Ordered(u)
      BY <2>4, <2>5
    <3> HIDE DEF u
    <3>3. Ordered(v4 \o u)
      BY <2>3, <2>7, <3>1, <3>2, OrderedJoin
    <3> QED BY <1>8, <3>3 DEF u
  <2>9. Ordered(v6)
    <3> DEFINE u == insert("rule_review_fact", r6)
    <3>1. \A t \in DOMAIN ParentOf : RowsIn(v5, t) = {} \/ RowsIn(u, ParentOf[t]) = {}
      BY <2>1, <2>4, Parents
    <3>2. IsProgram(u) /\ Ordered(u)
      BY <2>4, <2>5
    <3> HIDE DEF u
    <3>3. Ordered(v5 \o u)
      BY <2>3, <2>8, <3>1, <3>2, OrderedJoin
    <3> QED BY <1>9, <3>3 DEF u
  <2>10. Ordered(v7)
    <3> DEFINE u == insert("rule_review_exception", r7)
    <3>1. \A t \in DOMAIN ParentOf : RowsIn(u, ParentOf[t]) = {}
      BY <2>4, Parents
    <3>2. IsProgram(u) /\ Ordered(u)
      BY <2>4, <2>5
    <3> HIDE DEF u
    <3>3. Ordered(v6 \o u)
      BY <2>3, <2>9, <3>1, <3>2, OrderedJoin
    <3> QED BY <1>10, <3>3 DEF u
  <2> QED BY <1>1, <2>10
<1> QED BY <1>14, <1>15, <1>17, <1>18, <1>19 DEF P

-----------------------------------------------------------------------------
\* The records are finitely many and come from event logs.
LEMMA RecordsFinite == IsFiniteSet(Records) /\ \A r \in Records : r.file \in Artefacts /\ Kind[r.file] = "EVTX"
<1> DEFINE E == {b \in Artefacts : Kind[b] = "EVTX"}
           f == [a \in E |-> Parsed(a)]
           T == {f[a] : a \in E}
<1>1. Records = UNION T
  BY DEF Records
<1>2. ASSUME NEW a \in E PROVE IsFiniteSet(Holds[a].records) /\ \A r \in Holds[a].records : r.file = a
  BY RecordsAssumption
<1>3. ASSUME NEW a \in E PROVE Parsed(a) \subseteq Holds[a].records
  BY DEF Parsed
<1>4. ASSUME NEW a \in E PROVE IsFiniteSet(f[a]) /\ \A r \in f[a] : r.file = a
  <2>1. f[a] \in SUBSET Holds[a].records
    BY <1>3
  <2>2. IsFiniteSet(Holds[a].records) /\ \A r \in Holds[a].records : r.file = a
    BY <1>2
  <2> HIDE DEF f
  <2>3. IsFiniteSet(f[a])
    BY <2>1, <2>2, FS_Subset
  <2> QED BY <2>1, <2>2, <2>3
<1>5. E \in SUBSET Artefacts /\ IsFiniteSet(Artefacts)
  BY ArtefactsFinite
<1>6. f \in Surjection(E, T)
  BY DEF Surjection
<1> HIDE DEF f
<1>7. IsFiniteSet(E)
  BY <1>5, FS_Subset
<1>8. IsFiniteSet(T)
  BY <1>6, <1>7, FS_Surjection
<1>9. \A S \in T : IsFiniteSet(S)
  BY <1>4
<1>10. IsFiniteSet(UNION T)
  BY <1>8, <1>9, FS_UNION
<1>11. \A r \in UNION T : \E a \in E : r \in f[a]
  OBVIOUS
<1>12. \A r \in UNION T : r.file \in Artefacts /\ Kind[r.file] = "EVTX"
  BY <1>4, <1>11
<1> QED BY <1>1, <1>10, <1>12

\* The records of logs that were hashed.
Kept == {r \in Records : r.file \in sources}
EventRows == {Row(r.file, r.at, {r.instance}, FALSE) : r \in Kept}
FieldRows == UNION {{Row(r.file, r.at, {f}, FALSE) : f \in r.fields} : r \in Kept}
EventCites == {Observation(r.file, "event", r.at, r.instance) : r \in Kept}

\* The records with a recorded source are those whose log hashed.
LEMMA KeptRecords ==
  LET sourceOf == [a \in Artefacts |-> IF a \in sources THEN a ELSE None] IN
  /\ Attested(sourceOf, Records) = Kept
  /\ {Row(sourceOf[r.file], r.at, {r.instance}, FALSE) : r \in Attested(sourceOf, Records)} = EventRows
  /\ UNION {{Row(sourceOf[r.file], r.at, {f}, FALSE) : f \in r.fields} : r \in Attested(sourceOf, Records)}
          = FieldRows
  /\ recordEvents(sourceOf, Records) = EventCites
<1> DEFINE sourceOf == [a \in Artefacts |-> IF a \in sources THEN a ELSE None]
<1>1. \A r \in Records : r.file \in Artefacts /\ r.file # None
  BY RecordsFinite, CaseAssumption
<1>2. \A r \in Records : sourceOf[r.file] # None <=> r.file \in sources
  BY <1>1
<1>3. \A r \in Kept : sourceOf[r.file] = r.file
  BY <1>1 DEF Kept
<1> HIDE DEF sourceOf
<1>4. {r \in Records : sourceOf[r.file] # None} = Kept
  BY <1>2 DEF Kept
<1>5. Attested(sourceOf, Records) = Kept
  BY <1>4 DEF Attested
<1>6. {Row(sourceOf[r.file], r.at, {r.instance}, FALSE) : r \in Attested(sourceOf, Records)} = EventRows
  BY <1>3, <1>5 DEF EventRows
<1>7. UNION {{Row(sourceOf[r.file], r.at, {f}, FALSE) : f \in r.fields} : r \in Attested(sourceOf, Records)}
           = FieldRows
  <2> DEFINE F(r) == {Row(sourceOf[r.file], r.at, {f}, FALSE) : f \in r.fields}
             G(r) == {Row(r.file, r.at, {f}, FALSE) : f \in r.fields}
  <2>1. \A r \in Kept : F(r) = G(r)
    BY <1>3
  <2>2. {F(r) : r \in Kept} = {G(r) : r \in Kept}
    <3> HIDE DEF F, G
    <3> QED BY <2>1
  <2> QED BY <1>5, <2>2 DEF FieldRows
<1>8. recordEvents(sourceOf, Records) = EventCites
  <2>1. recordEvents(sourceOf, Records) =
          {Observation(sourceOf[r.file], "event", r.at, r.instance) : r \in Kept}
    BY <1>4, Zenon DEF recordEvents
  <2> QED BY <1>3, <2>1 DEF EventCites
<1> QED BY <1>5, <1>6, <1>7, <1>8 DEF sourceOf

DiskRows(disks) == {Row(d.source, d.at, {d.instance}, d.partial) : d \in disks}
PartitionRows(disks) == UNION {{Row(d.source, d.at, {p}, FALSE) : p \in d.partitions} : d \in disks}

\* Every event and disk is cited and every citation loaded, and parts are of what is loaded.
LEMMA EventRowFacts ==
  /\ \A r \in EventRows \cup FieldRows : r.source \in sources /\ r.partial = FALSE
  /\ \A r \in EventRows : CitedBy(r, EventCites)
  /\ \A o \in EventCites : HeldBy(o, EventRows)
  /\ \A c \in FieldRows : \E p \in EventRows : PartOf("event_field", c, p)
<1>1. \A r \in Kept : r.file \in sources
  BY DEF Kept
<1>2. \A r \in EventRows \cup FieldRows : r.source \in sources /\ r.partial = FALSE
  <2>1. ASSUME NEW k \in Kept, NEW names
        PROVE  LET r == Row(k.file, k.at, names, FALSE) IN r.source \in sources /\ r.partial = FALSE
    BY <1>1 DEF Row
  <2>2. \A r \in EventRows : r.source \in sources /\ r.partial = FALSE
    BY <2>1 DEF EventRows
  <2>3. \A r \in FieldRows : r.source \in sources /\ r.partial = FALSE
    BY <2>1 DEF FieldRows
  <2> QED BY <2>2, <2>3
<1>3. ASSUME NEW r \in EventRows PROVE CitedBy(r, EventCites)
  <2>1. PICK k \in Kept : r = Row(k.file, k.at, {k.instance}, FALSE)
    BY DEF EventRows
  <2>2. Observation(k.file, "event", k.at, k.instance) \in EventCites
    BY DEF EventCites
  <2>3. {k.instance} \ {None} # {} => k.instance \in {k.instance} \ {None}
    OBVIOUS
  <2>4. CitedBy(Row(k.file, k.at, {k.instance}, FALSE), EventCites)
    BY <2>2, <2>3, CitedFacts
  <2> QED BY <2>1, <2>4
<1>4. ASSUME NEW o \in EventCites PROVE HeldBy(o, EventRows)
  <2>1. PICK k \in Kept : o = Observation(k.file, "event", k.at, k.instance)
    BY DEF EventCites
  <2>2. Row(k.file, k.at, {k.instance}, FALSE) \in EventRows
    BY DEF EventRows
  <2>3. HeldBy(Observation(k.file, "event", k.at, k.instance), EventRows)
    BY <2>2, HeldFacts
  <2> QED BY <2>1, <2>3
<1>5. ASSUME NEW c \in FieldRows PROVE \E p \in EventRows : PartOf("event_field", c, p)
  <2>1. PICK k \in Kept : \E f \in k.fields : c = Row(k.file, k.at, {f}, FALSE)
    BY DEF FieldRows
  <2>2. c.source = k.file /\ c.at = k.at
    BY <2>1 DEF Row
  <2> DEFINE p == Row(k.file, k.at, {k.instance}, FALSE)
  <2>3. p \in EventRows
    BY DEF EventRows
  <2>4. p.source = k.file /\ p.at = k.at
    BY DEF Row
  <2> HIDE DEF p
  <2>5. PartOf("event_field", c, p)
    BY <2>2, <2>4 DEF PartOf
  <2> QED BY <2>3, <2>5
<1> QED BY <1>2, <1>3, <1>4, <1>5

\* Disk layouts: rows cited, observations held, partitions placed.
LEMMA DiskRowFacts ==
  ASSUME NEW disks
  PROVE  /\ \A r \in DiskRows(disks) : CitedBy(r, recordDisks(disks))
         /\ \A o \in recordDisks(disks) : HeldBy(o, DiskRows(disks))
         /\ \A c \in PartitionRows(disks) :
              c.partial = FALSE /\ \E p \in DiskRows(disks) : PartOf("disk_partition", c, p)
<1>1. ASSUME NEW r \in DiskRows(disks) PROVE CitedBy(r, recordDisks(disks))
  <2>1. PICK d \in disks : r = Row(d.source, d.at, {d.instance}, d.partial)
    BY DEF DiskRows
  <2>2. Observation(d.source, "disk.layout", d.at, d.instance) \in recordDisks(disks)
    BY DEF recordDisks
  <2>3. {d.instance} \ {None} # {} => d.instance \in {d.instance} \ {None}
    OBVIOUS
  <2>4. CitedBy(Row(d.source, d.at, {d.instance}, d.partial), recordDisks(disks))
    BY <2>2, <2>3, CitedFacts
  <2> QED BY <2>1, <2>4
<1>2. ASSUME NEW o \in recordDisks(disks) PROVE HeldBy(o, DiskRows(disks))
  <2>1. PICK d \in disks : o = Observation(d.source, "disk.layout", d.at, d.instance)
    BY DEF recordDisks
  <2>2. Row(d.source, d.at, {d.instance}, d.partial) \in DiskRows(disks)
    BY DEF DiskRows
  <2>3. HeldBy(Observation(d.source, "disk.layout", d.at, d.instance), DiskRows(disks))
    BY <2>2, HeldFacts
  <2> QED BY <2>1, <2>3
<1>3. ASSUME NEW c \in PartitionRows(disks)
      PROVE  c.partial = FALSE /\ \E p \in DiskRows(disks) : PartOf("disk_partition", c, p)
  <2>1. PICK d \in disks : \E q \in d.partitions : c = Row(d.source, d.at, {q}, FALSE)
    BY DEF PartitionRows
  <2>2. c.source = d.source /\ c.at = d.at /\ c.partial = FALSE
    BY <2>1 DEF Row
  <2> DEFINE p == Row(d.source, d.at, {d.instance}, d.partial)
  <2>3. p \in DiskRows(disks)
    BY DEF DiskRows
  <2>4. p.source = d.source /\ p.at = d.at
    BY DEF Row
  <2> HIDE DEF p
  <2>5. PartOf("disk_partition", c, p)
    BY <2>2, <2>4 DEF PartOf
  <2> QED BY <2>2, <2>3, <2>5
<1> QED BY <1>1, <1>2, <1>3

-----------------------------------------------------------------------------
\* Two inserts one after the other.
LEMMA TwoInserts ==
  ASSUME NEW a, NEW r, NEW b, NEW q, a # b
  PROVE  LET v == insert(a, r) \o insert(b, q) IN
         /\ IsReading(v) /\ CitesIn(v) = {} /\ WarnsIn(v) = {}
         /\ \A t : RowsIn(v, t) = (IF t = a THEN r ELSE IF t = b THEN q ELSE {})
         /\ \A w \in {"zone", "setting"} : ValuesIn(v, w) = {}
         /\ (\A t \in DOMAIN ParentOf : ~(t = a /\ ParentOf[t] = b)) => Ordered(v)
<1> DEFINE u == insert(a, r)
           x == insert(b, q)
           v == u \o x
<1>1. OnlyRows(u, <<>>, a, r)
  BY FirstInsert
<1>2. IsReading(u)
  BY <1>1 DEF OnlyRows
<1>3. OnlyRows(v, u, b, q)
  BY <1>2, AndInsert
<1>4. \A t : RowsIn(u, t) = (IF t = a THEN r ELSE {}) /\ RowsIn(x, t) = (IF t = b THEN q ELSE {})
  BY RowsOf
<1>5. IsProgram(u) /\ IsProgram(x)
  BY ProgramOf
<1> HIDE DEF u, x
<1>6. ASSUME \A t \in DOMAIN ParentOf : ~(t = a /\ ParentOf[t] = b) PROVE Ordered(v)
  BY Parents, <1>4, OrderedIf, <1>6, <1>5, OrderedJoin
<1> HIDE DEF v
<1>7. IsReading(v) /\ CitesIn(v) = {} /\ WarnsIn(v) = {}
  BY <1>1, <1>3, NoneFacts DEF OnlyRows, AddsRows
<1>8. \A t : RowsIn(v, t) = (IF t = a THEN r ELSE IF t = b THEN q ELSE {})
  BY <1>3, <1>4 DEF OnlyRows, AddsRows
<1>9. \A w \in {"zone", "setting"} : ValuesIn(v, w) = {}
  BY <1>1, <1>3, NoneFacts DEF OnlyRows, AddsRows
<1> QED BY <1>6, <1>7, <1>8, <1>9 DEF v, u, x

\* The program of a stage that reads nothing itself.
IsStage(s) ==
  /\ IsProgram(s) /\ SourcesIn(s) = {} /\ Does(s) \subseteq Reading0
  /\ ValuesIn(s, "zone") = {} /\ ValuesIn(s, "setting") = {}

\* A reading that keeps no setting is a stage's work and counts none.
LEMMA StageOfReading ==
  ASSUME NEW s, IsReading(s), \A w \in {"zone", "setting"} : ValuesIn(s, w) = {}
  PROVE  IsStage(s) /\ \A c : CountsIn(s, c) = {}
  BY DEF IsStage, IsReading

\* A count, and nothing else, is added.
LEMMA ThenCount ==
  ASSUME NEW s, IsStage(s), NEW what, NEW n
  PROVE  LET v == s \o Count(what, n) IN
         /\ IsStage(v) /\ CitesIn(v) = CitesIn(s) /\ WarnsIn(v) = WarnsIn(s)
         /\ \A t : RowsIn(v, t) = RowsIn(s, t)
         /\ \A c : CountsIn(v, c) = CountsIn(s, c) \cup (IF c = what THEN {n} ELSE {})
         /\ Ordered(s) => Ordered(v)
<1> DEFINE u == Count(what, n)
           v == s \o u
<1>1. IsProgram(u) /\ SourcesIn(u) = {} /\ CitesIn(u) = {} /\ WarnsIn(u) = {}
  BY ProgramOf, SourcesOf, CitesOf, WarnsOf
<1>2. \A t : RowsIn(u, t) = {}
  BY RowsOf
<1>3. \A w \in {"zone", "setting"} : ValuesIn(u, w) = {}
  BY ValuesOf
<1>4. \A c : CountsIn(u, c) = (IF c = what THEN {n} ELSE {})
  BY CountsOf
<1>5. Does(u) \subseteq Reading0
  BY DoesOf DEF Reading0
<1> HIDE DEF u
<1>6. /\ IsProgram(v) /\ SourcesIn(v) = SourcesIn(s) \cup SourcesIn(u)
      /\ CitesIn(v) = CitesIn(s) \cup CitesIn(u) /\ WarnsIn(v) = WarnsIn(s) \cup WarnsIn(u)
      /\ (\A t : RowsIn(v, t) = RowsIn(s, t) \cup RowsIn(u, t))
      /\ (\A w : ValuesIn(v, w) = ValuesIn(s, w) \cup ValuesIn(u, w))
      /\ (\A c : CountsIn(v, c) = CountsIn(s, c) \cup CountsIn(u, c))
      /\ Does(v) = Does(s) \cup Does(u)
  <2>1. IsProgram(s) /\ IsProgram(u)
    BY <1>1 DEF IsStage
  <2> HIDE DEF v
  <2>2. v = s \o u
    BY DEF v
  <2> QED BY ONLY <2>1, <2>2, JoinFacts
<1>7. ASSUME Ordered(s) PROVE Ordered(v)
  BY <1>2, OrderedIf, <1>1, <1>7, OrderedJoin DEF IsStage
<1> HIDE DEF v
<1>8. IsStage(v)
  BY <1>1, <1>3, <1>5, <1>6 DEF IsStage
<1>9. CitesIn(v) = CitesIn(s) /\ WarnsIn(v) = WarnsIn(s) /\ \A t : RowsIn(v, t) = RowsIn(s, t)
  BY <1>1, <1>2, <1>6
<1>10. \A c : CountsIn(v, c) = CountsIn(s, c) \cup (IF c = what THEN {n} ELSE {})
  BY <1>4, <1>6
<1> QED BY <1>7, <1>8, <1>9, <1>10 DEF v, u

\* What comes after adds no rows.
LEMMA ThenRowless ==
  ASSUME NEW s, IsProgram(s), Ordered(s), NEW u, IsProgram(u), \A t : RowsIn(u, t) = {}
  PROVE  Ordered(s \o u) /\ Ordered(u \o s)
BY OrderedIf, OrderedJoin

\* Stages that only count.
LEMMA CountFacts ==
  ASSUME NEW what, NEW n
  PROVE  LET v == Count(what, n) IN
         /\ IsStage(v) /\ CitesIn(v) = {} /\ WarnsIn(v) = {} /\ (\A t : RowsIn(v, t) = {}) /\ Ordered(v)
         /\ \A c : CountsIn(v, c) = (IF c = what THEN {n} ELSE {})
<1> DEFINE u == Count(what, n)
<1>1. IsProgram(u) /\ SourcesIn(u) = {} /\ CitesIn(u) = {} /\ WarnsIn(u) = {}
  BY ProgramOf, SourcesOf, CitesOf, WarnsOf
<1>2. \A t : RowsIn(u, t) = {}
  BY RowsOf
<1>3. \A w \in {"zone", "setting"} : ValuesIn(u, w) = {}
  BY ValuesOf
<1>4. \A c : CountsIn(u, c) = (IF c = what THEN {n} ELSE {})
  BY CountsOf
<1>5. Does(u) \subseteq Reading0
  BY DoesOf DEF Reading0
<1> HIDE DEF u
<1>6. Ordered(u)
  BY <1>2, OrderedIf
<1>7. IsStage(u)
  BY <1>1, <1>3, <1>5 DEF IsStage
<1> QED BY <1>1, <1>2, <1>4, <1>6, <1>7 DEF u

-----------------------------------------------------------------------------
\* What ending the user hives lays out: three counts.
LEMMA UserHivesWork ==
  LET P == EndUserHives IN
  /\ IsStage(P) /\ CitesIn(P) = {} /\ WarnsIn(P) = {} /\ Ordered(P) /\ \A t : RowsIn(P, t) = {}
  /\ CountsIn(P, "shell_bags") = {Held("NTUSER", LAMBDA h : h.bags) + Held("USRCLASS", LAMBDA h : h.bags)}
  /\ CountsIn(P, "mru_entries") = {Held("NTUSER", LAMBDA h : h.mru)}
  /\ CountsIn(P, "user_assist") = {Held("NTUSER", LAMBDA h : h.launched)}
  /\ \A c : c \notin {"shell_bags", "mru_entries", "user_assist"} => CountsIn(P, c) = {}
<1> DEFINE x == Held("NTUSER", LAMBDA h : h.bags) + Held("USRCLASS", LAMBDA h : h.bags)
           y == Held("NTUSER", LAMBDA h : h.mru)
           z == Held("NTUSER", LAMBDA h : h.launched)
           P == EndUserHives
           p1 == Count("shell_bags", x)
           p2 == p1 \o Count("mru_entries", y)
           p3 == p2 \o Count("user_assist", z)
<1>1. P = p3
  BY DEF EndUserHives
<1> HIDE DEF P, x, y, z
<1>2. /\ IsStage(p1) /\ CitesIn(p1) = {} /\ WarnsIn(p1) = {} /\ (\A t : RowsIn(p1, t) = {}) /\ Ordered(p1)
      /\ \A c : CountsIn(p1, c) = (IF c = "shell_bags" THEN {x} ELSE {})
  BY CountFacts
<1> HIDE DEF p1
<1>3. /\ IsStage(p2) /\ CitesIn(p2) = {} /\ WarnsIn(p2) = {} /\ (\A t : RowsIn(p2, t) = {}) /\ Ordered(p2)
      /\ \A c : CountsIn(p2, c) = CountsIn(p1, c) \cup (IF c = "mru_entries" THEN {y} ELSE {})
  BY <1>2, ThenCount
<1> HIDE DEF p2
<1>4. /\ IsStage(p3) /\ CitesIn(p3) = {} /\ WarnsIn(p3) = {} /\ (\A t : RowsIn(p3, t) = {}) /\ Ordered(p3)
      /\ \A c : CountsIn(p3, c) = CountsIn(p2, c) \cup (IF c = "user_assist" THEN {z} ELSE {})
  BY <1>3, ThenCount
<1> HIDE DEF p3
<1>5. /\ CountsIn(P, "shell_bags") = {x} /\ CountsIn(P, "mru_entries") = {y} /\ CountsIn(P, "user_assist") = {z}
      /\ \A c : c \notin {"shell_bags", "mru_entries", "user_assist"} => CountsIn(P, c) = {}
  BY <1>1, <1>2, <1>3, <1>4
<1> QED BY <1>1, <1>4, <1>5 DEF P, x, y, z

\* What the SYSTEM hives had of the setting is loaded once they are all read.
LEMMA SettingWork ==
  LET P == EndSystem IN
  /\ IsStage(P) /\ CitesIn(P) = {} /\ WarnsIn(P) = {} /\ Ordered(P)
  /\ \A t : RowsIn(P, t) = (IF t = "host_prefetch_setting" /\ setting.id # None
                            THEN {Row(setting.id, setting.found, {}, FALSE)} ELSE {})
  /\ CountsIn(P, "devnodes") = {Held("SYSTEM", LAMBDA h : h.devnodes)}
  /\ \A c : c # "devnodes" => CountsIn(P, c) = {}
<1> DEFINE P == EndSystem
           n == Held("SYSTEM", LAMBDA h : h.devnodes)
           R == {Row(setting.id, setting.found, {}, FALSE)}
           s == When(setting.id # None, LoadPrefetchSetting(setting.id, setting.found))
           v == s \o Count("devnodes", n)
<1>1. P = v
  BY DEF EndSystem
<1> HIDE DEF P, n
<1>2. /\ IsReading(s) /\ CitesIn(s) = {} /\ WarnsIn(s) = {}
      /\ \A t : RowsIn(s, t) = (IF t = "host_prefetch_setting" /\ setting.id # None THEN R ELSE {})
      /\ \A w \in {"zone", "setting"} : ValuesIn(s, w) = {}
  <2>1. CASE setting.id # None
    <3>1. s = insert("host_prefetch_setting", R)
      BY <2>1 DEF When, LoadPrefetchSetting
    <3> HIDE DEF s, R
    <3>2. OnlyRows(s, <<>>, "host_prefetch_setting", R)
      BY <3>1, FirstInsert
    <3> QED BY <2>1, <3>2, NoneFacts DEF OnlyRows, AddsRows
  <2>2. CASE ~(setting.id # None)
    <3>1. s = <<>>
      BY <2>2 DEF When
    <3> HIDE DEF s
    <3> QED BY <2>2, <3>1, NoneFacts, ReadingOf
  <2> QED BY <2>1, <2>2
<1> HIDE DEF s, R
<1>3. IsStage(s) /\ \A c : CountsIn(s, c) = {}
  BY <1>2, StageOfReading
<1>4. Ordered(s)
  BY <1>2, Parents, OrderedIf
<1>5. /\ IsStage(v) /\ CitesIn(v) = {} /\ WarnsIn(v) = {} /\ Ordered(v)
      /\ \A t : RowsIn(v, t) = RowsIn(s, t)
      /\ \A c : CountsIn(v, c) = CountsIn(s, c) \cup (IF c = "devnodes" THEN {n} ELSE {})
  BY <1>2, <1>3, <1>4, ThenCount
<1> HIDE DEF v
<1>6. IsStage(P) /\ CitesIn(P) = {} /\ WarnsIn(P) = {} /\ Ordered(P)
  BY <1>1, <1>5
<1>7. \A t : RowsIn(P, t) = (IF t = "host_prefetch_setting" /\ setting.id # None THEN R ELSE {})
  BY <1>1, <1>2, <1>5
<1>8. CountsIn(P, "devnodes") = {n} /\ \A c : c # "devnodes" => CountsIn(P, c) = {}
  BY <1>1, <1>3, <1>5
<1> QED BY <1>6, <1>7, <1>8 DEF P, n, R

-----------------------------------------------------------------------------
EventDisks == DisksFromEvents([a \in Artefacts |-> IF a \in sources THEN a ELSE None], Records)

\* What of the rows of a stage's program is to be known of.
EventTables == {"event", "event_field", "disk_layout", "disk_partition"}
EventStageRows(t) ==
  CASE t = "event" -> EventRows [] t = "event_field" -> FieldRows
    [] t = "disk_layout" -> DiskRows(EventDisks) [] t = "disk_partition" -> PartitionRows(EventDisks)
    [] OTHER -> {}

\* What the event rows and the disk rows insert.
LEMMA EventInserts ==
  LET E == insert("event", EventRows) \o insert("event_field", FieldRows)
      D == insert("disk_layout", DiskRows(EventDisks)) \o insert("disk_partition", PartitionRows(EventDisks))
  IN  /\ IsReading(E) /\ CitesIn(E) = {} /\ WarnsIn(E) = {} /\ Ordered(E)
      /\ \A t : RowsIn(E, t) = (IF t = "event" THEN EventRows ELSE IF t = "event_field" THEN FieldRows ELSE {})
      /\ \A w \in {"zone", "setting"} : ValuesIn(E, w) = {}
      /\ IsReading(D) /\ CitesIn(D) = {} /\ WarnsIn(D) = {} /\ Ordered(D)
      /\ \A t : RowsIn(D, t) = (IF t = "disk_layout" THEN DiskRows(EventDisks)
                                ELSE IF t = "disk_partition" THEN PartitionRows(EventDisks) ELSE {})
      /\ \A w \in {"zone", "setting"} : ValuesIn(D, w) = {}
BY Parents, TwoInserts

\* The records that no source attests to are warned of, each as of its log.
LEMMA UnattestedWarns ==
  LET sourceOf == [a \in Artefacts |-> IF a \in sources THEN a ELSE None]
      S == {r \in Records : sourceOf[r.file] = None}
      e == Each(SetToSeq(S), LAMBDA r : Warn("EVTX", r.file, "failed"))
  IN  /\ IsReading(e) /\ CitesIn(e) = {} /\ \A t : RowsIn(e, t) = {}
      /\ \A w \in {"zone", "setting"} : ValuesIn(e, w) = {}
      /\ \A w \in WarnsIn(e) : w.artefact = "EVTX"
<1> DEFINE sourceOf == [a \in Artefacts |-> IF a \in sources THEN a ELSE None]
           S == {r \in Records : sourceOf[r.file] = None}
           q == SetToSeq(S)
           e == Each(q, LAMBDA r : Warn("EVTX", r.file, "failed"))
           W == [r \in S |-> {[artefact |-> "EVTX", path |-> r.file, severity |-> "failed"]}]
<1>1. IsFiniteSet(S)
  <2>1. S \in SUBSET Records
    OBVIOUS
  <2> HIDE DEF S
  <2> QED BY <2>1, RecordsFinite, FS_Subset
<1>2. e = [k \in DOMAIN q |-> [do |-> "warn", what |-> {[artefact |-> "EVTX", path |-> q[k].file,
           severity |-> "failed"]}]]
  BY DEF Each, Warn
<1>3. \A r \in S : W[r] = {[artefact |-> "EVTX", path |-> r.file, severity |-> "failed"]}
  OBVIOUS
<1> HIDE DEF S, e, W
<1>4. DOMAIN e = DOMAIN SetToSeq(S) /\ e = [k \in DOMAIN e |-> e[k]]
  BY <1>2
<1>5. \A k \in DOMAIN e : SetToSeq(S)[k] \in S =>
           e[k].do = "warn" /\ e[k].what = W[SetToSeq(S)[k]]
  BY <1>2, <1>3
<1>6. /\ IsReading(e) /\ CitesIn(e) = {} /\ \A t : RowsIn(e, t) = {}
      /\ \A w \in {"zone", "setting"} : ValuesIn(e, w) = {}
      /\ WarnsIn(e) = UNION {W[x] : x \in S}
  BY ONLY <1>1, <1>4, <1>5, WarnsOfSet
<1>7. \A w \in WarnsIn(e) : w.artefact = "EVTX"
  BY <1>3, <1>6
<1> QED BY <1>6, <1>7 DEF e, S

\* What ending the event logs lays out.
LEMMA EventsWork ==
  LET P == EndEventLogs IN
  /\ IsStage(P) /\ Ordered(P)
  /\ CitesIn(P) = EventCites \cup recordDisks(EventDisks)
  /\ \A t : RowsIn(P, t) = EventStageRows(t)
  /\ \A w \in WarnsIn(P) : w.artefact = "TimeZoneInformation" => zone = None
  /\ zone = None => \E w \in WarnsIn(P) : w.artefact = "TimeZoneInformation"
  /\ CountsIn(P, "event_records") = {Cardinality(Records)}
  /\ \A c : c # "event_records" => CountsIn(P, c) = {}
<1> DEFINE sourceOf == [a \in Artefacts |-> IF a \in sources THEN a ELSE None]
           S == {r \in Records : sourceOf[r.file] = None}
           e == Each(SetToSeq(S), LAMBDA r : Warn("EVTX", r.file, "failed"))
           E == insert("event", EventRows) \o insert("event_field", FieldRows)
           D == insert("disk_layout", DiskRows(EventDisks)) \o insert("disk_partition", PartitionRows(EventDisks))
           C == recordDisks(EventDisks)
           n == Cardinality(Records)
           N == When(zone = None, Absent("TimeZoneInformation", None))
           wz == [artefact |-> "TimeZoneInformation", path |-> None, severity |-> "absent"]
           p2 == e \o Observe(EventCites)
           p3 == p2 \o E
           p4 == p3 \o D
           p5 == p4 \o Observe(C)
           p6 == p5 \o Count("event_records", n)
           p7 == p6 \o N
           P == EndEventLogs
<1>1. P = p7
  BY KeptRecords DEF LoadEvents, LoadDisks, DiskRows, PartitionRows, EndEventLogs, EventDisks
<1>2. /\ IsReading(e) /\ CitesIn(e) = {} /\ \A t : RowsIn(e, t) = {}
      /\ \A w \in {"zone", "setting"} : ValuesIn(e, w) = {}
      /\ \A w \in WarnsIn(e) : w.artefact = "EVTX"
  BY UnattestedWarns
<1>3. /\ IsReading(E) /\ CitesIn(E) = {} /\ WarnsIn(E) = {} /\ Ordered(E)
      /\ \A t : RowsIn(E, t) = (IF t = "event" THEN EventRows ELSE IF t = "event_field" THEN FieldRows ELSE {})
      /\ \A w \in {"zone", "setting"} : ValuesIn(E, w) = {}
  BY EventInserts
<1>4. /\ IsReading(D) /\ CitesIn(D) = {} /\ WarnsIn(D) = {} /\ Ordered(D)
      /\ \A t : RowsIn(D, t) = (IF t = "disk_layout" THEN DiskRows(EventDisks)
                                ELSE IF t = "disk_partition" THEN PartitionRows(EventDisks) ELSE {})
      /\ \A w \in {"zone", "setting"} : ValuesIn(D, w) = {}
  BY EventInserts
<1>5. /\ IsReading(N) /\ CitesIn(N) = {} /\ (\A t : RowsIn(N, t) = {})
      /\ \A w \in {"zone", "setting"} : ValuesIn(N, w) = {}
      /\ WarnsIn(N) = (IF zone = None THEN {wz} ELSE {})
  <2> DEFINE c == zone = None
  <2>1. c \in BOOLEAN /\ N = When(c, Warn("TimeZoneInformation", None, "absent"))
    BY DEF Absent
  <2> HIDE DEF c, N
  <2>2. /\ IsReading(N) /\ CitesIn(N) = {} /\ (\A t : RowsIn(N, t) = {})
        /\ \A w \in {"zone", "setting"} : ValuesIn(N, w) = {}
        /\ WarnsIn(N) = (IF c THEN {wz} ELSE {})
    BY <2>1, WarnFacts
  <2> QED BY <2>2 DEF c
<1>6. wz.artefact = "TimeZoneInformation"
  OBVIOUS
<1> HIDE DEF e, E, D, C, n, N, wz, P
<1>7. /\ IsReading(p2) /\ CitesIn(p2) = EventCites /\ WarnsIn(p2) = WarnsIn(e)
      /\ \A t : RowsIn(p2, t) = {}
      /\ \A w \in {"zone", "setting"} : ValuesIn(p2, w) = {}
  <2>1. IsReading(e)
    BY <1>2
  <2>2. /\ IsReading(p2) /\ CitesIn(p2) = CitesIn(e) \cup EventCites /\ WarnsIn(p2) = WarnsIn(e)
        /\ \A t : RowsIn(p2, t) = RowsIn(e, t)
        /\ \A w \in {"zone", "setting"} : ValuesIn(p2, w) = ValuesIn(e, w)
    BY ONLY <2>1, ThenObserve
  <2> HIDE DEF p2
  <2> QED BY <1>2, <2>2
<1> HIDE DEF p2
<1>8. /\ IsReading(p3) /\ CitesIn(p3) = CitesIn(p2) \cup CitesIn(E)
      /\ WarnsIn(p3) = WarnsIn(p2) \cup WarnsIn(E)
      /\ \A t : RowsIn(p3, t) = RowsIn(p2, t) \cup RowsIn(E, t)
      /\ \A w : ValuesIn(p3, w) = ValuesIn(p2, w) \cup ValuesIn(E, w)
  <2>1. IsReading(p2) /\ IsReading(E)
    BY <1>3, <1>7
  <2> QED BY ONLY <2>1, ThenRead
<1>9. Ordered(p3)
  BY <1>3, <1>7, ThenRowless DEF IsReading
<1> HIDE DEF p3
<1>10. /\ IsReading(p4) /\ CitesIn(p4) = CitesIn(p3) \cup CitesIn(D)
       /\ WarnsIn(p4) = WarnsIn(p3) \cup WarnsIn(D)
       /\ \A t : RowsIn(p4, t) = RowsIn(p3, t) \cup RowsIn(D, t)
       /\ \A w : ValuesIn(p4, w) = ValuesIn(p3, w) \cup ValuesIn(D, w)
  BY <1>4, <1>8, ThenRead
<1>11. Ordered(p4)
  BY <1>4, <1>8, <1>7, <1>3, Parents, <1>9, OrderedJoin DEF IsReading
<1> HIDE DEF p4
<1>12. /\ IsReading(p5) /\ CitesIn(p5) = CitesIn(p4) \cup C /\ WarnsIn(p5) = WarnsIn(p4)
       /\ \A t : RowsIn(p5, t) = RowsIn(p4, t)
       /\ \A w \in {"zone", "setting"} : ValuesIn(p5, w) = ValuesIn(p4, w)
  BY <1>10, ThenObserve
<1>13. Ordered(p5)
  <2> DEFINE u == Observe(C)
  <2>1. IsProgram(p4)
    BY <1>10 DEF IsReading
  <2>2. IsProgram(u) /\ \A t : RowsIn(u, t) = {}
    BY ProgramOf, RowsOf
  <2> HIDE DEF u
  <2>3. Ordered(p4 \o u)
    BY <1>11, <2>1, <2>2, ThenRowless
  <2> QED BY <2>3 DEF u
<1> HIDE DEF p5
<1>14. \A w \in {"zone", "setting"} : ValuesIn(p5, w) = {}
  BY <1>3, <1>4, <1>7, <1>8, <1>10, <1>12
<1>15. IsStage(p5) /\ \A c : CountsIn(p5, c) = {}
  BY <1>12, <1>14, StageOfReading
<1>16. /\ IsStage(p6) /\ CitesIn(p6) = CitesIn(p5) /\ WarnsIn(p6) = WarnsIn(p5)
       /\ \A t : RowsIn(p6, t) = RowsIn(p5, t)
       /\ \A c : CountsIn(p6, c) = CountsIn(p5, c) \cup (IF c = "event_records" THEN {n} ELSE {})
       /\ Ordered(p6)
  BY <1>13, <1>15, ThenCount
<1> HIDE DEF p6
<1>17. /\ IsStage(N) /\ IsProgram(N) /\ IsProgram(p6) /\ \A c : CountsIn(N, c) = {}
  BY <1>5, <1>16, StageOfReading DEF IsStage
<1>18. /\ IsProgram(p7) /\ SourcesIn(p7) = SourcesIn(p6) \cup SourcesIn(N)
       /\ CitesIn(p7) = CitesIn(p6) \cup CitesIn(N) /\ WarnsIn(p7) = WarnsIn(p6) \cup WarnsIn(N)
       /\ (\A t : RowsIn(p7, t) = RowsIn(p6, t) \cup RowsIn(N, t))
       /\ (\A w : ValuesIn(p7, w) = ValuesIn(p6, w) \cup ValuesIn(N, w))
       /\ (\A c : CountsIn(p7, c) = CountsIn(p6, c) \cup CountsIn(N, c))
       /\ Does(p7) = Does(p6) \cup Does(N)
  BY ONLY <1>17, JoinFacts
<1>19. Ordered(p7)
  BY <1>5, <1>16, <1>17, ThenRowless
<1> HIDE DEF p7
<1>20. IsStage(p7)
  BY <1>16, <1>17, <1>18 DEF IsStage
<1>21. CitesIn(P) = EventCites \cup C
  BY <1>1, <1>3, <1>4, <1>5, <1>7, <1>8, <1>10, <1>12, <1>16, <1>18
<1>22. \A t : RowsIn(P, t) = RowsIn(E, t) \cup RowsIn(D, t)
  BY <1>1, <1>5, <1>7, <1>8, <1>10, <1>12, <1>16, <1>18
<1>23. \A t : RowsIn(P, t) = EventStageRows(t)
  BY <1>3, <1>4, <1>22 DEF EventStageRows
<1>24. WarnsIn(P) = WarnsIn(e) \cup (IF zone = None THEN {wz} ELSE {})
  BY <1>1, <1>3, <1>4, <1>5, <1>7, <1>8, <1>10, <1>12, <1>16, <1>18
<1>25. /\ \A w \in WarnsIn(P) : w.artefact = "TimeZoneInformation" => zone = None
       /\ zone = None => \E w \in WarnsIn(P) : w.artefact = "TimeZoneInformation"
  BY <1>2, <1>6, <1>24
<1>26. CountsIn(P, "event_records") = {n} /\ \A c : c # "event_records" => CountsIn(P, c) = {}
  BY <1>1, <1>15, <1>16, <1>17, <1>18
<1> QED BY <1>1, <1>19, <1>20, <1>21, <1>23, <1>25, <1>26 DEF P, C, n

-----------------------------------------------------------------------------
TargetRows ==
  {Row(t.source, t.of.at, {FirstOf(<<t.of.path, t.of.recorded>>)}, t.of.partial) : t \in Targets}

\* What ending the file activity lays out.
LEMMA TargetsWork ==
  LET P == EndFileActivity IN
  /\ IsStage(P) /\ Ordered(P) /\ CitesIn(P) = {} /\ WarnsIn(P) = {}
  /\ \A t : RowsIn(P, t) = (IF t = "file_target" THEN TargetRows ELSE {})
  /\ CountsIn(P, "file_targets") = {Cardinality(Targets)}
  /\ \A c : c # "file_targets" => CountsIn(P, c) = {}
<1> DEFINE P == EndFileActivity
           n == Cardinality(Targets)
           s == insert("file_target", TargetRows)
           v == s \o Count("file_targets", n)
<1>1. P = v
  BY DEF EndFileActivity, LoadFileTargets, TargetRows
<1> HIDE DEF P, n
<1>2. OnlyRows(s, <<>>, "file_target", TargetRows)
  BY FirstInsert
<1> HIDE DEF s
<1>3. /\ IsReading(s) /\ CitesIn(s) = {} /\ WarnsIn(s) = {}
      /\ (\A t : RowsIn(s, t) = (IF t = "file_target" THEN TargetRows ELSE {}))
      /\ \A w \in {"zone", "setting"} : ValuesIn(s, w) = {}
  BY <1>2, NoneFacts DEF OnlyRows, AddsRows
<1>4. IsStage(s) /\ \A c : CountsIn(s, c) = {}
  BY <1>3, StageOfReading
<1>5. Ordered(s)
  BY <1>3, Parents, OrderedIf
<1>6. /\ IsStage(v) /\ CitesIn(v) = CitesIn(s) /\ WarnsIn(v) = WarnsIn(s) /\ Ordered(v)
      /\ \A t : RowsIn(v, t) = RowsIn(s, t)
      /\ \A c : CountsIn(v, c) = CountsIn(s, c) \cup (IF c = "file_targets" THEN {n} ELSE {})
  BY <1>4, <1>5, ThenCount
<1> HIDE DEF v
<1>7. \A t : RowsIn(P, t) = (IF t = "file_target" THEN TargetRows ELSE {})
  BY <1>1, <1>3, <1>6
<1>8. CountsIn(P, "file_targets") = {n} /\ \A c : c # "file_targets" => CountsIn(P, c) = {}
  BY <1>1, <1>4, <1>6
<1>9. IsStage(P) /\ Ordered(P) /\ CitesIn(P) = {} /\ WarnsIn(P) = {}
  BY <1>1, <1>3, <1>6
<1> QED BY <1>7, <1>8, <1>9 DEF P, n

\* A thing's file and the thing.
LEMMA FromFacts ==
  ASSUME NEW a, NEW thing
  PROVE  From(a, thing).source = a /\ From(a, thing).of = thing
  BY DEF From

\* A row for every shortcut and every entry of a jump list, cited as its file was read.
LEMMA TargetRowFacts ==
  /\ \A r \in TargetRows : r.source \in AllRead("LNK") \cup AllRead("JUMPLIST")
  /\ \A a \in AllRead("LNK") \cup AllRead("JUMPLIST") : \A o \in FileCites(a) : HeldBy(o, TargetRows)
  /\ \A r \in TargetRows : CitedBy(r, FileCites(r.source))
<1>1. ASSUME NEW t \in Targets
      PROVE  \/ t.source \in AllRead("LNK") /\ t.of = Holds[t.source].link
             \/ t.source \in AllRead("JUMPLIST") /\ t.of \in Holds[t.source].entries
  <2>1. CASE \E a \in AllRead("LNK") : t = From(a, Holds[a].link)
    BY <2>1, FromFacts
  <2>2. CASE \E a \in AllRead("JUMPLIST") : \E e \in Holds[a].entries : t = From(a, e)
    BY <2>2, FromFacts
  <2> QED BY <2>1, <2>2 DEF Targets
<1>2. ASSUME NEW a \in AllRead("LNK")
      PROVE  /\ a \in Artefacts /\ Kind[a] = "LNK" /\ Holds[a].link.recorded = None
             /\ FileCites(a) = {Observation(a, "shell_link", Holds[a].link.at, Holds[a].link.path)}
  BY RecordsAssumption DEF AllRead, FileCites, recordLink
<1>3. ASSUME NEW a \in AllRead("JUMPLIST")
      PROVE  /\ a \in Artefacts
             /\ FileCites(a) = UNION {recordJumpEntry(a, e) : e \in Holds[a].entries}
  BY DEF AllRead, FileCites
<1>4. \A path : FirstOf(<<path, None>>) # None => FirstOf(<<path, None>>) = path
  <2> SUFFICES ASSUME NEW path, FirstOf(<<path, None>>) # None PROVE FirstOf(<<path, None>>) = path
    OBVIOUS
  <2>1. CASE path # None
    BY <2>1, FirstOfTwo
  <2>2. CASE path = None
    <3> DEFINE names == <<path, None>>
    <3>1. DOMAIN names = 1..2 /\ names[1] = path /\ names[2] = None
      OBVIOUS
    <3> HIDE DEF names
    <3>2. {k \in DOMAIN names : names[k] # None} = {}
      BY <2>2, <3>1
    <3>3. FirstOf(names) = None
      BY <3>2 DEF FirstOf
    <3> QED BY <3>3 DEF names
  <2> QED BY <2>1, <2>2
<1>5. ASSUME NEW r \in TargetRows
      PROVE  r.source \in AllRead("LNK") \cup AllRead("JUMPLIST") /\ CitedBy(r, FileCites(r.source))
  <2>1. PICK t \in Targets :
          r = Row(t.source, t.of.at, {FirstOf(<<t.of.path, t.of.recorded>>)}, t.of.partial)
    BY DEF TargetRows
  <2>2. r.source = t.source
    BY <2>1, RowFacts
  <2>3. CASE t.source \in AllRead("LNK") /\ t.of = Holds[t.source].link
    <3> DEFINE a == t.source
               l == Holds[a].link
               f == FirstOf(<<l.path, l.recorded>>)
    <3>1. l.recorded = None /\ Observation(a, "shell_link", l.at, l.path) \in FileCites(a)
      BY <1>2, <2>3
    <3>2. {f} \ {None} # {} => l.path \in {f} \ {None}
      <4>1. f # None => f = l.path
        BY <1>4, <3>1
      <4> HIDE DEF f, l
      <4> QED BY <4>1
    <3>3. r = Row(a, l.at, {f}, l.partial)
      BY <2>1, <2>3
    <3> HIDE DEF l, f
    <3>4. CitedBy(Row(a, l.at, {f}, l.partial), FileCites(a))
      BY <3>1, <3>2, CitedFacts
    <3> QED BY <2>2, <2>3, <3>3, <3>4
  <2>4. CASE t.source \in AllRead("JUMPLIST") /\ t.of \in Holds[t.source].entries
    <3> DEFINE a == t.source
               e == t.of
               f == FirstOf(<<e.path, e.recorded>>)
    <3>1. recordJumpEntry(a, e) \subseteq FileCites(a)
      BY <1>3, <2>4
    <3>2. Observation(a, "jump_list_entry", e.at, f) \in FileCites(a)
      BY <3>1 DEF recordJumpEntry
    <3>3. r = Row(a, e.at, {f}, e.partial)
      BY <2>1
    <3> HIDE DEF a, e, f
    <3>4. {f} \ {None} # {} => f \in {f} \ {None}
      OBVIOUS
    <3>5. CitedBy(Row(a, e.at, {f}, e.partial), FileCites(a))
      BY <3>2, <3>4, CitedFacts
    <3> QED BY <2>2, <2>4, <3>3, <3>5 DEF a
  <2> QED BY <1>1, <2>3, <2>4
<1>6. ASSUME NEW a \in AllRead("LNK"), NEW o \in FileCites(a) PROVE HeldBy(o, TargetRows)
  <2> DEFINE l == Holds[a].link
             t == From(a, l)
             f == FirstOf(<<t.of.path, t.of.recorded>>)
  <2>1. o = Observation(a, "shell_link", l.at, l.path)
    BY <1>2
  <2>2. t \in Targets /\ t.source = a /\ t.of = l
    BY FromFacts DEF Targets
  <2>3. Row(t.source, t.of.at, {f}, t.of.partial) \in TargetRows
    BY <2>2 DEF TargetRows
  <2> HIDE DEF t, l, f
  <2>4. Row(a, l.at, {f}, l.partial) \in TargetRows
    BY <2>2, <2>3
  <2>5. HeldBy(Observation(a, "shell_link", l.at, l.path), TargetRows)
    BY <2>4, HeldFacts
  <2> QED BY <2>1, <2>5
<1>7. ASSUME NEW a \in AllRead("JUMPLIST"), NEW o \in FileCites(a) PROVE HeldBy(o, TargetRows)
  <2>1. PICK e \in Holds[a].entries : o \in recordJumpEntry(a, e)
    BY <1>3
  <2> DEFINE t == From(a, e)
             f == FirstOf(<<t.of.path, t.of.recorded>>)
             g == FirstOf(<<e.path, e.recorded>>)
  <2>2. o = Observation(a, "jump_list_entry", e.at, g)
    BY <2>1 DEF recordJumpEntry
  <2>3. t \in Targets /\ t.source = a /\ t.of = e
    BY FromFacts DEF Targets
  <2>4. Row(t.source, t.of.at, {f}, t.of.partial) \in TargetRows
    BY <2>3 DEF TargetRows
  <2> HIDE DEF t, f, g
  <2>5. Row(a, e.at, {f}, e.partial) \in TargetRows
    BY <2>3, <2>4
  <2>6. HeldBy(Observation(a, "jump_list_entry", e.at, g), TargetRows)
    BY <2>5, HeldFacts
  <2> QED BY <2>2, <2>6
<1> QED BY <1>5, <1>6, <1>7

-----------------------------------------------------------------------------
RunRows == {Row(r.source, None, {r.of.path}, r.of.partial) : r \in Launches}
ExecutionRows == UNION {{Row(r.source, None, {t}, FALSE) : t \in r.of.times} : r \in Launches}
VolumeRows == UNION {{Row(r.source, None, {v}, FALSE) : v \in r.of.serials} : r \in Launches}
TouchedRows == UNION {{Row(r.source, None, {f}, FALSE) : f \in r.of.files} : r \in Launches}
LaunchTables == {"prefetch_run", "prefetch_execution", "prefetch_volume", "prefetch_file"}
LaunchRows(t) ==
  CASE t = "prefetch_run" -> RunRows [] t = "prefetch_execution" -> ExecutionRows
    [] t = "prefetch_volume" -> VolumeRows [] t = "prefetch_file" -> TouchedRows [] OTHER -> {}
Executions == UNION {{<<l.source, t>> : t \in l.of.times} : l \in Launches}

\* What ending prefetch lays out.
LEMMA LaunchesWork ==
  LET P == EndPrefetch IN
  /\ IsStage(P) /\ Ordered(P) /\ CitesIn(P) = {} /\ WarnsIn(P) = {}
  /\ \A t : RowsIn(P, t) = LaunchRows(t)
  /\ CountsIn(P, "prefetch_runs") = {Cardinality(Launches)}
  /\ CountsIn(P, "prefetch_executions") = {Cardinality(Executions)}
  /\ \A c : c \notin {"prefetch_runs", "prefetch_executions"} => CountsIn(P, c) = {}
<1> DEFINE P == EndPrefetch
           m == Cardinality(Launches)
           n == Cardinality(Executions)
           v1 == insert("prefetch_run", RunRows)
           u2 == insert("prefetch_execution", ExecutionRows)
           u3 == insert("prefetch_volume", VolumeRows)
           u4 == insert("prefetch_file", TouchedRows)
           v2 == v1 \o u2
           v3 == v2 \o u3
           v4 == v3 \o u4
           v5 == v4 \o Count("prefetch_runs", m)
           v6 == v5 \o Count("prefetch_executions", n)
<1>1. P = v6
  BY DEF EndPrefetch, LoadPrefetchRuns, RunRows, ExecutionRows, VolumeRows, TouchedRows, Executions
<1> HIDE DEF P, m, n
<1>2. OnlyRows(v1, <<>>, "prefetch_run", RunRows)
  BY FirstInsert
<1>3. IsReading(v1)
  BY <1>2 DEF OnlyRows
<1>4. OnlyRows(v2, v1, "prefetch_execution", ExecutionRows)
  BY <1>3, AndInsert
<1>5. IsReading(v2)
  BY <1>4 DEF OnlyRows
<1>6. OnlyRows(v3, v2, "prefetch_volume", VolumeRows)
  BY <1>5, AndInsert
<1>7. IsReading(v3)
  BY <1>6 DEF OnlyRows
<1>8. OnlyRows(v4, v3, "prefetch_file", TouchedRows)
  BY <1>7, AndInsert
<1>9. /\ IsProgram(u2) /\ IsProgram(u3) /\ IsProgram(u4)
      /\ \A t : t # "prefetch_execution" => RowsIn(u2, t) = {}
      /\ \A t : t # "prefetch_volume" => RowsIn(u3, t) = {}
      /\ \A t : t # "prefetch_file" => RowsIn(u4, t) = {}
      /\ \A t : t # "prefetch_run" => RowsIn(v1, t) = {}
  BY ProgramOf, RowsOf
<1> HIDE DEF v1, u2, u3, u4
<1>10. \A t \in DOMAIN ParentOf :
         /\ RowsIn(v1, t) = {} /\ RowsIn(u2, ParentOf[t]) = {} /\ RowsIn(u3, ParentOf[t]) = {}
         /\ RowsIn(u4, ParentOf[t]) = {}
  BY <1>9, Parents
<1>11. Ordered(v1) /\ Ordered(u2) /\ Ordered(u3) /\ Ordered(u4)
  BY <1>10, OrderedIf
<1>12. Ordered(v2)
  BY <1>3, <1>9, <1>10, <1>11, OrderedJoin DEF IsReading
<1> HIDE DEF v2
<1>13. Ordered(v3)
  BY <1>5, <1>9, <1>10, <1>11, <1>12, OrderedJoin DEF IsReading
<1> HIDE DEF v3
<1>14. Ordered(v4)
  BY <1>7, <1>9, <1>10, <1>11, <1>13, OrderedJoin DEF IsReading
<1> HIDE DEF v4
<1>15. \A t : RowsIn(v2, t) = (IF t = "prefetch_run" THEN RunRows ELSE {})
                               \cup (IF t = "prefetch_execution" THEN ExecutionRows ELSE {})
  BY <1>2, <1>4, NoneFacts DEF OnlyRows, AddsRows
<1>16. \A t : RowsIn(v4, t) = RowsIn(v2, t) \cup (IF t = "prefetch_volume" THEN VolumeRows ELSE {})
                               \cup (IF t = "prefetch_file" THEN TouchedRows ELSE {})
  BY <1>6, <1>8 DEF OnlyRows, AddsRows
<1>17. \A t : RowsIn(v4, t) = LaunchRows(t)
  BY <1>15, <1>16 DEF LaunchRows
<1>18. IsReading(v4) /\ CitesIn(v4) = {} /\ WarnsIn(v4) = {} /\ \A w \in {"zone", "setting"} : ValuesIn(v4, w) = {}
  BY <1>2, <1>4, <1>6, <1>8, NoneFacts DEF OnlyRows, AddsRows
<1>19. IsStage(v4) /\ \A c : CountsIn(v4, c) = {}
  BY <1>18, StageOfReading
<1>20. /\ IsStage(v5) /\ CitesIn(v5) = CitesIn(v4) /\ WarnsIn(v5) = WarnsIn(v4) /\ Ordered(v5)
       /\ \A t : RowsIn(v5, t) = RowsIn(v4, t)
       /\ \A c : CountsIn(v5, c) = CountsIn(v4, c) \cup (IF c = "prefetch_runs" THEN {m} ELSE {})
  BY <1>14, <1>19, ThenCount
<1> HIDE DEF v5
<1>21. /\ IsStage(v6) /\ CitesIn(v6) = CitesIn(v5) /\ WarnsIn(v6) = WarnsIn(v5) /\ Ordered(v6)
       /\ \A t : RowsIn(v6, t) = RowsIn(v5, t)
       /\ \A c : CountsIn(v6, c) = CountsIn(v5, c) \cup (IF c = "prefetch_executions" THEN {n} ELSE {})
  BY <1>20, ThenCount
<1> HIDE DEF v6
<1>22. /\ CountsIn(P, "prefetch_runs") = {m} /\ CountsIn(P, "prefetch_executions") = {n}
       /\ \A c : c \notin {"prefetch_runs", "prefetch_executions"} => CountsIn(P, c) = {}
  BY <1>1, <1>19, <1>20, <1>21
<1>23. IsStage(P) /\ Ordered(P) /\ CitesIn(P) = {} /\ WarnsIn(P) = {} /\ \A t : RowsIn(P, t) = LaunchRows(t)
  BY <1>1, <1>17, <1>18, <1>20, <1>21
<1> QED BY <1>22, <1>23 DEF P, m, n

\* A row for every launch and every volume it touched, cited as its file was read.
LEMMA LaunchRowFacts ==
  /\ \A r \in RunRows \cup ExecutionRows \cup VolumeRows \cup TouchedRows : r.source \in AllRead("PREFETCH")
  /\ \A r \in ExecutionRows \cup VolumeRows \cup TouchedRows :
       r.partial = FALSE /\ \E p \in RunRows : p.source = r.source
  /\ \A a \in AllRead("PREFETCH") : \A o \in FileCites(a) : HeldBy(o, RunRows) \/ HeldBy(o, VolumeRows)
  /\ \A r \in RunRows \cup VolumeRows : CitedBy(r, FileCites(r.source))
<1>1. ASSUME NEW l \in Launches
      PROVE  l.source \in AllRead("PREFETCH") /\ l.of = Holds[l.source].launch
  BY FromFacts DEF Launches
<1>2. ASSUME NEW a \in AllRead("PREFETCH")
      PROVE  /\ From(a, Holds[a].launch) \in Launches
             /\ FileCites(a) = {Observation(a, "prefetch.run", None, Holds[a].launch.path)}
                  \cup {Observation(a, "prefetch.volume", None, v) : v \in Holds[a].launch.serials}
  BY DEF AllRead, FileCites, recordPrefetchRun, Launches
<1>3. ASSUME NEW l \in Launches PROVE Row(l.source, None, {l.of.path}, l.of.partial) \in RunRows
  BY DEF RunRows
<1>4. ASSUME NEW l \in Launches, NEW at, NEW names
      PROVE  LET r == Row(l.source, at, names, FALSE) IN
             r.source \in AllRead("PREFETCH") /\ r.partial = FALSE /\ \E p \in RunRows : p.source = r.source
  <2> DEFINE r == Row(l.source, at, names, FALSE)
             p == Row(l.source, None, {l.of.path}, l.of.partial)
  <2>1. r.source = l.source /\ r.partial = FALSE
    BY DEF Row
  <2>2. p.source = l.source
    BY DEF Row
  <2>3. p \in RunRows
    BY <1>3
  <2> HIDE DEF r, p
  <2>4. r.source \in AllRead("PREFETCH") /\ r.partial = FALSE /\ \E q \in RunRows : q.source = r.source
    BY <1>1, <2>1, <2>2, <2>3
  <2> QED BY <2>4 DEF r
<1>5. ASSUME NEW r \in RunRows
      PROVE  r.source \in AllRead("PREFETCH") /\ CitedBy(r, FileCites(r.source))
  <2>1. PICK l \in Launches : r = Row(l.source, None, {l.of.path}, l.of.partial)
    BY DEF RunRows
  <2> DEFINE a == l.source
             x == l.of
  <2>2. a \in AllRead("PREFETCH") /\ x = Holds[a].launch
    BY <1>1
  <2>3. Observation(a, "prefetch.run", None, x.path) \in FileCites(a)
    BY <1>2, <2>2
  <2>4. r.source = a
    BY <2>1, RowFacts
  <2> HIDE DEF a, x
  <2>5. {x.path} \ {None} # {} => x.path \in {x.path} \ {None}
    OBVIOUS
  <2>6. CitedBy(Row(a, None, {x.path}, x.partial), FileCites(a))
    BY <2>3, <2>5, CitedFacts
  <2> QED BY <2>1, <2>2, <2>4, <2>6 DEF a, x
<1>6. ASSUME NEW r \in VolumeRows
      PROVE  CitedBy(r, FileCites(r.source))
  <2>1. PICK l \in Launches : \E v \in l.of.serials : r = Row(l.source, None, {v}, FALSE)
    BY DEF VolumeRows
  <2>2. PICK v \in l.of.serials : r = Row(l.source, None, {v}, FALSE)
    BY <2>1
  <2> DEFINE a == l.source
  <2>3. a \in AllRead("PREFETCH") /\ v \in Holds[a].launch.serials
    BY <1>1
  <2>4. Observation(a, "prefetch.volume", None, v) \in FileCites(a)
    BY <1>2, <2>3
  <2>5. r.source = a
    BY <2>2 DEF Row
  <2> HIDE DEF a
  <2>6. {v} \ {None} # {} => v \in {v} \ {None}
    OBVIOUS
  <2>7. CitedBy(Row(a, None, {v}, FALSE), FileCites(a))
    BY <2>4, <2>6, CitedFacts
  <2> QED BY <2>2, <2>5, <2>7 DEF a
<1>7. ASSUME NEW a \in AllRead("PREFETCH"), NEW o \in FileCites(a)
      PROVE  HeldBy(o, RunRows) \/ HeldBy(o, VolumeRows)
  <2> DEFINE x == Holds[a].launch
             l == From(a, x)
  <2>1. l \in Launches /\ l.source = a /\ l.of = x
    BY <1>2, FromFacts
  <2>2. FileCites(a) = {Observation(a, "prefetch.run", None, x.path)}
                  \cup {Observation(a, "prefetch.volume", None, v) : v \in x.serials}
    BY <1>2
  <2> HIDE DEF x, l
  <2>3. CASE o = Observation(a, "prefetch.run", None, x.path)
    BY <1>3, <2>1, HeldFacts, <2>3
  <2>4. CASE \E v \in x.serials : o = Observation(a, "prefetch.volume", None, v)
    <3>1. PICK v \in x.serials : o = Observation(a, "prefetch.volume", None, v)
      BY <2>4
    <3>2. Row(a, None, {v}, FALSE) \in VolumeRows
      <4>1. Row(l.source, None, {v}, FALSE)
              \in {Row(l.source, None, {w}, FALSE) : w \in l.of.serials}
        BY <2>1
      <4>2. Row(l.source, None, {v}, FALSE) \in VolumeRows
        BY <2>1, <4>1 DEF VolumeRows
      <4> QED BY <2>1, <4>2
    <3>3. HeldBy(Observation(a, "prefetch.volume", None, v), VolumeRows)
      BY <3>2, HeldFacts
    <3> QED BY <3>1, <3>3
  <2> QED BY <2>2, <2>3, <2>4
<1>8. \A r \in ExecutionRows : \E l \in Launches : \E t : r = Row(l.source, None, {t}, FALSE)
  BY DEF ExecutionRows
<1>9. \A r \in VolumeRows : \E l \in Launches : \E v : r = Row(l.source, None, {v}, FALSE)
  BY DEF VolumeRows
<1>10. \A r \in TouchedRows : \E l \in Launches : \E f : r = Row(l.source, None, {f}, FALSE)
  BY DEF TouchedRows
<1>11. \A r \in ExecutionRows \cup VolumeRows \cup TouchedRows :
         r.source \in AllRead("PREFETCH") /\ r.partial = FALSE /\ \E p \in RunRows : p.source = r.source
  <2> SUFFICES ASSUME NEW r \in ExecutionRows \cup VolumeRows \cup TouchedRows
               PROVE  r.source \in AllRead("PREFETCH") /\ r.partial = FALSE /\
                           \E p \in RunRows : p.source = r.source
    OBVIOUS
  <2>1. \E l \in Launches : \E at, names : r = Row(l.source, at, names, FALSE)
    <3>1. CASE r \in ExecutionRows
      <4>1. PICK l \in Launches : \E t : r = Row(l.source, None, {t}, FALSE)
        BY <1>8, <3>1
      <4> QED BY <4>1
    <3>2. CASE r \in VolumeRows
      <4>1. PICK l \in Launches : \E v : r = Row(l.source, None, {v}, FALSE)
        BY <1>9, <3>2
      <4> QED BY <4>1
    <3>3. CASE r \in TouchedRows
      <4>1. PICK l \in Launches : \E f : r = Row(l.source, None, {f}, FALSE)
        BY <1>10, <3>3
      <4> QED BY <4>1
    <3> QED BY <3>1, <3>2, <3>3
  <2>2. PICK l \in Launches : \E at, names : r = Row(l.source, at, names, FALSE)
    BY <2>1
  <2>3. PICK at, names : r = Row(l.source, at, names, FALSE)
    BY <2>2
  <2> QED BY <1>4, <2>3
<1>12. \A r \in RunRows \cup ExecutionRows \cup VolumeRows \cup TouchedRows : r.source \in AllRead("PREFETCH")
  BY <1>5, <1>11
<1> QED BY <1>5, <1>6, <1>7, <1>11, <1>12

-----------------------------------------------------------------------------
\* Discovery only warns.
LEMMA DiscoveryWork ==
  LET P == Each(Missing, LAMBDA kind : Absent(kind, kind))
             \o Each(Unlooked, LAMBDA kind : Warn(kind, kind, "failed"))
  IN  /\ IsStage(P) /\ CitesIn(P) = {} /\ (\A t : RowsIn(P, t) = {}) /\ Ordered(P)
      /\ \A w \in WarnsIn(P) : w.artefact # "TimeZoneInformation"
      /\ \A c : CountsIn(P, c) = {}
<1> DEFINE m == Len(Missing)
           n == Len(Unlooked)
           s == Each(Missing, LAMBDA kind : Absent(kind, kind))
           u == Each(Unlooked, LAMBDA kind : Warn(kind, kind, "failed"))
<1>1. /\ m \in Nat /\ DOMAIN Missing = 1..m /\ n \in Nat /\ DOMAIN Unlooked = 1..n
      /\ (\A k \in 1..m : Missing[k] # "TimeZoneInformation")
      /\ \A k \in 1..n : Unlooked[k] # "TimeZoneInformation"
  BY CollectionAssumption
<1>2. s = [k \in 1..m |-> [do |-> "warn", what |-> {[artefact |-> Missing[k], path |-> Missing[k],
           severity |-> "absent"]}]]
  BY <1>1 DEF Each, Absent, Warn
<1>3. u = [k \in 1..n |-> [do |-> "warn", what |-> {[artefact |-> Unlooked[k], path |-> Unlooked[k],
           severity |-> "failed"]}]]
  BY <1>1 DEF Each, Warn
<1> HIDE DEF m, n, s, u
<1>4. /\ s = [k \in 1..m |-> s[k]]
      /\ \A k \in 1..m : s[k].do = "warn" /\ \A w \in s[k].what : w.artefact # "TimeZoneInformation"
  BY <1>1, <1>2
<1>5. /\ u = [k \in 1..n |-> u[k]]
      /\ \A k \in 1..n : u[k].do = "warn" /\ \A w \in u[k].what : w.artefact # "TimeZoneInformation"
  BY <1>1, <1>3
<1>6. /\ IsProgram(s) /\ SourcesIn(s) = {} /\ CitesIn(s) = {} /\ (\A t : RowsIn(s, t) = {})
      /\ (\A w \in {"zone", "setting"} : ValuesIn(s, w) = {})
      /\ (\A c : CountsIn(s, c) = {}) /\ Does(s) \subseteq {"warn"}
      /\ WarnsIn(s) = UNION {s[k].what : k \in 1..m}
  BY ONLY <1>1, <1>4, EachWarns
<1>7. /\ IsProgram(u) /\ SourcesIn(u) = {} /\ CitesIn(u) = {} /\ (\A t : RowsIn(u, t) = {})
      /\ (\A w \in {"zone", "setting"} : ValuesIn(u, w) = {})
      /\ (\A c : CountsIn(u, c) = {}) /\ Does(u) \subseteq {"warn"}
      /\ WarnsIn(u) = UNION {u[k].what : k \in 1..n}
  BY ONLY <1>1, <1>5, EachWarns
<1> DEFINE P == s \o u
<1>8. /\ IsProgram(P) /\ SourcesIn(P) = SourcesIn(s) \cup SourcesIn(u)
      /\ CitesIn(P) = CitesIn(s) \cup CitesIn(u) /\ WarnsIn(P) = WarnsIn(s) \cup WarnsIn(u)
      /\ (\A t : RowsIn(P, t) = RowsIn(s, t) \cup RowsIn(u, t))
      /\ (\A w : ValuesIn(P, w) = ValuesIn(s, w) \cup ValuesIn(u, w))
      /\ (\A c : CountsIn(P, c) = CountsIn(s, c) \cup CountsIn(u, c))
      /\ Does(P) = Does(s) \cup Does(u)
  BY ONLY <1>6, <1>7, JoinFacts
<1> HIDE DEF P
<1>9. IsStage(P)
  BY <1>6, <1>7, <1>8 DEF IsStage, Reading0
<1>10. \A t : RowsIn(P, t) = {}
  BY <1>6, <1>7, <1>8
<1>11. Ordered(P)
  BY <1>10, OrderedIf
<1>12. \A w \in WarnsIn(P) : w.artefact # "TimeZoneInformation"
  BY <1>4, <1>5, <1>6, <1>7, <1>8
<1>13. CitesIn(P) = {} /\ \A c : CountsIn(P, c) = {}
  BY <1>6, <1>7, <1>8
<1> QED BY <1>9, <1>10, <1>11, <1>12, <1>13 DEF P, s, u

\* The partial tables raise finitely many warnings.
LEMMA ParseWarningsFinite == IsFiniteSet(ParseWarnings(db))
<1> DEFINE S == {t \in DOMAIN Carrying : \E r \in db[t] : r.partial}
           f == [t \in S |-> Carrying[t]]
           D0 == {}
           D1 == D0 \cup {"shell_bag"}
           D2 == D1 \cup {"mru_entry"}
           D3 == D2 \cup {"user_assist"}
           D4 == D3 \cup {"disk_layout"}
           D5 == D4 \cup {"file_target"}
           D6 == D5 \cup {"prefetch_run"}
<1>1. S \in SUBSET D6
  BY CarryingTables
<1>2. ParseWarnings(db) = {f[t] : t \in S}
  BY DEF ParseWarnings
<1> HIDE DEF S
<1>3. IsFiniteSet(D6)
  <2>1. IsFiniteSet(D1)
    BY FS_EmptySet, FS_AddElement
  <2> HIDE DEF D1
  <2>2. IsFiniteSet(D2)
    BY <2>1, FS_AddElement
  <2> HIDE DEF D2
  <2>3. IsFiniteSet(D3)
    BY <2>2, FS_AddElement
  <2> HIDE DEF D3
  <2>4. IsFiniteSet(D4)
    BY <2>3, FS_AddElement
  <2> HIDE DEF D4
  <2>5. IsFiniteSet(D5)
    BY <2>4, FS_AddElement
  <2> HIDE DEF D5
  <2> QED BY <2>5, FS_AddElement
<1> HIDE DEF D6
<1>4. IsFiniteSet(S)
  BY <1>1, <1>3, FS_Subset
<1>5. f \in Surjection(S, ParseWarnings(db))
  BY <1>2 DEF Surjection
<1> QED BY <1>4, <1>5, FS_Surjection

\* What was read in part is warned of, by what its records are called.
LEMMA PartialWork ==
  LET P == Each(SetToSeq(ParseWarnings(db)), LAMBDA kind : Warn(kind, None, "partial")) IN
  /\ IsStage(P) /\ Does(P) \subseteq {"warn"} /\ CitesIn(P) = {} /\ (\A t : RowsIn(P, t) = {}) /\ Ordered(P)
  /\ WarnsIn(P) = {[artefact |-> kind, path |-> None, severity |-> "partial"] : kind \in ParseWarnings(db)}
  /\ \A c : CountsIn(P, c) = {}
<1> DEFINE S == ParseWarnings(db)
           q == SetToSeq(S)
           e == Each(q, LAMBDA kind : Warn(kind, None, "partial"))
           W == [k \in S |-> {[artefact |-> k, path |-> None, severity |-> "partial"]}]
<1>1. IsFiniteSet(S)
  BY ParseWarningsFinite
<1>2. e = [k \in DOMAIN q |-> [do |-> "warn", what |-> {[artefact |-> q[k], path |-> None,
           severity |-> "partial"]}]]
  BY DEF Each, Warn
<1>3. \A k \in S : W[k] = {[artefact |-> k, path |-> None, severity |-> "partial"]}
  OBVIOUS
<1> HIDE DEF S, e, W
<1>4. DOMAIN e = DOMAIN SetToSeq(S) /\ e = [k \in DOMAIN e |-> e[k]]
  BY <1>2
<1>5. \A k \in DOMAIN e : SetToSeq(S)[k] \in S =>
           e[k].do = "warn" /\ e[k].what = W[SetToSeq(S)[k]]
  BY <1>2, <1>3
<1>6. /\ IsReading(e) /\ CitesIn(e) = {} /\ (\A t : RowsIn(e, t) = {}) /\ Does(e) \subseteq {"warn"}
      /\ \A w \in {"zone", "setting"} : ValuesIn(e, w) = {}
      /\ WarnsIn(e) = UNION {W[x] : x \in S}
  BY ONLY <1>1, <1>4, <1>5, WarnsOfSet
<1>7. UNION {W[x] : x \in S} = {[artefact |-> k, path |-> None, severity |-> "partial"] : k \in S}
  BY <1>3
<1>8. IsStage(e) /\ (\A c : CountsIn(e, c) = {}) /\ Ordered(e)
  BY <1>6, StageOfReading, OrderedIf
<1> QED BY <1>6, <1>7, <1>8 DEF e, S

LedgerRows(t) ==
  CASE t = "source" -> sources [] t = "observation" -> observations [] t = "warning" -> warnings [] OTHER -> {}
\* What loading the ledger lays out.
LEMMA LedgerWork ==
  LET P == LoadLedger(sources, observations, warnings) IN
  /\ IsStage(P) /\ Does(P) \subseteq {"insert"} /\ CitesIn(P) = {} /\ WarnsIn(P) = {} /\ Ordered(P)
  /\ \A t : RowsIn(P, t) = LedgerRows(t)
  /\ \A c : CountsIn(P, c) = {}
<1> DEFINE P == LoadLedger(sources, observations, warnings)
           v1 == insert("source", sources)
           u2 == insert("observation", observations)
           u3 == insert("warning", warnings)
           v2 == v1 \o u2
           v3 == v2 \o u3
<1>1. P = v3
  BY DEF LoadLedger
<1> HIDE DEF P
<1>2. OnlyRows(v1, <<>>, "source", sources)
  BY FirstInsert
<1>3. OnlyRows(v2, v1, "observation", observations)
  BY <1>2, AndInsert DEF OnlyRows
<1>4. IsReading(v2)
  BY <1>3 DEF OnlyRows
<1>5. OnlyRows(v3, v2, "warning", warnings)
  BY <1>4, AndInsert
<1>6. Does(v1) \subseteq {"insert"} /\ Does(u2) \subseteq {"insert"} /\ Does(u3) \subseteq {"insert"}
  BY DoesOf
<1>7. IsProgram(v1) /\ IsProgram(u2) /\ IsProgram(u3)
  BY ProgramOf
<1> HIDE DEF v1, u2, u3
<1>8. IsProgram(v2) /\ Does(v2) = Does(v1) \cup Does(u2)
  BY <1>7, JoinFacts
<1> HIDE DEF v2
<1>9. Does(v3) = Does(v2) \cup Does(u3)
  BY <1>7, <1>8, JoinFacts
<1> HIDE DEF v3
<1>10. \A t : RowsIn(v3, t) = LedgerRows(t)
  <2>1. \A t : RowsIn(v2, t) = (IF t = "source" THEN sources ELSE {})
             \cup (IF t = "observation" THEN observations ELSE {})
    BY <1>2, <1>3, NoneFacts DEF OnlyRows, AddsRows
  <2>2. \A t : RowsIn(v3, t) = RowsIn(v2, t) \cup (IF t = "warning" THEN warnings ELSE {})
    BY <1>5 DEF OnlyRows, AddsRows
  <2> QED BY <2>1, <2>2 DEF LedgerRows
<1>11. IsReading(v3) /\ CitesIn(v3) = {} /\ WarnsIn(v3) = {} /\ \A w \in {"zone", "setting"} : ValuesIn(v3, w) = {}
  BY <1>2, <1>3, <1>5, NoneFacts DEF OnlyRows, AddsRows
<1>12. IsStage(v3) /\ \A c : CountsIn(v3, c) = {}
  BY <1>11, StageOfReading
<1>13. Ordered(v3)
  BY <1>10, Parents, OrderedIf DEF LedgerRows
<1> QED BY <1>1, <1>6, <1>8, <1>9, <1>10, <1>11, <1>12, <1>13 DEF P

\* A program none of whose steps adds anything.
IsIdle(s) ==
  /\ IsProgram(s) /\ SourcesIn(s) = {} /\ CitesIn(s) = {} /\ WarnsIn(s) = {}
  /\ (\A t : RowsIn(s, t) = {}) /\ (\A c : CountsIn(s, c) = {}) /\ Ordered(s)
  /\ ValuesIn(s, "zone") = {} /\ ValuesIn(s, "setting") = {}
\* A program with no step of a reader touches no evidence.
LEMMA IdleIf ==
  ASSUME NEW s, IsProgram(s), Does(s) \cap Reading0 = {}
  PROVE  IsIdle(s)
<1>1. \A x \in Reading0 : Of(s, x) = {}
  BY DEF Of, Does
<1>2. SourcesIn(s) = {} /\ CitesIn(s) = {} /\ WarnsIn(s) = {}
  BY <1>1 DEF SourcesIn, CitesIn, WarnsIn, Reading0
<1>3. (\A t : RowsIn(s, t) = {}) /\ (\A c : CountsIn(s, c) = {})
  BY <1>1 DEF RowsIn, CountsIn, Reading0
<1>4. ValuesIn(s, "zone") = {} /\ ValuesIn(s, "setting") = {}
  BY <1>1 DEF ValuesIn, Reading0
<1>5. Ordered(s)
  BY <1>3, OrderedIf
<1> QED BY <1>2, <1>3, <1>4, <1>5 DEF IsIdle

\* The four derivations and their tables.
LEMMA StepsAre ==
  /\ DOMAIN Steps = 1..4 /\ Steps[1][1] = "device_group" /\ Steps[2][1] = "device_fact"
  /\ Steps[3][1] = "file_attribution" /\ Steps[4][1] = "timeline_moment_member"
  /\ Derived = {"device_group", "device_fact", "file_attribution", "timeline_moment_member"}
BY DEF Steps, Derived

\* Consolidating only derives.
LEMMA DeriveWork ==
  /\ IsIdle(Consolidate) /\ Does(Consolidate) \subseteq {"derive"}
  /\ \A i \in Items(Consolidate) : i.table \in Derived
<1> DEFINE e == Consolidate
<1>1. e = [k \in 1..4 |-> [do |-> "derive", table |-> Steps[k][1], reads |-> Steps[k][2]]]
  BY StepsAre DEF Consolidate
<1> HIDE DEF e
<1>2. e = [k \in 1..4 |-> e[k]] /\ \A k \in 1..4 : e[k].do = "derive" /\ e[k].table = Steps[k][1]
  BY <1>1
<1>3. IsProgram(e) /\ Items(e) = {e[k] : k \in 1..4}
  <2>1. 4 \in Nat /\ e = [k \in 1..4 |-> e[k]]
    BY <1>2
  <2> QED BY ONLY <2>1, EachFacts
<1>4. Does(e) \subseteq {"derive"}
  BY <1>2, <1>3 DEF Does
<1>5. IsIdle(e)
  BY <1>3, <1>4, IdleIf DEF Reading0
<1>6. \A i \in Items(e) : i.table \in Derived
  BY <1>2, <1>3, StepsAre DEF Derived
<1> QED BY <1>4, <1>5, <1>6 DEF e

\* Exporting only exports.
LEMMA ExportWork ==
  /\ IsIdle(ExportAll) /\ Does(ExportAll) \subseteq {"export"}
<1> DEFINE e == ExportAll
           n == Len(exports)
<1>1. n = 7 /\ DOMAIN exports = 1..7
  BY DEF exports
<1>2. e = [k \in 1..7 |-> [do |-> "export", name |-> exports[k].name, reads |-> exports[k].reads]]
  BY <1>1 DEF ExportAll
<1> HIDE DEF e
<1>3. e = [k \in 1..7 |-> e[k]] /\ \A k \in 1..7 : e[k].do = "export"
  BY <1>2
<1>4. IsProgram(e) /\ Items(e) = {e[k] : k \in 1..7}
  BY <1>3, EachFacts
<1>5. Does(e) \subseteq {"export"}
  BY <1>3, <1>4 DEF Does
<1>6. IsIdle(e)
  BY <1>4, <1>5, IdleIf DEF Reading0
<1> QED BY <1>5, <1>6 DEF e

\* The last stages report, settle the database and publish.
LEMMA LastWork ==
  /\ IsIdle(<<[do |-> "report"]>>) /\ Does(<<[do |-> "report"]>>) = {"report"}
  /\ IsIdle(<<[do |-> "publish"]>>) /\ Does(<<[do |-> "publish"]>>) = {"publish"}
  /\ IsIdle(recordCaseDatabase) /\ Does(recordCaseDatabase) = {"checkpoint", "close", "record"}
  /\ IsIdle(<<>>) /\ Does(<<>>) = {}
<1>1. Does(<<[do |-> "report"]>>) = {"report"} /\ IsProgram(<<[do |-> "report"]>>)
  <2> DEFINE x == [do |-> "report"]
  <2>1. x.do = "report"
    OBVIOUS
  <2> HIDE DEF x
  <2>2. Does(<<x>>) = {x.do} /\ IsProgram(<<x>>)
    BY OneFacts
  <2> QED BY <2>1, <2>2 DEF x
<1>2. Does(<<[do |-> "publish"]>>) = {"publish"} /\ IsProgram(<<[do |-> "publish"]>>)
  <2> DEFINE x == [do |-> "publish"]
  <2>1. x.do = "publish"
    OBVIOUS
  <2> HIDE DEF x
  <2>2. Does(<<x>>) = {x.do} /\ IsProgram(<<x>>)
    BY OneFacts
  <2> QED BY <2>1, <2>2 DEF x
<1>3. Does(recordCaseDatabase) = {"checkpoint", "close", "record"} /\ IsProgram(recordCaseDatabase)
  <2> DEFINE x == [do |-> "checkpoint"]
             y == [do |-> "close"]
             z == [do |-> "record"]
             s == <<x, y, z>>
  <2>1. x.do = "checkpoint" /\ y.do = "close" /\ z.do = "record"
    OBVIOUS
  <2> HIDE DEF x, y, z
  <2>2. s \in Seq({x, y, z}) /\ DOMAIN s = 1..3 /\ s[1] = x /\ s[2] = y /\ s[3] = z
    OBVIOUS
  <2>3. \A k : k \in 1..3 <=> k \in {1, 2, 3}
    OBVIOUS
  <2> HIDE DEF s
  <2>4. Items(s) = {x, y, z}
    BY <2>2, <2>3 DEF Items
  <2>5. IsProgram(s) /\ Does(s) = {"checkpoint", "close", "record"}
    BY <2>1, <2>2, <2>4 DEF IsProgram, Does
  <2> QED BY <2>5 DEF s, x, y, z, recordCaseDatabase
<1>4. IsProgram(<<>>) /\ Does(<<>>) = {}
  BY NoneFacts
<1>5. IsIdle(<<[do |-> "report"]>>)
  BY <1>1, IdleIf DEF Reading0
<1>6. IsIdle(<<[do |-> "publish"]>>)
  BY <1>2, IdleIf DEF Reading0
<1>7. IsIdle(recordCaseDatabase)
  BY <1>3, IdleIf DEF Reading0
<1>8. IsIdle(<<>>)
  BY <1>4, IdleIf
<1> QED BY <1>1, <1>2, <1>3, <1>4, <1>5, <1>6, <1>7, <1>8

-----------------------------------------------------------------------------
WorkOf(n) == Work(Stages[n])

\* What each stage lays out.
LEMMA WorkNames ==
  /\ WorkOf(1) = LoadRules(Rules)
  /\ WorkOf(2) = Each(Missing, LAMBDA kind : Absent(kind, kind))
          \o Each(Unlooked, LAMBDA kind : Warn(kind, kind, "failed"))
  /\ WorkOf(4) = EndSystem /\ WorkOf(8) = EndUserHives /\ WorkOf(10) = EndEventLogs
  /\ WorkOf(14) = EndFileActivity /\ WorkOf(16) = EndPrefetch
  /\ WorkOf(17) = Each(SetToSeq(ParseWarnings(db)), LAMBDA kind : Warn(kind, None, "partial"))
  /\ WorkOf(18) = LoadLedger(sources, observations, warnings)
  /\ WorkOf(19) = Consolidate /\ WorkOf(20) = ExportAll /\ WorkOf(21) = <<[do |-> "report"]>>
  /\ WorkOf(22) = recordCaseDatabase /\ WorkOf(23) = <<[do |-> "publish"]>>
  /\ \A n \in {3, 5, 6, 7, 9, 11, 12, 13, 15} : WorkOf(n) = <<>>
<1>1. WorkOf(1) = LoadRules(Rules)
  BY StageNames DEF WorkOf, Work
<1>2. WorkOf(2) = Each(Missing, LAMBDA kind : Absent(kind, kind))
           \o Each(Unlooked, LAMBDA kind : Warn(kind, kind, "failed"))
  BY StageNames DEF WorkOf, Work
<1>4. WorkOf(4) = EndSystem
  BY StageNames DEF WorkOf, Work
<1>8. WorkOf(8) = EndUserHives
  BY StageNames DEF WorkOf, Work
<1>10. WorkOf(10) = EndEventLogs
  BY StageNames DEF WorkOf, Work
<1>14. WorkOf(14) = EndFileActivity
  BY StageNames DEF WorkOf, Work
<1>16. WorkOf(16) = EndPrefetch
  BY StageNames DEF WorkOf, Work
<1>17. WorkOf(17) = Each(SetToSeq(ParseWarnings(db)), LAMBDA kind : Warn(kind, None, "partial"))
  BY StageNames DEF WorkOf, Work
<1>18. WorkOf(18) = LoadLedger(sources, observations, warnings)
  BY StageNames DEF WorkOf, Work
<1>19. WorkOf(19) = Consolidate
  BY StageNames DEF WorkOf, Work
<1>20. WorkOf(20) = ExportAll
  BY StageNames DEF WorkOf, Work
<1>21. WorkOf(21) = <<[do |-> "report"]>>
  BY StageNames DEF WorkOf, Work
<1>22. WorkOf(22) = recordCaseDatabase
  BY StageNames DEF WorkOf, Work
<1>23. WorkOf(23) = <<[do |-> "publish"]>>
  BY StageNames DEF WorkOf, Work
<1>24. WorkOf(3) = <<>> /\ WorkOf(5) = <<>> /\ WorkOf(6) = <<>> /\ WorkOf(7) = <<>>
  BY StageNames DEF WorkOf, Work
<1>25. WorkOf(9) = <<>> /\ WorkOf(11) = <<>> /\ WorkOf(12) = <<>> /\ WorkOf(13) = <<>> /\ WorkOf(15) = <<>>
  BY StageNames DEF WorkOf, Work
<1>26. \A n \in {3, 5, 6, 7, 9, 11, 12, 13, 15} : WorkOf(n) = <<>>
  BY <1>24, <1>25
<1> QED BY <1>1, <1>2, <1>4, <1>8, <1>10, <1>14, <1>16, <1>17, <1>18, <1>19, <1>20, <1>21, <1>22, <1>23, <1>26

\* Each stage by its number.
LEMMA StageNumbers ==
  ASSUME NEW n \in 1..23
  PROVE  \/ n = 1 \/ n = 2 \/ n \in {3, 5, 6, 7, 9, 11, 12, 13, 15} \/ n = 4 \/ n = 8 \/ n = 10 \/ n = 14 \/ n = 16
         \/ n = 17 \/ n = 18 \/ n = 19 \/ n = 20 \/ n = 21 \/ n = 22 \/ n = 23
  OBVIOUS

\* What each stage's program may do.
LEMMA Doables ==
  /\ \A n \in 1..16 : Doable(n) = Reading0
  /\ Doable(17) = {"warn"} /\ Doable(18) = {"insert"} /\ Doable(19) = {"derive"} /\ Doable(20) = {"export"}
  /\ Doable(21) = {"report"} /\ Doable(22) = {"checkpoint", "close", "record"} /\ Doable(23) = {"publish"}
  BY DEF Doable

\* A stage's program does what the stage may do, hashes nothing and keeps nothing.
Lays(n, s) ==
  /\ IsProgram(s) /\ SourcesIn(s) = {} /\ Does(s) \subseteq Doable(n) /\ Ordered(s)
  /\ ValuesIn(s, "zone") = {} /\ ValuesIn(s, "setting") = {}
  /\ \A i \in Items(s) : i.do = "derive" => i.table \in Derived

\* A stage's work that does only what it may is well laid out.
LEMMA LaysIf ==
  ASSUME NEW s, IsStage(s), Ordered(s), NEW n, Does(s) \subseteq Doable(n)
  PROVE  Lays(n, s)
<1>1. ASSUME NEW i \in Items(s) PROVE i.do # "derive"
  BY DEF IsStage, Does, Reading0
<1> QED BY <1>1 DEF Lays, IsStage

\* Every stage's work is.
LEMMA EachStageLays ==
  ASSUME NEW n \in 1..23
  PROVE  Lays(n, WorkOf(n))
<1>1. CASE n = 1
  <2> DEFINE P == LoadRules(Rules)
  <2>1. IsReading(P) /\ Ordered(P) /\ \A w \in {"zone", "setting"} : ValuesIn(P, w) = {}
    BY RulesWork
  <2> HIDE DEF P
  <2>2. IsStage(P)
    BY <2>1, StageOfReading
  <2>3. Lays(n, P)
    BY <1>1, <2>1, <2>2, LaysIf, Doables DEF IsStage
  <2> QED BY <1>1, <2>3, WorkNames DEF P
<1>2. CASE n = 2
  <2> DEFINE P == WorkOf(2)
  <2>1. IsStage(P) /\ Ordered(P)
    BY DiscoveryWork, WorkNames
  <2> HIDE DEF P
  <2>2. Lays(n, P)
    BY <1>2, <2>1, LaysIf, Doables DEF IsStage
  <2> QED BY <1>2, <2>2 DEF P
<1>3. ASSUME NEW s, IsIdle(s), Does(s) \subseteq Doable(n), \A i \in Items(s) : i.do = "derive"
                  => i.table \in Derived
      PROVE  Lays(n, s)
  BY <1>3 DEF IsIdle, Lays
<1>4. ASSUME NEW s, IsIdle(s), Does(s) \subseteq Doable(n), "derive" \notin Does(s)
      PROVE  Lays(n, s)
  BY <1>4, <1>3 DEF Does
<1>5. CASE n \in {3, 5, 6, 7, 9, 11, 12, 13, 15}
  BY <1>5, WorkNames, LastWork, <1>4
<1>6. CASE n = 4
  <2>1. IsStage(EndSystem) /\ Ordered(EndSystem)
    BY SettingWork
  <2>2. Lays(n, EndSystem)
    BY <1>6, <2>1, LaysIf, Doables DEF IsStage
  <2> QED BY <1>6, <2>2, WorkNames
<1>7. CASE n = 8
  <2>1. IsStage(EndUserHives) /\ Ordered(EndUserHives)
    BY UserHivesWork
  <2>2. Lays(n, EndUserHives)
    BY <1>7, <2>1, LaysIf, Doables DEF IsStage
  <2> QED BY <1>7, <2>2, WorkNames
<1>8. CASE n = 10
  <2>1. IsStage(EndEventLogs) /\ Ordered(EndEventLogs)
    BY EventsWork
  <2>2. Lays(n, EndEventLogs)
    BY <1>8, <2>1, LaysIf, Doables DEF IsStage
  <2> QED BY <1>8, <2>2, WorkNames
<1>9. CASE n = 14
  <2>1. IsStage(EndFileActivity) /\ Ordered(EndFileActivity)
    BY TargetsWork
  <2>2. Lays(n, EndFileActivity)
    BY <1>9, <2>1, LaysIf, Doables DEF IsStage
  <2> QED BY <1>9, <2>2, WorkNames
<1>10. CASE n = 16
  <2>1. IsStage(EndPrefetch) /\ Ordered(EndPrefetch)
    BY LaunchesWork
  <2>2. Lays(n, EndPrefetch)
    BY <1>10, <2>1, LaysIf, Doables DEF IsStage
  <2> QED BY <1>10, <2>2, WorkNames
<1>11. CASE n = 17
  <2> DEFINE P == WorkOf(17)
  <2>1. IsStage(P) /\ Ordered(P) /\ Does(P) \subseteq {"warn"}
    BY PartialWork, WorkNames
  <2> HIDE DEF P
  <2>2. Lays(n, P)
    BY <1>11, <2>1, LaysIf, Doables
  <2> QED BY <1>11, <2>2 DEF P
<1>12. CASE n = 18
  <2> DEFINE P == WorkOf(18)
  <2>1. IsStage(P) /\ Ordered(P) /\ Does(P) \subseteq {"insert"}
    BY LedgerWork, WorkNames
  <2> HIDE DEF P
  <2>2. Lays(n, P)
    BY <1>12, <2>1, LaysIf, Doables
  <2> QED BY <1>12, <2>2 DEF P
<1>13. CASE n = 19
  BY <1>3, <1>13, DeriveWork, Doables, WorkNames
<1>14. CASE n = 20
  BY ExportWork, <1>4, <1>14, Doables, WorkNames
<1>15. CASE n = 21
  BY <1>4, <1>15, LastWork, Doables, WorkNames
<1>16. CASE n = 22
  BY <1>4, <1>16, LastWork, Doables, WorkNames
<1>17. CASE n = 23
  BY <1>4, <1>17, LastWork, Doables, WorkNames
<1> QED BY <1>1, <1>2, <1>5, <1>6, <1>7, <1>8, <1>9, <1>10, <1>11, <1>12, <1>13, <1>14, <1>15, <1>16, <1>17,
           StageNumbers

\* Which stages say, cite, load or count anything.
LEMMA WorkElse ==
  ASSUME NEW n \in 1..23
  PROVE  /\ n \notin {1, 4, 10, 14, 16, 18} => \A t : RowsIn(WorkOf(n), t) = {}
         /\ n # 10 => CitesIn(WorkOf(n)) = {}
         /\ n \notin {2, 10, 17} => WarnsIn(WorkOf(n)) = {}
         /\ n \notin {4, 8, 10, 14, 16} => \A c : CountsIn(WorkOf(n), c) = {}
<1> DEFINE G(m, s) ==
      /\ m \notin {1, 4, 10, 14, 16, 18} => \A t : RowsIn(s, t) = {}
      /\ m # 10 => CitesIn(s) = {}
      /\ m \notin {2, 10, 17} => WarnsIn(s) = {}
      /\ m \notin {4, 8, 10, 14, 16} => \A c : CountsIn(s, c) = {}
<1>1. CASE n = 1
  <2> DEFINE P == LoadRules(Rules)
  <2>1. CitesIn(P) = {} /\ WarnsIn(P) = {} /\ \A c : CountsIn(P, c) = {}
    BY RulesWork DEF IsReading
  <2> HIDE DEF P
  <2>2. G(n, P)
    BY <1>1, <2>1
  <2> HIDE DEF G
  <2>3. G(n, WorkOf(n))
    BY <1>1, <2>2, WorkNames DEF P
  <2> QED BY <2>3 DEF G
<1>2. CASE n = 2
  <2> DEFINE P == WorkOf(2)
  <2>1. CitesIn(P) = {} /\ (\A t : RowsIn(P, t) = {}) /\ \A c : CountsIn(P, c) = {}
    BY DiscoveryWork, WorkNames
  <2> HIDE DEF P
  <2>2. G(n, P)
    BY <1>2, <2>1
  <2> HIDE DEF G
  <2>3. G(n, WorkOf(n))
    BY <1>2, <2>2 DEF P
  <2> QED BY <2>3 DEF G
<1>3. ASSUME NEW s, IsIdle(s) PROVE G(n, s)
  BY <1>3 DEF IsIdle
<1> HIDE DEF G
<1>4. CASE n \in {3, 5, 6, 7, 9, 11, 12, 13, 15}
  BY <1>3, LastWork, <1>4, WorkNames DEF G
<1>5. CASE n = 4
  BY <1>5, SettingWork, WorkNames DEF G
<1>6. CASE n = 8
  BY <1>6, UserHivesWork, WorkNames DEF G
<1>7. CASE n = 10
  BY <1>7
<1>8. CASE n = 14
  BY <1>8, TargetsWork, WorkNames DEF G
<1>9. CASE n = 16
  BY <1>9, LaunchesWork, WorkNames DEF G
<1>10. CASE n = 17
  <2> DEFINE P == WorkOf(17)
  <2>1. CitesIn(P) = {} /\ (\A t : RowsIn(P, t) = {}) /\ \A c : CountsIn(P, c) = {}
    BY PartialWork, WorkNames
  <2> HIDE DEF P
  <2>2. G(n, P)
    BY <1>10, <2>1 DEF G
  <2>3. G(n, WorkOf(n))
    BY <1>10, <2>2 DEF P
  <2> QED BY <2>3 DEF G
<1>11. CASE n = 18
  <2> DEFINE P == WorkOf(18)
  <2>1. CitesIn(P) = {} /\ WarnsIn(P) = {} /\ \A c : CountsIn(P, c) = {}
    BY LedgerWork, WorkNames
  <2> HIDE DEF P
  <2>2. G(n, P)
    BY <1>11, <2>1 DEF G
  <2>3. G(n, WorkOf(n))
    BY <1>11, <2>2 DEF P
  <2> QED BY <2>3 DEF G
<1>12. CASE n \in {19, 20, 21, 22, 23}
  <2>1. /\ G(n, Consolidate) /\ G(n, ExportAll) /\ G(n, <<[do |-> "report"]>>) /\ G(n, recordCaseDatabase)
        /\ G(n, <<[do |-> "publish"]>>)
    BY <1>3, LastWork, DeriveWork, ExportWork
  <2>2. G(n, WorkOf(n))
    BY <1>12, <2>1, WorkNames
  <2> QED BY <2>2 DEF G
<1> QED BY <1>1, <1>2, <1>4, <1>5, <1>6, <1>7, <1>8, <1>9, <1>10, <1>11, <1>12, StageNumbers

-----------------------------------------------------------------------------
First(s) == IF s # <<>> /\ Head(s).do = "source" THEN {Head(s).of} ELSE {}

\* A step of a program takes the first of it, and a failure or an end nothing.
Proceeds ==
  \/ UNCHANGED <<agenda, sources, observations, warnings, zone, setting, db>>
  \/ /\ agenda # <<>> /\ agenda' = Tail(agenda)
     /\ sources' = sources \cup First(agenda)
     /\ \A t \in Tables \ Derived :
          db'[t] = (IF Head(agenda).do = "insert" /\ Head(agenda).table = t
                    THEN db[t] \cup Head(agenda).rows ELSE db[t])

\* An onward step leaves the rest of the program well laid out.
LEMMA OnwardProceeds ==
  ASSUME Typed, Onward
  PROVE  Proceeds
<1>1. DOMAIN db = Tables
  BY DEF Typed
<1>2. CASE Completes \/ Fails \/ UNCHANGED vars
  BY <1>2 DEF Completes, Fails, vars, control, case, Proceeds, kept, ledger
<1>3. ASSUME NEW what, Doing(what), Done, db' = db,
             sources' = (IF what = "source" THEN sources \cup {Head(agenda).of} ELSE sources), what # "insert"
      PROVE  Proceeds
  BY <1>3 DEF Proceeds, Doing, Done, First
<1>4. CASE AddSource
  BY <1>4, <1>3 DEF AddSource, case
<1>5. CASE ObserveBatch
  BY <1>5, <1>3 DEF ObserveBatch, case
<1>6. CASE WarnOf
  BY <1>6, <1>3 DEF WarnOf, case
<1>7. CASE KeepZone
  BY <1>7, <1>3 DEF KeepZone, case, ledger
<1>8. CASE KeepSetting
  BY <1>8, <1>3 DEF KeepSetting, case, ledger
<1>9. CASE CountUp
  BY <1>9, <1>3 DEF CountUp, case, ledger
<1>10. CASE Insert
  BY <1>10, <1>1 DEF Insert, ledger, Proceeds, Doing, Done, First
<1>11. CASE Derive
  BY <1>11, ItemsUnfold, <1>1 DEF Derive, ledger, Typed, Doing, Proceeds, Done, First
<1>12. CASE exportView
  BY <1>12, <1>3 DEF exportView, case, ledger
<1>13. CASE writeReport
  BY <1>13, <1>3 DEF writeReport, case, ledger
<1>14. CASE Checkpoint
  BY <1>14, <1>3 DEF Checkpoint, ledger
<1>15. CASE Close
  BY <1>15, <1>3 DEF Close, ledger
<1>16. CASE RecordDatabase
  BY <1>16, <1>3 DEF RecordDatabase, case, ledger
<1>17. CASE Publish
  BY <1>17, <1>3 DEF Publish, case, ledger
<1> QED BY <1>2, <1>4, <1>5, <1>6, <1>7, <1>8, <1>9, <1>10, <1>11, <1>12, <1>13, <1>14, <1>15, <1>16, <1>17
        DEF Onward

\* A program is laid out where none was, and will add what it adds.
Gains(P) ==
  /\ agenda = <<>> /\ agenda' = P
  /\ UNCHANGED <<fate, zone, setting, sources, observations, warnings, db>>
  /\ AllSources = sources /\ AllCites = observations /\ AllWarns = warnings /\ \A t : AllRows(t) = db[t]
  /\ AllSources' = sources \cup SourcesIn(P) /\ AllCites' = observations \cup CitesIn(P)
  /\ AllWarns' = warnings \cup WarnsIn(P) /\ \A t : AllRows(t)' = db[t] \cup RowsIn(P, t)

\* A program begun adds what it lays out to the totals.
LEMMA GainsIf ==
  ASSUME NEW P, agenda = <<>>, agenda' = P,
         UNCHANGED <<fate, zone, setting, sources, observations, warnings, db>>
  PROVE  Gains(P)
BY NoneFacts DEF AllSources, AllCites, AllWarns, AllRows, Gains

Takes(a) ==
  /\ a \in Artefacts /\ StageOf[Kind[a]] = stage /\ stage' = stage /\ todo' \subseteq todo
  /\ Gains(Artefact(a)) /\ Serves(a, Artefact(a))
  /\ \A b \in Artefacts : Begun(b)' <=> Begun(b) \/ b = a
Advances ==
  /\ stage \in 0..22 /\ stage' = stage + 1 /\ todo = {} /\ todo' = ByKind(Stages[stage + 1])
  /\ Gains(WorkOf(stage + 1)) /\ Lays(stage + 1, WorkOf(stage + 1))
  /\ \A b \in Artefacts : (Begun(b)' <=> Begun(b)) /\ (Begun(b) <=> StageOf[Kind[b]] <= stage)

\* Taking up an artefact adds its program to the totals.
LEMMA TakeUpTakes ==
  ASSUME Typed, TakeUp
  PROVE  \E a : Takes(a)
<1>1. PICK k \in todo : agenda' = Artefact(Discovered[k]) /\ todo' = todo \ {k}
  BY DEF TakeUp
<1> DEFINE a == Discovered[k]
<1>2. k \in DOMAIN Discovered /\ a \in Artefacts /\ stage = StageOf[Kind[a]] /\ todo \subseteq DOMAIN Discovered
  BY DEF Typed, Artefacts
<1>3. agenda = <<>> /\ UNCHANGED <<fate, stage, zone, setting, sources, observations, warnings, db>>
  BY DEF TakeUp, Idle, kept, ledger, case
<1> HIDE DEF a
<1>4. agenda' = Artefact(a)
  BY <1>1 DEF a
<1>5. Serves(a, Artefact(a))
  BY <1>2, ArtefactServes DEF Typed
<1>6. Gains(Artefact(a))
  BY <1>3, <1>4, GainsIf
<1>7. ASSUME NEW b \in Artefacts PROVE Begun(b)' <=> Begun(b) \/ b = a
  BY <1>1, <1>3, <1>2 DEF Begun, a, Typed
<1> QED BY <1>1, <1>2, <1>3, <1>5, <1>6, <1>7 DEF Takes

\* Beginning a stage adds its work to the totals.
LEMMA NextStageAdvances ==
  ASSUME Typed, NextStage
  PROVE  Advances
<1> DEFINE n == stage + 1
<1>1. /\ agenda = <<>> /\ todo = {} /\ stage' = n /\ todo' = ByKind(Stages[n]) /\ agenda' = WorkOf(n)
      /\ UNCHANGED <<fate, zone, setting, sources, observations, warnings, db>>
  BY DEF NextStage, Idle, kept, ledger, case, WorkOf
<1>2. stage \in 0..22 /\ n \in 1..23
  <2>1. Len(Stages) = 23
    BY StageNames
  <2>2. stage \in 0..23 /\ stage < Len(Stages)
    BY DEF Typed, NextStage
  <2> QED BY <2>1, <2>2
<1>3. stage \in Nat /\ n = stage + 1
  BY <1>2
<1> HIDE DEF n
<1>4. Lays(n, WorkOf(n))
  BY <1>2, EachStageLays
<1>5. Gains(WorkOf(n))
  BY <1>1, GainsIf
<1>6. ASSUME NEW b \in Artefacts
      PROVE  (Begun(b)' <=> Begun(b)) /\ (Begun(b) <=> StageOf[Kind[b]] <= stage)
  <2>1. StageOf[Kind[b]] \in Nat /\ (Stages[n] = Kind[b] <=> n = StageOf[Kind[b]])
    BY <1>2, KindStage
  <2>2. \E k \in DOMAIN Discovered : Discovered[k] = b
    BY DEF Artefacts
  <2>3. Begun(b) <=> StageOf[Kind[b]] <= stage
    BY <1>1, <2>2 DEF Begun
  <2>4. Begun(b)' <=> StageOf[Kind[b]] <= n /\ \E k \in DOMAIN Discovered \ ByKind(Stages[n]) : Discovered[k] = b
    BY <1>1 DEF Begun
  <2>5. CASE StageOf[Kind[b]] = n
    <3>1. ~(StageOf[Kind[b]] <= stage)
      BY <1>3, <2>5
    <3>2. ASSUME NEW k \in DOMAIN Discovered, Discovered[k] = b PROVE k \in ByKind(Stages[n])
      BY <2>1, <2>5, <3>2 DEF ByKind
    <3> QED BY <2>3, <2>4, <3>1, <3>2
  <2>6. CASE StageOf[Kind[b]] # n
    <3>1. StageOf[Kind[b]] <= n <=> StageOf[Kind[b]] <= stage
      BY <1>3, <2>1, <2>6
    <3>2. ASSUME NEW k \in DOMAIN Discovered, Discovered[k] = b PROVE k \notin ByKind(Stages[n])
      BY <2>1, <2>6, <3>2 DEF ByKind
    <3> QED BY <2>2, <2>3, <2>4, <3>1, <3>2
  <2> QED BY <2>3, <2>5, <2>6
<1> QED BY <1>1, <1>2, <1>4, <1>5, <1>6 DEF Advances, n

\* The initial state is typed.
LEMMA TypedStarts == Init => Typed
<1> SUFFICES ASSUME Init PROVE Typed
  OBVIOUS
<1>1. FatesKnown
  BY DEF Init, FatesKnown
<1>2. stage = 0 /\ todo = {} /\ agenda = <<>> /\ db = [t \in Tables |-> {}]
  BY DEF Init
<1>3. IsProgram(agenda) /\ Does(agenda) = {} /\ Items(agenda) = {}
  BY <1>2, NoneFacts, ItemsOfNone
<1> QED BY <1>1, <1>2, <1>3 DEF Typed

\* Every step keeps the typing.
LEMMA TypedSteps == Typed /\ [Next]_vars => Typed'
<1> SUFFICES ASSUME Typed, [Next]_vars PROVE Typed'
  OBVIOUS
<1>1. CASE Onward
  BY <1>1, OnwardIsSame DEF Same, Typed, FatesKnown
<1>2. CASE TakeUp
  <2>1. PICK a : Takes(a)
    BY <1>2, TakeUpTakes
  <2> DEFINE P == Artefact(a)
  <2>2. IsProgram(P) /\ Does(P) \subseteq Reading0
    BY <2>1 DEF Takes, Serves, Attends
  <2>3. agenda' = P /\ fate' = fate /\ db' = db /\ stage' = stage /\ todo' \subseteq todo
    BY <2>1 DEF Takes, Gains
  <2>4. stage \in 1..15
    BY <2>1, KindStage DEF Takes
  <2> HIDE DEF P
  <2>5. stage \in 1..16
    BY <2>4
  <2>6. Does(P) \subseteq Doable(stage)
    BY <2>2, <2>5, Doables
  <2>7. \A i \in Items(P) : i.do # "derive"
    BY <2>2 DEF Does, Reading0
  <2> QED BY <2>2, <2>3, <2>6, <2>7 DEF Typed, FatesKnown
<1>3. CASE NextStage
  <2>1. Advances
    BY <1>3, NextStageAdvances
  <2> DEFINE P == WorkOf(stage + 1)
  <2>2. /\ IsProgram(P) /\ Does(P) \subseteq Doable(stage + 1)
        /\ \A i \in Items(P) : i.do = "derive" => i.table \in Derived
    BY <2>1 DEF Advances, Lays
  <2>3. agenda' = P /\ fate' = fate /\ db' = db /\ stage' = stage + 1 /\ todo' = ByKind(Stages[stage + 1])
    BY <2>1 DEF Advances, Gains
  <2>4. stage + 1 \in 1..23 /\ stage' \in 0..23
    BY <2>1, <2>3 DEF Advances
  <2>5. todo' \subseteq DOMAIN Discovered /\ \A k \in todo' : stage' = StageOf[Kind[Discovered[k]]]
    <3>1. ASSUME NEW k \in todo' PROVE k \in DOMAIN Discovered /\ Kind[Discovered[k]] = Stages[stage + 1]
      BY <2>3 DEF ByKind
    <3>2. ASSUME NEW k \in todo' PROVE stage' = StageOf[Kind[Discovered[k]]]
      BY <3>1, <2>3, <2>4, KindStage DEF Artefacts
    <3> QED BY <3>1, <3>2
  <2> HIDE DEF P
  <2>6. FatesKnown' /\ DOMAIN db' = Tables
    BY <2>3 DEF Typed, FatesKnown
  <2>7. IsProgram(agenda') /\ Does(agenda') \subseteq Doable(stage') /\
             \A i \in Items(agenda') : i.do = "derive" => i.table \in Derived
    BY <2>2, <2>3
  <2> QED BY <2>4, <2>5, <2>6, <2>7 DEF Typed
<1> QED BY <1>1, <1>2, <1>3, NextCases

-----------------------------------------------------------------------------
\* What a program adds, it has in its steps; what is left of it adds no more.
LEMMA FewerRows ==
  ASSUME NEW s, NEW u, Items(u) \subseteq Items(s)
  PROVE  \A t : RowsIn(u, t) \subseteq RowsIn(s, t)
  BY DEF RowsIn, Of

Attested0 ==
  /\ \A t \in Evidence \ Disks :
       /\ \A r \in db[t] : r.source \in sources
       /\ \A r \in RowsIn(agenda, t) : r.source \in sources \cup First(agenda)
  /\ setting.id # None => setting.id \in sources
  /\ \A v \in ValuesIn(agenda, "setting") : v.id \in sources \cup First(agenda)

\* How the tables of evidence relate to the others.
LEMMA EvidenceTables ==
  /\ Evidence \subseteq Tables \ Derived
  /\ RuleTables \cap Evidence = {} /\ {"source", "observation", "warning"} \cap Evidence = {}
  /\ ReadTables \subseteq Evidence \ Disks
  /\ EventTables \subseteq Evidence /\ "file_target" \in Evidence /\ LaunchTables \subseteq Evidence
  /\ "host_prefetch_setting" \in Evidence
<1>1. Evidence \subseteq Tables \ Derived
  BY DEF Evidence
<1>2. RuleTables \cap Evidence = {} /\ {"source", "observation", "warning"} \cap Evidence = {}
  BY DEF Evidence, RuleTables
<1>3. ReadTables \subseteq Evidence \ Disks
  BY StepsAre DEF Evidence, ReadTables, Disks, Tables
<1>4. EventTables \subseteq Evidence
  BY StepsAre DEF Evidence, EventTables, Tables
<1>5. LaunchTables \subseteq Evidence
  BY StepsAre DEF Evidence, LaunchTables, Tables
<1>6. "file_target" \in Evidence /\ "host_prefetch_setting" \in Evidence
  BY StepsAre DEF Evidence, Tables
<1> QED BY <1>1, <1>2, <1>3, <1>4, <1>5, <1>6

\* The artefacts of a kind that were read.
LEMMA AllReadAre ==
  ASSUME NEW kind, NEW a \in AllRead(kind)
  PROVE  a \in sources /\ a \in Artefacts
  BY DEF AllRead, Read

\* What a stage loads of the evidence is of files that were hashed.
LEMMA StageAttests ==
  ASSUME setting.id # None => setting.id \in sources, NEW n \in 1..23, NEW t \in Evidence \ Disks,
         NEW r \in RowsIn(WorkOf(n), t)
  PROVE  r.source \in sources
<1>1. n \in {1, 4, 10, 14, 16, 18}
  BY WorkElse
<1>2. CASE n = 1
  BY EvidenceTables, RulesWork, WorkNames, <1>2
<1>3. CASE n = 4
  <2>1. RowsIn(WorkOf(4), t) = (IF t = "host_prefetch_setting" /\ setting.id # None
                                THEN {Row(setting.id, setting.found, {}, FALSE)} ELSE {})
    BY SettingWork, WorkNames
  <2>2. setting.id # None /\ r = Row(setting.id, setting.found, {}, FALSE)
    BY <1>3, <2>1
  <2>3. r.source = setting.id
    BY <2>2 DEF Row
  <2> QED BY <2>2, <2>3
<1>4. CASE n = 10
  BY EventsWork, WorkNames, <1>4, EventRowFacts DEF EventStageRows, Disks
<1>5. CASE n = 14
  BY TargetsWork, WorkNames, <1>5, TargetRowFacts, AllReadAre
<1>6. CASE n = 16
  BY LaunchesWork, WorkNames, <1>6, LaunchRowFacts, AllReadAre DEF LaunchRows
<1>7. CASE n = 18
  BY LedgerWork, WorkNames, EvidenceTables, <1>7 DEF LedgerRows
<1> QED BY <1>1, <1>2, <1>3, <1>4, <1>5, <1>6, <1>7

\* At first every row of evidence has a source in the ledger's total.
LEMMA AttestedStarts == Init => Attested0
<1> SUFFICES ASSUME Init PROVE Attested0
  OBVIOUS
<1>1. agenda = <<>> /\ setting.id = None /\ db = [t \in Tables |-> {}]
  BY DEF Init
<1>2. \A t \in Evidence : db[t] = {}
  BY <1>1, EvidenceTables
<1>3. ValuesIn(agenda, "setting") = {} /\ \A t : RowsIn(agenda, t) = {}
  BY <1>1, NoneFacts
<1> QED BY <1>1, <1>2, <1>3 DEF Attested0

\* Every step keeps it so.
LEMMA AttestedSteps == Typed /\ Attested0 /\ [Next]_vars => Attested0'
<1> SUFFICES ASSUME Typed, Attested0, [Next]_vars PROVE Attested0'
  OBVIOUS
<1>1. CASE Onward
  <2>1. Same /\ Proceeds
    BY <1>1, OnwardIsSame, OnwardProceeds
  <2>2. CASE UNCHANGED <<agenda, sources, observations, warnings, zone, setting, db>>
    BY <2>2 DEF Attested0
  <2>3. CASE /\ agenda # <<>> /\ agenda' = Tail(agenda) /\ sources' = sources \cup First(agenda)
             /\ \A t \in Tables \ Derived :
                  db'[t] = (IF Head(agenda).do = "insert" /\ Head(agenda).table = t
                            THEN db[t] \cup Head(agenda).rows ELSE db[t])
    <3>1. \A t : RowsIn(agenda', t) \subseteq RowsIn(agenda, t)
      BY <2>1, FewerRows DEF Same
    <3>2. ASSUME NEW t \in Evidence \ Disks, NEW r \in db'[t] PROVE r.source \in sources'
      BY EvidenceTables, <2>1, <3>2, <2>3 DEF Same, AllRows, Attested0
    <3>3. ASSUME NEW t \in Evidence \ Disks, NEW r \in RowsIn(agenda', t) PROVE r.source \in sources'
      BY <2>3, <3>1, <3>3 DEF Attested0
    <3>4. /\ setting' = setting \/ setting' \in ValuesIn(agenda, "setting")
          /\ ValuesIn(agenda', "setting") \subseteq ValuesIn(agenda, "setting")
      BY <2>1 DEF Same, Moved
    <3>5. setting'.id # None => setting'.id \in sources'
      BY <2>3, <3>4 DEF Attested0
    <3>6. \A v \in ValuesIn(agenda', "setting") : v.id \in sources'
      BY <2>3, <3>4 DEF Attested0
    <3> QED BY <3>2, <3>3, <3>5, <3>6 DEF Attested0
  <2> QED BY <2>1, <2>2, <2>3 DEF Proceeds
<1>2. CASE TakeUp
  <2>1. PICK a : Takes(a)
    BY <1>2, TakeUpTakes
  <2> DEFINE P == Artefact(a)
  <2>2. Gains(P) /\ Attends(a, P) /\ Yields(a, P) /\ Keeps(a, P)
    BY <2>1 DEF Takes, Serves
  <2> HIDE DEF P
  <2>3. agenda' = P /\ sources' = sources /\ setting' = setting /\ db' = db
    BY <2>2 DEF Gains
  <2>4. Loaded(a) => a \in First(P)
    BY <2>2 DEF Attends, Loaded, StartsAt, First
  <2>5. ASSUME NEW t, NEW r \in RowsIn(P, t) PROVE r.source \in sources \cup First(P)
    BY <2>2, <2>5, <2>4 DEF Yields, RowsAreCited
  <2>6. ASSUME NEW v \in ValuesIn(P, "setting") PROVE v.id \in sources \cup First(P)
    BY <2>2, <2>6, <2>4 DEF Keeps, SettingOf
  <2> QED BY <2>3, <2>5, <2>6 DEF Attested0
<1>3. CASE NextStage
  <2>1. Advances
    BY <1>3, NextStageAdvances
  <2> DEFINE n == stage + 1
             P == WorkOf(n)
  <2>2. n \in 1..23 /\ Gains(P) /\ Lays(n, P)
    BY <2>1 DEF Advances
  <2>3. \A t \in Evidence \ Disks : \A r \in RowsIn(P, t) : r.source \in sources
    BY <2>2, StageAttests DEF Attested0
  <2> HIDE DEF P, n
  <2>4. agenda' = P /\ sources' = sources /\ setting' = setting /\ db' = db
    BY <2>2 DEF Gains
  <2>5. ValuesIn(P, "setting") = {}
    BY <2>2 DEF Lays
  <2> QED BY <2>3, <2>4, <2>5 DEF Attested0
<1> QED BY <1>1, <1>2, <1>3, NextCases

-----------------------------------------------------------------------------
Belongs(t, R, Q) == \A c \in R : \E p \in Q : PartOf(t, c, p)
Children0 ==
  /\ \A t \in DOMAIN ParentOf : Belongs(t, AllRows(t), AllRows(ParentOf[t])) /\ Belongs(t, db[t], db[ParentOf[t]])
  /\ Ordered(agenda)

\* Child and parent tables are different tables of the store.
LEMMA ParentTables == \A t \in DOMAIN ParentOf : {t, ParentOf[t]} \subseteq Tables \ Derived /\ t # ParentOf[t]
BY Parents, StepsAre DEF Tables

\* A stage loads parts of what it loads.
LEMMA StageBelongs ==
  ASSUME NEW n \in 1..23, NEW t \in DOMAIN ParentOf
  PROVE  Belongs(t, RowsIn(WorkOf(n), t), RowsIn(WorkOf(n), ParentOf[t]))
<1>1. n \notin {1, 4, 10, 14, 16, 18} => RowsIn(WorkOf(n), t) = {}
  BY WorkElse
<1>2. \/ t = "event_field" \/ t = "disk_partition" \/ t = "rule_condition" \/ t = "rule_review_exception"
      \/ t = "prefetch_execution" \/ t = "prefetch_volume" \/ t = "prefetch_file"
  BY Parents
<1>3. CASE n = 1
  <2> DEFINE P == WorkOf(1)
  <2>1. /\ \A u : u \notin RuleTables => RowsIn(P, u) = {}
        /\ \A u \in {"rule_condition", "rule_review_exception"} :
             \A c \in RowsIn(P, u) : \E p \in RowsIn(P, ParentOf[u]) : PartOf(u, c, p)
    BY RulesWork, WorkNames
  <2> HIDE DEF P
  <2>2. t \notin {"rule_condition", "rule_review_exception"} => t \notin RuleTables
    BY <1>2 DEF RuleTables
  <2>3. Belongs(t, RowsIn(P, t), RowsIn(P, ParentOf[t]))
    BY <2>1, <2>2 DEF Belongs
  <2> QED BY <1>3, <2>3 DEF P
<1>4. CASE n = 4
  BY SettingWork, WorkNames, <1>2, <1>4 DEF Belongs
<1>5. CASE n = 10
  <2>1. \A u : RowsIn(WorkOf(10), u) = EventStageRows(u)
    BY EventsWork, WorkNames
  <2>2. CASE t = "event_field"
    BY <2>1, <2>2, Parents, <1>5, EventRowFacts DEF EventStageRows, Belongs
  <2>3. CASE t = "disk_partition"
    <3>1. RowsIn(WorkOf(10), t) = PartitionRows(EventDisks) /\
               RowsIn(WorkOf(10), ParentOf[t]) = DiskRows(EventDisks)
      BY <2>1, <2>3, Parents DEF EventStageRows
    <3> QED BY <1>5, <2>3, <3>1, DiskRowFacts DEF Belongs
  <2>4. CASE t \notin {"event_field", "disk_partition"}
    BY <1>2, <2>4, <1>5, <2>1 DEF EventStageRows, Belongs
  <2> QED BY <2>2, <2>3, <2>4
<1>6. CASE n = 14
  BY TargetsWork, WorkNames, <1>2, <1>6 DEF Belongs
<1>7. CASE n = 16
  <2>1. \A u : RowsIn(WorkOf(16), u) = LaunchRows(u)
    BY LaunchesWork, WorkNames
  <2>2. CASE t \in {"prefetch_execution", "prefetch_volume", "prefetch_file"}
    BY <2>1, <2>2, Parents, LaunchRowFacts, <1>7 DEF LaunchRows, PartOf, Belongs
  <2>3. CASE t \notin {"prefetch_execution", "prefetch_volume", "prefetch_file"}
    BY <1>2, <2>3, <1>7, <2>1 DEF LaunchRows, Belongs
  <2> QED BY <2>2, <2>3
<1>8. CASE n = 18
  BY LedgerWork, WorkNames, <1>2, <1>8 DEF LedgerRows, Belongs
<1> QED BY <1>1, <1>3, <1>4, <1>5, <1>6, <1>7, <1>8 DEF Belongs

\* Children belong when their parents and others' are put together.
LEMMA BelongsMore ==
  ASSUME NEW t, NEW R, NEW Q, NEW S, NEW U, Belongs(t, R, Q), Belongs(t, S, U)
  PROVE  Belongs(t, R \cup S, Q \cup U)
  BY DEF Belongs

\* At first no child is without its parent.
LEMMA ChildrenStart == Init => Children0
<1> SUFFICES ASSUME Init PROVE Children0
  OBVIOUS
<1>1. agenda = <<>> /\ db = [t \in Tables |-> {}]
  BY DEF Init
<1>2. \A t : RowsIn(agenda, t) = {}
  BY <1>1, NoneFacts
<1>3. \A t \in DOMAIN ParentOf : db[t] = {} /\ AllRows(t) = {}
  BY <1>1, <1>2, ParentTables DEF AllRows
<1>4. Ordered(agenda)
  BY <1>2, OrderedIf
<1> QED BY <1>3, <1>4 DEF Children0, Belongs

\* Every step keeps children with their parents.
LEMMA ChildrenStep == Typed /\ Children0 /\ [Next]_vars => Children0'
<1> SUFFICES ASSUME Typed, Children0, [Next]_vars PROVE Children0'
  OBVIOUS
<1>1. CASE Onward
  <2>1. Same /\ Proceeds
    BY <1>1, OnwardIsSame, OnwardProceeds
  <2>2. \A t \in DOMAIN ParentOf : AllRows(t)' = AllRows(t) /\ AllRows(ParentOf[t])' = AllRows(ParentOf[t])
    BY <2>1, ParentTables DEF Same
  <2>3. CASE UNCHANGED <<agenda, sources, observations, warnings, zone, setting, db>>
    BY <2>2, <2>3 DEF Children0
  <2>4. CASE /\ agenda # <<>> /\ agenda' = Tail(agenda) /\ sources' = sources \cup First(agenda)
             /\ \A t \in Tables \ Derived :
                  db'[t] = (IF Head(agenda).do = "insert" /\ Head(agenda).table = t
                            THEN db[t] \cup Head(agenda).rows ELSE db[t])
    <3>1. /\ Ordered(Tail(agenda))
          /\ Head(agenda).do = "insert" /\ Head(agenda).table \in DOMAIN ParentOf /\ Head(agenda).rows # {} =>
               RowsIn(Tail(agenda), ParentOf[Head(agenda).table]) = {}
      BY <2>4, OrderedTail DEF Typed, Children0
    <3>2. ASSUME NEW t \in DOMAIN ParentOf PROVE Belongs(t, db'[t], db'[ParentOf[t]])
      <4> DEFINE p == ParentOf[t]
      <4>1. t \in Tables \ Derived /\ p \in Tables \ Derived
        BY ParentTables
      <4>2. db[p] \subseteq db'[p]
        BY <2>4, <4>1
      <4>3. Belongs(t, db[t], db[p])
        BY DEF Children0
      <4>4. CASE db'[t] = db[t]
        BY <4>2, <4>3, <4>4 DEF Belongs
      <4>5. CASE db'[t] # db[t]
        BY <2>4, <4>1, <4>5, <3>1, <2>2 DEF AllRows, Children0, Belongs
      <4> QED BY <4>4, <4>5
    <3> QED BY <2>2, <2>4, <3>1, <3>2 DEF Children0
  <2> QED BY <2>1, <2>3, <2>4 DEF Proceeds
<1>2. CASE TakeUp
  <2>1. PICK a : Takes(a)
    BY <1>2, TakeUpTakes
  <2> DEFINE P == Artefact(a)
  <2>2. Gains(P) /\ Yields(a, P)
    BY <2>1 DEF Takes, Serves
  <2> HIDE DEF P
  <2>3. \A t : RowsIn(P, t) # {} => t \in ReadTables
    BY <2>2 DEF Yields, RowsAreCited
  <2>4. Ordered(P)
    BY <2>3, Childless
  <2>5. \A t \in DOMAIN ParentOf : RowsIn(P, t) = {}
    BY Parents, <2>3 DEF ReadTables
  <2>6. agenda' = P /\ db' = db /\ \A t : AllRows(t)' = db[t] \cup RowsIn(P, t)
    BY <2>2 DEF Gains
  <2>7. \A t \in DOMAIN ParentOf : Belongs(t, db[t], db[ParentOf[t]])
    BY DEF Children0
  <2>8. \A t \in DOMAIN ParentOf : AllRows(t)' = db[t] /\ db[ParentOf[t]] \subseteq AllRows(ParentOf[t])'
    BY <2>5, <2>6
  <2> QED BY <2>4, <2>6, <2>7, <2>8 DEF Children0, Belongs
<1>3. CASE NextStage
  <2>1. Advances
    BY <1>3, NextStageAdvances
  <2> DEFINE n == stage + 1
             P == WorkOf(n)
  <2>2. n \in 1..23 /\ Gains(P) /\ Lays(n, P)
    BY <2>1 DEF Advances
  <2>3. \A t \in DOMAIN ParentOf : Belongs(t, RowsIn(P, t), RowsIn(P, ParentOf[t]))
    BY <2>2, StageBelongs
  <2> HIDE DEF P, n
  <2>4. agenda' = P /\ db' = db /\ \A t : AllRows(t)' = db[t] \cup RowsIn(P, t)
    BY <2>2 DEF Gains
  <2>5. Ordered(P)
    BY <2>2 DEF Lays
  <2>6. \A t \in DOMAIN ParentOf : Belongs(t, db[t], db[ParentOf[t]])
    BY DEF Children0
  <2>7. ASSUME NEW t \in DOMAIN ParentOf PROVE Belongs(t, AllRows(t)', AllRows(ParentOf[t])')
    BY <2>3, <2>6, BelongsMore, <2>4
  <2> QED BY <2>4, <2>5, <2>6, <2>7 DEF Children0
<1> QED BY <1>1, <1>2, <1>3, NextCases
-----------------------------------------------------------------------------
\* In every reachable state the store, the ledger, the stage and the program
\* that is left of it are what they may be: the strengthening the other
\* invariants rest on.
THEOREM Typing == Spec => []Typed
<1> QED BY TypedStarts, TypedSteps, PTL DEF Spec

-----------------------------------------------------------------------------
\* An onward step changes no artefact's standing.
LEMMA SameArtefacts ==
  ASSUME Same, NEW a
  PROVE  (Begun(a)' <=> Begun(a)) /\ (Hashed(a)' <=> Hashed(a)) /\ (Loaded(a)' <=> Loaded(a))
  BY DEF Same, Begun, Hashed, Loaded

\* Hashing and loading depend on the fate alone.
LEMMA SameFate ==
  ASSUME UNCHANGED fate, NEW a
  PROVE  (Hashed(a)' <=> Hashed(a)) /\ (Loaded(a)' <=> Loaded(a))
  BY DEF Hashed, Loaded

\* Exactly the artefacts the run came to and could hash are, or will be, in the ledger.
SourcesExact == \A a \in Artefacts : a \in AllSources <=> Begun(a) /\ Hashed(a)

\* At first the sources are those of the artefacts taken up.
LEMMA SourcesStart == Init => SourcesExact
<1> SUFFICES ASSUME Init PROVE SourcesExact
  OBVIOUS
<1>1. stage = 0 /\ sources = {} /\ agenda = <<>>
  BY DEF Init
<1>2. AllSources = {}
  BY <1>1, NoneFacts DEF AllSources
<1>3. ASSUME NEW a \in Artefacts PROVE ~Begun(a)
  BY KindStage, <1>1 DEF Begun
<1> QED BY <1>2, <1>3 DEF SourcesExact

\* Every step keeps the sources exact.
LEMMA SourcesStep == Typed /\ SourcesExact /\ [Next]_vars => SourcesExact'
<1> SUFFICES ASSUME Typed, SourcesExact, [Next]_vars PROVE SourcesExact'
  OBVIOUS
<1>1. CASE Onward
  BY <1>1, OnwardIsSame, SameArtefacts DEF Same, SourcesExact
<1>2. CASE TakeUp
  <2>1. PICK a : Takes(a)
    BY <1>2, TakeUpTakes
  <2> DEFINE P == Artefact(a)
  <2>2. SourcesIn(P) \cap Artefacts = (IF Hashed(a) THEN {a} ELSE {}) /\ Gains(P)
    BY <2>1 DEF Takes, Serves, Attends
  <2>3. \A b \in Artefacts : Begun(b)' <=> Begun(b) \/ b = a
    BY <2>1 DEF Takes
  <2> HIDE DEF P
  <2>4. fate' = fate /\ AllSources = sources /\ AllSources' = sources \cup SourcesIn(P)
    BY <2>2 DEF Gains
  <2>5. ASSUME NEW b \in Artefacts PROVE b \in AllSources' <=> Begun(b)' /\ Hashed(b)'
    BY <2>4, SameFate, <2>2, <2>3 DEF SourcesExact
  <2> QED BY <2>5 DEF SourcesExact
<1>3. CASE NextStage
  <2>1. Advances
    BY <1>3, NextStageAdvances
  <2> DEFINE P == WorkOf(stage + 1)
  <2>2. SourcesIn(P) = {} /\ Gains(P)
    BY <2>1 DEF Advances, Lays
  <2> HIDE DEF P
  <2>3. fate' = fate /\ AllSources' = AllSources
    BY <2>2 DEF Gains
  <2>4. \A b \in Artefacts : Begun(b)' <=> Begun(b)
    BY <2>1 DEF Advances
  <2> QED BY <2>3, <2>4, SameFate DEF SourcesExact
<1> QED BY <1>1, <1>2, <1>3, NextCases

\* What was read, once nothing is laid out.
LEMMA ReadIsTaken ==
  ASSUME SourcesExact, AllSources = sources
  PROVE  \A kind : AllRead(kind) = Taken(kind)
<1> SUFFICES ASSUME NEW kind PROVE AllRead(kind) = Taken(kind)
  OBVIOUS
<1>1. ASSUME NEW a \in Artefacts PROVE Read(a) <=> Begun(a) /\ Loaded(a)
  BY DEF Read, Loaded, SourcesExact
<1> QED BY <1>1 DEF AllRead, Taken

-----------------------------------------------------------------------------
\* What is to be cited of a shortcut, jump list or prefetch file is cited as it is read.
FilesCited == \A a \in Artefacts : Kind[a] \in Files /\ Begun(a) /\ Loaded(a) => FileCites(a) \subseteq AllCites
Cited0 == \A t \in Cited : \A r \in AllRows(t) : CitedBy(r, AllCites)
CitedAll == FilesCited /\ Cited0

\* At first every row is cited.
LEMMA CitedStarts == Init => CitedAll
<1> SUFFICES ASSUME Init PROVE CitedAll
  OBVIOUS
<1>1. stage = 0 /\ agenda = <<>> /\ db = [t \in Tables |-> {}]
  BY DEF Init
<1>2. ASSUME NEW a \in Artefacts PROVE ~Begun(a)
  BY KindStage, <1>1 DEF Begun
<1>3. \A t \in Cited : AllRows(t) = {}
  BY EvidenceTables, <1>1, NoneFacts DEF Cited, AllRows
<1> QED BY <1>2, <1>3 DEF CitedAll, FilesCited, Cited0

\* A stage loads nothing of the evidence that is not cited, with what was cited before it.
LEMMA StageCited ==
  ASSUME FilesCited, NEW n \in 1..23, \A kind : AllRead(kind) = Taken(kind),
         NEW t \in Cited, NEW r \in RowsIn(WorkOf(n), t)
  PROVE  CitedBy(r, AllCites \cup CitesIn(WorkOf(n)))
<1>0. t \in Evidence /\ t \notin {"host_prefetch_setting", "event_field", "disk_partition",
           "prefetch_execution", "prefetch_file"}
  BY DEF Cited
<1>1. n \in {1, 4, 10, 14, 16, 18}
  BY WorkElse
<1>9. ASSUME NEW kind \in Files, NEW a \in AllRead(kind), CitedBy(r, FileCites(a))
      PROVE  CitedBy(r, AllCites \cup CitesIn(WorkOf(n)))
  BY <1>9, CitedMore DEF Taken, FilesCited
<1>2. CASE n = 1
  BY <1>0, EvidenceTables, RulesWork, WorkNames, <1>2
<1>3. CASE n = 4
  BY SettingWork, WorkNames, <1>0, <1>3
<1>4. CASE n = 10
  <2>1. RowsIn(WorkOf(10), t) = EventStageRows(t) /\ CitesIn(WorkOf(10)) = EventCites \cup recordDisks(EventDisks)
    BY EventsWork, WorkNames
  <2>2. r \in EventRows \/ r \in DiskRows(EventDisks)
    BY <1>0, <1>4, <2>1 DEF EventStageRows
  <2>3. CitedBy(r, EventCites) \/ CitedBy(r, recordDisks(EventDisks))
    BY <2>2, EventRowFacts, DiskRowFacts
  <2>4. EventCites \subseteq AllCites \cup CitesIn(WorkOf(n)) /\
             recordDisks(EventDisks) \subseteq AllCites \cup CitesIn(WorkOf(n))
    BY <1>4, <2>1
  <2> QED BY <2>3, <2>4, CitedMore
<1>5. CASE n = 14
  <2>1. RowsIn(WorkOf(14), t) = (IF t = "file_target" THEN TargetRows ELSE {})
    BY TargetsWork, WorkNames
  <2>2. r \in TargetRows
    BY <1>5, <2>1
  <2>3. r.source \in AllRead("LNK") \/ r.source \in AllRead("JUMPLIST")
    BY <2>2, TargetRowFacts
  <2>4. CitedBy(r, FileCites(r.source))
    BY <2>2, TargetRowFacts
  <2>5. "LNK" \in Files /\ "JUMPLIST" \in Files
    BY DEF Files
  <2> QED BY <1>9, <2>3, <2>4, <2>5
<1>6. CASE n = 16
  BY LaunchesWork, WorkNames, <1>0, <1>6, LaunchRowFacts, <1>9 DEF LaunchRows, Files
<1>7. CASE n = 18
  BY LedgerWork, WorkNames, <1>0, EvidenceTables, <1>7 DEF LedgerRows
<1> QED BY <1>1, <1>2, <1>3, <1>4, <1>5, <1>6, <1>7

\* The tables whose rows must be cited are evidence.
LEMMA CitedTables == Cited \subseteq Evidence /\ Cited \subseteq Tables \ Derived
  BY EvidenceTables DEF Cited

\* Every step keeps every such row cited.
LEMMA CitedSteps == Typed /\ SourcesExact /\ CitedAll /\ [Next]_vars => CitedAll'
<1> SUFFICES ASSUME Typed, SourcesExact, CitedAll, [Next]_vars PROVE CitedAll'
  OBVIOUS
<1>1. CASE Onward
  BY <1>1, OnwardIsSame, CitedTables, SameArtefacts DEF Same, FilesCited, CitedAll, Cited0
<1>2. CASE TakeUp
  <2>1. PICK a : Takes(a)
    BY <1>2, TakeUpTakes
  <2> DEFINE P == Artefact(a)
  <2>2. Cites(a, P) /\ RowsAreCited(a, P) /\ Gains(P)
    BY <2>1 DEF Takes, Serves, Yields
  <2>3. \A b \in Artefacts : Begun(b)' <=> Begun(b) \/ b = a
    BY <2>1 DEF Takes
  <2> HIDE DEF P
  <2>4. /\ fate' = fate /\ AllCites = observations /\ AllCites' = observations \cup CitesIn(P)
        /\ (\A t : AllRows(t) = db[t]) /\ \A t : AllRows(t)' = db[t] \cup RowsIn(P, t)
    BY <2>2 DEF Gains
  <2>5. ASSUME NEW b \in Artefacts, Kind[b] \in Files, Begun(b)', Loaded(b)'
        PROVE  FileCites(b) \subseteq AllCites'
    <3>1. Loaded(b)
      BY <2>4, <2>5, SameFate
    <3>2. CASE Begun(b)
      BY <2>5, <3>1, <3>2, <2>4 DEF CitedAll, FilesCited
    <3>3. CASE b = a
      BY <2>2, <2>5, <3>1, <3>3, <2>4 DEF Cites
    <3> QED BY <2>3, <2>5, <3>2, <3>3
  <2>6. ASSUME NEW t \in Cited, NEW r \in AllRows(t)' PROVE CitedBy(r, AllCites')
    <3>1. CASE r \in db[t]
      BY <2>4, <3>1, CitedMore DEF CitedAll, Cited0
    <3>2. CASE r \in RowsIn(P, t)
      BY <2>2, <2>4, <3>2, CitedMore DEF RowsAreCited
    <3> QED BY <2>4, <2>6, <3>1, <3>2
  <2>7. FilesCited'
    BY <2>5 DEF FilesCited
  <2>8. Cited0'
    BY <2>6 DEF Cited0
  <2> QED BY <2>7, <2>8 DEF CitedAll
<1>3. CASE NextStage
  <2>1. Advances
    BY <1>3, NextStageAdvances
  <2> DEFINE n == stage + 1
             P == WorkOf(n)
  <2>2. n \in 1..23 /\ Gains(P)
    BY <2>1 DEF Advances
  <2>3. AllSources = sources /\ AllCites = observations
    BY <2>2 DEF Gains
  <2>4. \A t \in Cited : \A r \in RowsIn(P, t) : CitedBy(r, AllCites \cup CitesIn(P))
    BY <2>2, <2>3, ReadIsTaken, StageCited DEF CitedAll
  <2>5. \A b \in Artefacts : Begun(b)' <=> Begun(b)
    BY <2>1 DEF Advances
  <2> HIDE DEF P, n
  <2>6. /\ fate' = fate /\ AllCites' = AllCites \cup CitesIn(P)
        /\ (\A t : AllRows(t) = db[t]) /\ \A t : AllRows(t)' = db[t] \cup RowsIn(P, t)
    BY <2>2, <2>3 DEF Gains
  <2>7. ASSUME NEW t \in Cited, NEW r \in AllRows(t)' PROVE CitedBy(r, AllCites')
    <3>1. CASE r \in db[t]
      BY <2>6, <3>1, CitedMore DEF CitedAll, Cited0
    <3>2. CASE r \in RowsIn(P, t)
      BY <2>4, <2>6, <3>2
    <3> QED BY <2>6, <2>7, <3>1, <3>2
  <2>8. Cited0'
    BY <2>7 DEF Cited0
  <2>9. FilesCited'
    <3>1. ASSUME NEW b \in Artefacts, Kind[b] \in Files, Begun(b)', Loaded(b)'
          PROVE  FileCites(b) \subseteq AllCites'
      BY <2>5, <2>6, <3>1, SameFate DEF CitedAll, FilesCited
    <3>2. \A b \in Artefacts : Kind[b] \in Files /\ Begun(b)' /\ Loaded(b)' => FileCites(b) \subseteq AllCites'
      BY <3>1
    <3> QED BY <3>2 DEF FilesCited
  <2> QED BY <2>8, <2>9 DEF CitedAll
<1> QED BY <1>1, <1>2, <1>3, NextCases

-----------------------------------------------------------------------------
\* A citation whose row is loaded once every file of its kind is read.
Awaited(o) == \E a \in Artefacts :
  /\ Kind[a] \in Files /\ Begun(a) /\ Loaded(a) /\ o \in FileCites(a)
  /\ stage < (IF Kind[a] = "PREFETCH" THEN 16 ELSE 14)
HasRow(o) == \E t \in Evidence : HeldBy(o, AllRows(t))
Held0 == \A o \in AllCites : o.kind = "host.prefetch_setting" \/ Awaited(o) \/ HasRow(o)

\* At first every observation has its row.
LEMMA HeldStarts == Init => Held0
<1> SUFFICES ASSUME Init PROVE Held0
  OBVIOUS
<1>1. agenda = <<>> /\ observations = {}
  BY DEF Init
<1>2. AllCites = {}
  BY <1>1, NoneFacts DEF AllCites
<1> QED BY <1>2 DEF Held0

\* An observation with a row keeps it as rows are added.
LEMMA HasRowMore ==
  ASSUME NEW o, HasRow(o), \A t \in Evidence : AllRows(t) \subseteq AllRows(t)'
  PROVE  HasRow(o)'
<1>1. PICK t \in Evidence : HeldBy(o, AllRows(t))
  BY DEF HasRow
<1>2. AllRows(t) \subseteq AllRows(t)'
  OBVIOUS
<1>3. HeldBy(o, AllRows(t)')
  BY <1>1, <1>2, HeldMore
<1> QED BY <1>3 DEF HasRow

\* The stages that load rows of what was cited before.
LEMMA StageHolds ==
  ASSUME NEW a, NEW o \in FileCites(a), NEW n \in {14, 16},
         n = 14 => a \in AllRead("LNK") \cup AllRead("JUMPLIST"), n = 16 => a \in AllRead("PREFETCH")
  PROVE  \E t \in Evidence : HeldBy(o, RowsIn(WorkOf(n), t))
<1>1. CASE n = 14
  <2>1. RowsIn(WorkOf(14), "file_target") = TargetRows
    BY TargetsWork, WorkNames
  <2>2. HeldBy(o, TargetRows)
    BY <1>1, TargetRowFacts
  <2> QED BY <1>1, <2>1, <2>2, EvidenceTables
<1>2. CASE n = 16
  <2>1. RowsIn(WorkOf(16), "prefetch_run") = RunRows /\ RowsIn(WorkOf(16), "prefetch_volume") = VolumeRows
    BY LaunchesWork, WorkNames DEF LaunchRows
  <2>2. HeldBy(o, RunRows) \/ HeldBy(o, VolumeRows)
    BY <1>2, LaunchRowFacts
  <2>3. "prefetch_run" \in Evidence /\ "prefetch_volume" \in Evidence
    BY EvidenceTables DEF LaunchTables
  <2> QED BY <1>2, <2>1, <2>2, <2>3
<1> QED BY <1>1, <1>2

\* Every step keeps every observation with a row.
LEMMA HeldSteps == Typed /\ SourcesExact /\ Held0 /\ [Next]_vars => Held0'
<1> SUFFICES ASSUME Typed, SourcesExact, Held0, [Next]_vars PROVE Held0'
  OBVIOUS
<1>1. CASE Onward
  BY <1>1, OnwardIsSame, EvidenceTables, SameArtefacts, HasRowMore DEF Same, Awaited, Held0
<1>2. CASE TakeUp
  <2>1. PICK a : Takes(a)
    BY <1>2, TakeUpTakes
  <2> DEFINE P == Artefact(a)
  <2>2. Cites(a, P) /\ Gains(P)
    BY <2>1 DEF Takes, Serves
  <2>3. /\ \A b \in Artefacts : Begun(b)' <=> Begun(b) \/ b = a
        /\ stage' = stage /\ a \in Artefacts /\ StageOf[Kind[a]] = stage
    BY <2>1 DEF Takes
  <2> HIDE DEF P
  <2>4. /\ fate' = fate /\ AllCites = observations /\ AllCites' = observations \cup CitesIn(P)
        /\ (\A t : AllRows(t) = db[t]) /\ \A t : AllRows(t)' = db[t] \cup RowsIn(P, t)
    BY <2>2 DEF Gains
  <2>5. ASSUME NEW o, Awaited(o) PROVE Awaited(o)'
    <3>1. PICK b \in Artefacts :
            /\ Kind[b] \in Files /\ Begun(b) /\ Loaded(b) /\ o \in FileCites(b)
            /\ stage < (IF Kind[b] = "PREFETCH" THEN 16 ELSE 14)
      BY <2>5 DEF Awaited
    <3>2. Begun(b)' /\ Loaded(b)'
      BY <2>3, <2>4, <3>1, SameFate
    <3> QED BY <2>3, <3>1, <3>2 DEF Awaited
  <2>6. \A o : HasRow(o) => HasRow(o)'
    BY <2>4, HasRowMore
  <2>7. ASSUME NEW o \in CitesIn(P) PROVE o.kind = "host.prefetch_setting" \/ Awaited(o)' \/ HasRow(o)'
    <3>1. CASE \E t \in ReadTables : HeldBy(o, RowsIn(P, t))
      <4>1. PICK t \in ReadTables : HeldBy(o, RowsIn(P, t))
        BY <3>1
      <4>2. t \in Evidence /\ RowsIn(P, t) \subseteq AllRows(t)'
        BY <2>4, EvidenceTables
      <4>3. HeldBy(o, AllRows(t)')
        BY <4>1, <4>2, HeldMore
      <4> QED BY <4>2, <4>3 DEF HasRow
    <3>2. CASE Kind[a] \in Files /\ Loaded(a) /\ o \in FileCites(a)
      BY <2>3, <2>4, <3>2, SameFate, StageOfKind DEF Files, Awaited
    <3> QED BY <2>2, <2>7, <3>1, <3>2 DEF Cites
  <2> QED BY <2>4, <2>5, <2>6, <2>7 DEF Held0
<1>3. CASE NextStage
  <2>1. Advances
    BY <1>3, NextStageAdvances
  <2> DEFINE n == stage + 1
             P == WorkOf(n)
  <2>2. n \in 1..23 /\ Gains(P) /\ stage' = n /\ n = stage + 1 /\ stage \in Nat
    BY <2>1 DEF Advances
  <2>3. AllSources = sources /\ AllCites = observations /\ fate' = fate
    BY <2>2 DEF Gains
  <2>4. \A kind : AllRead(kind) = Taken(kind)
    BY <2>3, ReadIsTaken
  <2>5. \A b \in Artefacts : Begun(b)' <=> Begun(b)
    BY <2>1 DEF Advances
  <2>6. ASSUME NEW o, Awaited(o), ~Awaited(o)' PROVE \E t \in Evidence : HeldBy(o, RowsIn(P, t))
    <3>1. PICK b \in Artefacts :
            /\ Kind[b] \in Files /\ Begun(b) /\ Loaded(b) /\ o \in FileCites(b)
            /\ stage < (IF Kind[b] = "PREFETCH" THEN 16 ELSE 14)
      BY <2>6 DEF Awaited
    <3>2. ~(n < (IF Kind[b] = "PREFETCH" THEN 16 ELSE 14))
      BY <2>3, <2>5, <3>1, SameFate, <2>2, <2>6 DEF Awaited
    <3>3. n = (IF Kind[b] = "PREFETCH" THEN 16 ELSE 14)
      BY <2>2, <3>1, <3>2
    <3>4. b \in AllRead(Kind[b])
      BY <2>4, <3>1 DEF Taken
    <3>5. n = 14 => b \in AllRead("LNK") \cup AllRead("JUMPLIST")
      BY <3>1, <3>3, <3>4 DEF Files
    <3>6. n = 16 => b \in AllRead("PREFETCH")
      BY <3>1, <3>3, <3>4 DEF Files
    <3> QED BY <3>1, <3>3, <3>5, <3>6, StageHolds
  <2>7. ASSUME NEW o \in CitesIn(P) PROVE \E t \in Evidence : HeldBy(o, RowsIn(P, t))
    <3>1. n = 10
      BY <2>2, <2>7, WorkElse
    <3>2. CitesIn(WorkOf(10)) = EventCites \cup recordDisks(EventDisks) /\
               \A t : RowsIn(WorkOf(10), t) = EventStageRows(t)
      BY EventsWork, WorkNames
    <3>3. HeldBy(o, EventRows) \/ HeldBy(o, DiskRows(EventDisks))
      BY <2>7, <3>1, <3>2, EventRowFacts, DiskRowFacts
    <3>4. EventStageRows("event") = EventRows /\ EventStageRows("disk_layout") = DiskRows(EventDisks)
      BY DEF EventStageRows
    <3>5. "event" \in Evidence /\ "disk_layout" \in Evidence
      BY EvidenceTables DEF EventTables
    <3> QED BY <3>1, <3>2, <3>3, <3>4, <3>5
  <2> HIDE DEF P, n
  <2>8. /\ AllCites' = AllCites \cup CitesIn(P)
        /\ (\A t : AllRows(t) = db[t]) /\ \A t : AllRows(t)' = db[t] \cup RowsIn(P, t)
    BY <2>2, <2>3 DEF Gains
  <2>9. \A o : HasRow(o) => HasRow(o)'
    BY <2>8, HasRowMore
  <2>10. ASSUME NEW o, \E t \in Evidence : HeldBy(o, RowsIn(P, t)) PROVE HasRow(o)'
    <3>1. PICK t \in Evidence : HeldBy(o, RowsIn(P, t))
      BY <2>10
    <3>2. HeldBy(o, AllRows(t)')
      BY <2>8, <3>1, HeldMore
    <3> QED BY <3>2 DEF HasRow
  <2> QED BY <2>6, <2>7, <2>8, <2>9, <2>10 DEF Held0
<1> QED BY <1>1, <1>2, <1>3, NextCases

-----------------------------------------------------------------------------
LedgerTables == {"source", "observation", "warning"}
\* The tables each stage loads.
Owned(n) ==
  CASE n = 1 -> RuleTables [] n = 4 -> {"host_prefetch_setting"} [] n = 10 -> EventTables
    [] n = 14 -> {"file_target"} [] n = 16 -> LaunchTables [] n = 18 -> LedgerTables [] OTHER -> {}

\* The tables each stage fills.
LEMMA OwnedAre ==
  /\ Owned(1) = RuleTables /\ Owned(4) = {"host_prefetch_setting"} /\ Owned(10) = EventTables
  /\ Owned(14) = {"file_target"} /\ Owned(16) = LaunchTables /\ Owned(18) = LedgerTables
  /\ \A n : n \notin {1, 4, 10, 14, 16, 18} => Owned(n) = {}
BY DEF Owned

\* A stage's work fills its own tables only.
LEMMA StageOwns ==
  ASSUME NEW n \in 1..23, NEW t, RowsIn(WorkOf(n), t) # {}
  PROVE  t \in Owned(n)
<1>1. n \in {1, 4, 10, 14, 16, 18}
  BY WorkElse
<1>2. CASE n = 1
  BY RulesWork, WorkNames, <1>2 DEF Owned
<1>3. CASE n = 4
  BY SettingWork, WorkNames, <1>3, OwnedAre
<1>4. CASE n = 10
  BY EventsWork, WorkNames, <1>4 DEF Owned, EventStageRows, EventTables
<1>5. CASE n = 14
  BY TargetsWork, WorkNames, <1>5 DEF Owned
<1>6. CASE n = 16
  BY LaunchesWork, WorkNames, <1>6 DEF Owned, LaunchRows, LaunchTables
<1>7. CASE n = 18
  BY LedgerWork, WorkNames, <1>7 DEF Owned, LedgerRows, LedgerTables
<1> QED BY <1>1, <1>2, <1>3, <1>4, <1>5, <1>6, <1>7

\* No two stages load one table, and none a table that is loaded as an artefact is read.
LEMMA OwnedOnce ==
  /\ \A t \in ReadTables : \A n : t \notin Owned(n)
  /\ \A n : n # 18 => Owned(n) \cap LedgerTables = {}
  /\ \A n : "host_prefetch_setting" \in Owned(n) => n = 4
  /\ \A n : "event" \in Owned(n) => n = 10
  /\ \A n : "disk_layout" \in Owned(n) => n = 10
  /\ \A n : "file_target" \in Owned(n) => n = 14
  /\ \A n : "prefetch_run" \in Owned(n) => n = 16
  /\ \A n : "prefetch_execution" \in Owned(n) => n = 16
<1>1. ASSUME NEW n PROVE \/ (Owned(n) = RuleTables /\ n = 1) \/ (Owned(n) = {"host_prefetch_setting"} /\ n = 4)
                         \/ (Owned(n) = EventTables /\ n = 10) \/ (Owned(n) = {"file_target"} /\ n = 14)
                         \/ (Owned(n) = LaunchTables /\ n = 16) \/ (Owned(n) = LedgerTables /\ n = 18)
                         \/ Owned(n) = {}
  <2>1. CASE n \in {1, 4, 10, 14, 16, 18}
    BY <2>1, OwnedAre
  <2>2. CASE n \notin {1, 4, 10, 14, 16, 18}
    BY <2>2, OwnedAre
  <2> QED BY <2>1, <2>2
<1>2. \A t \in ReadTables : \A n : t \notin Owned(n)
  BY <1>1 DEF ReadTables, RuleTables, EventTables, LaunchTables, LedgerTables
<1>3. \A n : n # 18 => Owned(n) \cap LedgerTables = {}
  BY <1>1 DEF RuleTables, EventTables, LaunchTables, LedgerTables
<1>4. \A n : "host_prefetch_setting" \in Owned(n) => n = 4
  BY <1>1 DEF RuleTables, EventTables, LaunchTables, LedgerTables
<1>5. \A n : "event" \in Owned(n) => n = 10
  BY <1>1 DEF RuleTables, EventTables, LaunchTables, LedgerTables
<1>6. \A n : "disk_layout" \in Owned(n) => n = 10
  BY <1>1 DEF RuleTables, EventTables, LaunchTables, LedgerTables
<1>7. \A n : "file_target" \in Owned(n) => n = 14
  BY <1>1 DEF RuleTables, EventTables, LaunchTables, LedgerTables
<1>8. \A n : "prefetch_run" \in Owned(n) => n = 16
  BY <1>1 DEF RuleTables, EventTables, LaunchTables, LedgerTables
<1>9. \A n : "prefetch_execution" \in Owned(n) => n = 16
  BY <1>1 DEF RuleTables, EventTables, LaunchTables, LedgerTables
<1> QED BY <1>2, <1>3, <1>4, <1>5, <1>6, <1>7, <1>8, <1>9

\* From its stage on, the ledger of the case is the ledger of the run.
LedgerSoFar(t) == CASE t = "source" -> AllSources [] t = "observation" -> AllCites [] t = "warning" -> AllWarns
Ledger0 == \A t \in LedgerTables : AllRows(t) = (IF stage < 18 THEN {} ELSE LedgerSoFar(t))

\* What of the ledger is laid out, and its tables.
LEMMA LedgerCases ==
  /\ LedgerSoFar("source") = AllSources /\ LedgerSoFar("observation") = AllCites /\
          LedgerSoFar("warning") = AllWarns
  /\ LedgerTables \subseteq Tables \ Derived /\ LedgerTables \cap ReadTables = {}
BY StepsAre DEF LedgerSoFar, LedgerTables, Tables, ReadTables

\* The ledger's rows follow from the totals.
LEMMA LedgerSame ==
  ASSUME AllSources' = AllSources, AllCites' = AllCites, AllWarns' = AllWarns
  PROVE  \A t \in LedgerTables : LedgerSoFar(t)' = LedgerSoFar(t)
  BY DEF LedgerSoFar, LedgerTables

\* At first the ledger is not loaded.
LEMMA LedgerStarts == Init => Ledger0
<1> SUFFICES ASSUME Init PROVE Ledger0
  OBVIOUS
<1>1. stage = 0 /\ agenda = <<>> /\ db = [t \in Tables |-> {}]
  BY DEF Init
<1>2. \A t \in LedgerTables : AllRows(t) = {}
  BY <1>1, NoneFacts, LedgerCases DEF AllRows
<1> QED BY <1>1, <1>2 DEF Ledger0

\* Every step keeps the loaded ledger equal to what was collected.
LEMMA LedgerSteps == Typed /\ Ledger0 /\ [Next]_vars => Ledger0'
<1> SUFFICES ASSUME Typed, Ledger0, [Next]_vars PROVE Ledger0'
  OBVIOUS
<1>1. CASE Onward
  BY <1>1, OnwardIsSame, LedgerCases, LedgerSame DEF Same, Ledger0
<1>2. CASE TakeUp
  <2>1. PICK a : Takes(a)
    BY <1>2, TakeUpTakes
  <2> DEFINE P == Artefact(a)
  <2>2. RowsAreCited(a, P) /\ Gains(P)
    BY <2>1 DEF Takes, Serves, Yields
  <2>3. stage' = stage /\ stage < 18
    BY <2>1, KindStage DEF Takes
  <2> HIDE DEF P
  <2>4. \A t \in LedgerTables : RowsIn(P, t) = {}
    BY <2>2, LedgerCases DEF RowsAreCited
  <2>5. \A t \in LedgerTables : AllRows(t)' = AllRows(t)
    BY <2>2, <2>4 DEF Gains
  <2> QED BY <2>3, <2>5 DEF Ledger0
<1>3. CASE NextStage
  <2>1. Advances
    BY <1>3, NextStageAdvances
  <2> DEFINE n == stage + 1
             P == WorkOf(n)
  <2>2. n \in 1..23 /\ Gains(P) /\ SourcesIn(P) = {} /\ stage' = n /\ stage \in 0..22
    BY <2>1 DEF Advances, Lays
  <2>3. n # 18 => \A t \in LedgerTables : RowsIn(P, t) = {}
    <3>1. ASSUME n # 18, NEW t \in LedgerTables, RowsIn(P, t) # {} PROVE FALSE
      BY <2>2, <3>1, StageOwns, OwnedOnce
    <3> QED BY <3>1
  <2>4. n \notin {2, 10, 17} => WarnsIn(P) = {}
    BY <2>2, WorkElse
  <2>5. n # 10 => CitesIn(P) = {}
    BY <2>2, WorkElse
  <2>6. n = 18 => \A t \in LedgerTables : RowsIn(P, t) = LedgerRows(t)
    BY LedgerWork, WorkNames
  <2>7. stage = n - 1 /\ n \in Nat
    BY <2>2
  <2> HIDE DEF P, n
  <2>8. \A t : AllRows(t) = db[t]
    BY <2>2 DEF Gains
  <2>9. \A t : AllRows(t)' = AllRows(t) \cup RowsIn(P, t)
    BY <2>2, <2>8 DEF Gains
  <2>10. CASE n < 18
    BY <2>3, <2>9, <2>10, <2>2, <2>7 DEF Ledger0
  <2>11. n >= 18 => AllSources' = AllSources /\ AllCites' = AllCites /\ AllWarns' = AllWarns
    BY <2>2, <2>4, <2>5 DEF Gains
  <2>12. CASE n = 18
    <3>1. \A t \in LedgerTables : AllRows(t)' = LedgerRows(t)
      BY <2>7, <2>12, <2>6, <2>9 DEF Ledger0
    <3>2. AllSources = sources /\ AllCites = observations /\ AllWarns = warnings
      BY <2>2 DEF Gains
    <3>3. \A t \in LedgerTables : LedgerSoFar(t) = LedgerRows(t)
      BY <3>2 DEF LedgerSoFar, LedgerRows, LedgerTables
    <3>4. \A t \in LedgerTables : LedgerSoFar(t)' = LedgerSoFar(t)
      BY <2>11, <2>12, LedgerSame
    <3> QED BY <2>2, <2>12, <3>1, <3>3, <3>4 DEF Ledger0
  <2>13. CASE n > 18
    BY <2>3, <2>9, <2>13, <2>7, <2>11, LedgerSame, <2>2 DEF Ledger0
  <2> QED BY <2>7, <2>10, <2>12, <2>13
<1> QED BY <1>1, <1>2, <1>3, NextCases

-----------------------------------------------------------------------------
\* Once the manifest is written nothing moves.
Last0 == stage = 23 => agenda = <<>> \/ agenda = <<[do |-> "publish"]>>
Published0 ==
  manifest.written =>
    /\ stage = 23 /\ agenda = <<>>
    /\ manifest = [written |-> TRUE, sources |-> sources, warnings |-> warnings,
                   observations |-> Cardinality(observations), outputs |-> outputs, counts |-> counts]
Ended == Last0 /\ Published0

\* At first there is no manifest.
LEMMA EndedStarts == Init => Ended
  BY DEF Init, Ended, Last0, Published0

\* A run whose last stage is over changes nothing more of the case.
LEMMA Resting ==
  ASSUME Typed, stage = 23, agenda = <<>>, [Next]_vars
  PROVE  UNCHANGED <<fate, stage, todo, agenda, zone, setting, sources, observations, warnings, db, settled,
              open, counts, outputs, manifest>>
<1>1. Len(Stages) = 23
  BY StageNames
<1>2. ~NextStage
  BY <1>1 DEF NextStage
<1>3. ~TakeUp
  <2>1. ASSUME NEW a, Takes(a) PROVE FALSE
    BY <2>1, KindStage DEF Takes
  <2> QED BY <2>1, TakeUpTakes
<1>4. \A what : ~Doing(what)
  BY DEF Doing
<1>5. Completes \/ UNCHANGED vars
  BY <1>2, <1>3, <1>4 DEF Next, AddSource, ObserveBatch, WarnOf, KeepZone, KeepSetting, CountUp, Insert, Derive,
     exportView, writeReport, Checkpoint, Close, RecordDatabase, Publish, Fails
<1> QED BY <1>5 DEF Completes, vars, control, kept, ledger, case, account

\* Only publishing writes the manifest.
LEMMA OnlyPublishes == [Next]_vars => Publish \/ manifest' = manifest
  BY DEF Next, NextStage, TakeUp, Completes, AddSource, ObserveBatch, WarnOf, KeepZone, KeepSetting,
       CountUp, Insert,
     Derive, exportView, writeReport, Checkpoint, Close, RecordDatabase, Fails, vars, account

\* Publishing is the last stage's.
LEMMA PublishesLast ==
  ASSUME Typed, Publish
  PROVE  stage = 23 /\ agenda # <<>> /\ agenda' = Tail(agenda)
<1>1. agenda # <<>> /\ agenda' = Tail(agenda) /\ Head(agenda).do = "publish"
  BY DEF Publish, Doing, Done
<1>2. Head(agenda) \in Items(agenda)
  BY <1>1, ItemsUnfold DEF Typed
<1>3. "publish" \in Does(agenda)
  BY <1>1, <1>2 DEF Does
<1>4. "publish" \in Doable(stage)
  BY <1>3 DEF Typed
<1>5. stage = 23
  BY <1>4 DEF Doable, Reading0
<1> QED BY <1>1, <1>5

\* A manifest is there only when all is done.
LEMMA EndedSteps == Typed /\ Ended /\ [Next]_vars => Ended'
<1> SUFFICES ASSUME Typed, Ended, [Next]_vars PROVE Ended'
  OBVIOUS
<1>1. Last0'
  <2>1. CASE Onward
    <3>1. Same /\ Proceeds
      BY <2>1, OnwardIsSame, OnwardProceeds
    <3>2. stage' = stage /\ (agenda' = agenda \/ (agenda # <<>> /\ agenda' = Tail(agenda)))
      BY <3>1 DEF Same, Proceeds
    <3>3. Tail(<<[do |-> "publish"]>>) = <<>>
      OBVIOUS
    <3> QED BY <3>2, <3>3 DEF Ended, Last0
  <2>2. CASE TakeUp
    <3>1. PICK a : Takes(a)
      BY <2>2, TakeUpTakes
    <3>2. a \in Artefacts /\ StageOf[Kind[a]] = stage' /\ 1 \in 1..23
      BY <3>1 DEF Takes
    <3>3. StageOf[Kind[a]] \in 1..15
      BY <3>2, KindStage
    <3> QED BY <3>2, <3>3 DEF Last0
  <2>3. CASE NextStage
    BY <2>3, NextStageAdvances, WorkNames DEF Advances, Gains, Last0
  <2> QED BY <2>1, <2>2, <2>3, NextCases
<1>2. Published0'
  <2>1. CASE manifest.written
    BY <2>1, Resting DEF Ended, Published0
  <2>2. CASE ~manifest.written /\ manifest' = manifest
    BY <2>2 DEF Published0
  <2>3. CASE Publish
    <3>1. stage = 23 /\ agenda # <<>> /\ agenda' = Tail(agenda)
      BY <2>3, PublishesLast
    <3>2. agenda = <<[do |-> "publish"]>>
      BY <3>1 DEF Ended, Last0
    <3>3. agenda' = <<>>
      BY <3>1, <3>2
    <3>4. /\ stage' = stage /\ UNCHANGED <<sources, warnings, observations, outputs, counts>>
          /\ manifest' = [written |-> TRUE, sources |-> sources, warnings |-> warnings,
                          observations |-> Cardinality(observations), outputs |-> outputs, counts |-> counts]
      BY <2>3 DEF Publish, Done, ledger
    <3> QED BY <3>1, <3>3, <3>4 DEF Published0
  <2> QED BY <2>1, <2>2, <2>3, OnlyPublishes
<1> QED BY <1>1, <1>2 DEF Ended

\* What the run had when it ended is in the case and in the manifest.
LEMMA InTheEnd ==
  ASSUME Ended, Ledger0, Published
  PROVE  /\ stage = 23 /\ agenda = <<>>
         /\ AllSources = sources /\ AllCites = observations /\ AllWarns = warnings /\ \A t : AllRows(t) = db[t]
         /\ db["source"] = sources /\ db["observation"] = observations /\ db["warning"] = warnings
         /\ manifest.sources = sources /\ manifest.warnings = warnings
         /\ manifest.observations = Cardinality(observations)
         /\ manifest.outputs = outputs /\ manifest.counts = counts
<1>1. /\ stage = 23 /\ agenda = <<>>
      /\ manifest = [written |-> TRUE, sources |-> sources, warnings |-> warnings,
                     observations |-> Cardinality(observations), outputs |-> outputs, counts |-> counts]
  BY DEF Ended, Published0, Published
<1>2. AllSources = sources /\ AllCites = observations /\ AllWarns = warnings /\ \A t : AllRows(t) = db[t]
  BY <1>1, NoneFacts DEF AllSources, AllCites, AllWarns, AllRows
<1>3. /\ manifest.sources = sources /\ manifest.warnings = warnings
      /\ manifest.observations = Cardinality(observations)
      /\ manifest.outputs = outputs /\ manifest.counts = counts
  BY <1>1
<1>4. AllRows("source") = AllSources /\ AllRows("observation") = AllCites /\ AllRows("warning") = AllWarns
  BY <1>1, LedgerCases DEF Ledger0, LedgerTables
<1> QED BY <1>1, <1>2, <1>3, <1>4

\* The parts of the invariant give CitationsMatch.
LEMMA CitationsIf == Ended /\ Ledger0 /\ CitedAll /\ Held0 => CitationsMatch
<1> SUFFICES ASSUME Ended, Ledger0, CitedAll, Held0, Published PROVE CitationsMatch
  BY DEF CitationsMatch, RowsCited, CitationsHeld
<1>1. /\ stage = 23 /\ AllCites = db["observation"] /\ \A t : AllRows(t) = db[t]
  BY InTheEnd
<1>2. \A t \in Cited : \A r \in db[t] : CitedBy(r, db["observation"])
  BY <1>1 DEF CitedAll, Cited0
<1>3. RowsCited
  BY <1>2 DEF RowsCited, CitedBy
<1>4. \A o : ~Awaited(o)
  BY <1>1 DEF Awaited
<1>5. \A o \in db["observation"] : o.kind = "host.prefetch_setting" \/ \E t \in Evidence : HeldBy(o, db[t])
  BY <1>1, <1>4 DEF Held0, HasRow
<1>6. CitationsHeld
  BY <1>5 DEF CitationsHeld, HeldBy
<1> QED BY <1>3, <1>6 DEF CitationsMatch

\* When the manifest is out, each row of a source is cited by an observation in the case
\* and, the prefetch setting apart, each observation has its row.
THEOREM CitationsAreMatched == Spec => []CitationsMatch
<1> DEFINE IInv == Typed /\ SourcesExact /\ CitedAll /\ Held0 /\ Ledger0 /\ Ended
<1>1. Init => IInv
  BY TypedStarts, SourcesStart, CitedStarts, HeldStarts, LedgerStarts, EndedStarts
<1>2. IInv /\ [Next]_vars => IInv'
  BY TypedSteps, SourcesStep, CitedSteps, HeldSteps, LedgerSteps, EndedSteps
<1>3. IInv => CitationsMatch
  BY CitationsIf
<1> QED BY <1>1, <1>2, <1>3, PTL DEF Spec

-----------------------------------------------------------------------------
\* A row of a disk has a source, or its event log could not be hashed.
LogUnhashed == \E a \in Artefacts : Kind[a] = "EVTX" /\ fate[a] = "unhashed"
Traced(r) == r.source \in sources \/ (r.source = None /\ LogUnhashed)
Disks0 == \A t \in Disks : \A r \in AllRows(t) : Traced(r)

\* The disks are loaded once every event log was come to.
LEMMA DiskSources ==
  ASSUME \A a \in Artefacts : Kind[a] = "EVTX" /\ Hashed(a) => a \in sources,
         NEW t \in Disks, NEW r \in EventStageRows(t)
  PROVE  Traced(r)
<1> DEFINE sourceOf == [a \in Artefacts |-> IF a \in sources THEN a ELSE None]
<1>1. t = "disk_layout" \/ t = "disk_partition"
  BY DEF Disks
<1>2. PICK d \in EventDisks : r.source = d.source
  <2>1. CASE t = "disk_layout"
    <3>1. PICK d \in EventDisks : r = Row(d.source, d.at, {d.instance}, d.partial)
      BY <2>1 DEF EventStageRows, DiskRows
    <3> QED BY <3>1, RowFacts
  <2>2. CASE t = "disk_partition"
    <3>1. PICK d \in EventDisks : \E q \in d.partitions : r = Row(d.source, d.at, {q}, FALSE)
      BY <2>2 DEF EventStageRows, PartitionRows
    <3> QED BY <3>1 DEF Row
  <2> QED BY <1>1, <2>1, <2>2
<1>3. PICK x \in Records : d.source = sourceOf[x.file]
  BY DEF EventDisks, DisksFromEvents
<1>4. PICK a \in Artefacts : Kind[a] = "EVTX" /\ x \in Parsed(a)
  BY DEF Records
<1>5. x.file = a /\ fate[a] # "skipped"
  BY <1>4, RecordsAssumption DEF Parsed
<1>6. CASE a \in sources
  BY <1>2, <1>3, <1>5, <1>6 DEF Traced
<1>7. CASE a \notin sources
  <2>1. fate[a] = "unhashed"
    BY <1>4, <1>5, <1>7 DEF Hashed
  <2> QED BY <1>2, <1>3, <1>4, <1>5, <1>7, <2>1 DEF Traced, LogUnhashed
<1> QED BY <1>6, <1>7

\* At first there are no disks.
LEMMA DisksStart == Init => Disks0
<1> SUFFICES ASSUME Init PROVE Disks0
  OBVIOUS
<1>1. agenda = <<>> /\ \A t \in Disks : db[t] = {}
  BY DEF Init, Disks, Tables
<1> QED BY <1>1, NoneFacts DEF Disks0, AllRows

\* Every step keeps it so.
LEMMA DisksStep == Typed /\ SourcesExact /\ Disks0 /\ [Next]_vars => Disks0'
<1> SUFFICES ASSUME Typed, SourcesExact, Disks0, [Next]_vars PROVE Disks0'
  OBVIOUS
<1>0. Disks \subseteq Tables \ Derived /\ Disks \cap ReadTables = {}
  BY StepsAre DEF Disks, Tables, ReadTables
<1>1. CASE Onward
  <2>1. Same /\ Proceeds
    BY <1>1, OnwardIsSame, OnwardProceeds
  <2>2. sources \subseteq sources' /\ fate' = fate /\ \A t \in Disks : AllRows(t)' = AllRows(t)
    BY <1>0, <2>1 DEF Same, Proceeds
  <2> QED BY <2>2 DEF Disks0, Traced, LogUnhashed
<1>2. CASE TakeUp
  <2>1. PICK a : Takes(a)
    BY <1>2, TakeUpTakes
  <2> DEFINE P == Artefact(a)
  <2>2. Gains(P) /\ Yields(a, P)
    BY <2>1 DEF Takes, Serves
  <2> HIDE DEF P
  <2>3. /\ sources' = sources /\ fate' = fate /\ \A t : AllRows(t) = db[t]
        /\ \A t : AllRows(t)' = db[t] \cup RowsIn(P, t)
    BY <2>2 DEF Gains
  <2>4. \A t \in Disks : RowsIn(P, t) = {}
    BY <1>0, <2>2 DEF Yields, RowsAreCited
  <2> QED BY <2>3, <2>4 DEF Disks0, Traced, LogUnhashed
<1>3. CASE NextStage
  <2>1. Advances
    BY <1>3, NextStageAdvances
  <2> DEFINE n == stage + 1
             P == WorkOf(n)
  <2>2. n \in 1..23 /\ Gains(P) /\ n = stage + 1 /\ stage \in 0..22
    BY <2>1 DEF Advances
  <2>3. ASSUME n = 10, NEW t \in Disks, NEW r \in RowsIn(P, t) PROVE Traced(r)
    <3>1. stage = 9
      BY <2>2, <2>3
    <3>2. \A a \in Artefacts : Kind[a] = "EVTX" /\ Hashed(a) => a \in sources
      <4> SUFFICES ASSUME NEW a \in Artefacts, Kind[a] = "EVTX", Hashed(a) PROVE a \in sources
        OBVIOUS
      <4>1. StageOf[Kind[a]] = 9
        BY DEF StageOf
      <4>2. Begun(a)
        BY <2>1, <3>1, <4>1 DEF Advances
      <4> QED BY <2>2, <4>2 DEF Gains, SourcesExact
    <3>3. RowsIn(P, t) = EventStageRows(t)
      BY <2>3, EventsWork, WorkNames
    <3> QED BY <2>3, <3>2, <3>3, DiskSources
  <2>4. ASSUME n # 10, NEW t \in Disks PROVE RowsIn(P, t) = {}
    <3>1. n \in {1, 4, 14, 16, 18} \/ Owned(n) = {}
      BY <2>4, OwnedAre
    <3>2. t \notin Owned(n)
      BY <3>1, OwnedAre DEF Disks, RuleTables, LaunchTables, LedgerTables
    <3> QED BY <2>2, <3>2, StageOwns
  <2> HIDE DEF P, n
  <2>5. /\ sources' = sources /\ fate' = fate /\ \A t : AllRows(t) = db[t]
        /\ \A t : AllRows(t)' = db[t] \cup RowsIn(P, t)
    BY <2>2 DEF Gains
  <2> QED BY <2>3, <2>4, <2>5 DEF Disks0, Traced, LogUnhashed
<1> QED BY <1>1, <1>2, <1>3, NextCases

\* With sources for all rows, disks apart, and parents for all children, rows are grounded.
LEMMA GroundedIf == Attested0 /\ Disks0 /\ Children0 => RowsGrounded
<1> SUFFICES ASSUME Attested0, Disks0, Children0 PROVE RowsGrounded
  OBVIOUS
<1>1. RowsAttested
  BY DEF Attested0, Disks0, Traced, LogUnhashed, AllRows, RowsAttested
<1>2. \A t \in DOMAIN ParentOf : \A c \in db[t] : \E p \in db[ParentOf[t]] : PartOf(t, c, p)
  BY DEF Children0, Belongs
<1>3. \A c \in db["event_field"] : \E p \in db["event"] : p.source = c.source /\ p.at = c.at
  BY <1>2, Parents DEF PartOf
<1>4. \A c \in db["disk_partition"] : \E p \in db["disk_layout"] : p.source = c.source /\ p.at = c.at
  BY <1>2, Parents DEF PartOf
<1>5. \A t \in {"prefetch_execution", "prefetch_volume", "prefetch_file"} :
        \A c \in db[t] : \E p \in db["prefetch_run"] : p.source = c.source
  BY <1>2, Parents DEF PartOf
<1>6. \A c \in db["rule_condition"] : c[1] \in db["rule"]
  BY <1>2, Parents DEF PartOf
<1>7. \A c \in db["rule_review_exception"] : c[1] \in db["rule_review_fact"]
  BY <1>2, Parents DEF PartOf
<1> QED BY <1>1, <1>3, <1>4, <1>5, <1>6, <1>7 DEF RowsGrounded, ChildrenFollow

\* Wherever a run stops, each row of the case came from a file it hashed, or is of a disk
\* of an event log that could not be, and each row that is part of another has that other
\* in the case before it.
THEOREM RowsAreGrounded == Spec => []RowsGrounded
<1> DEFINE IInv == Typed /\ SourcesExact /\ Attested0 /\ Disks0 /\ Children0
<1>1. Init => IInv
  BY TypedStarts, SourcesStart, AttestedStarts, DisksStart, ChildrenStart
<1>2. IInv /\ [Next]_vars => IInv'
  BY TypedSteps, SourcesStep, AttestedSteps, DisksStep, ChildrenStep
<1>3. IInv => RowsGrounded
  BY GroundedIf
<1> QED BY <1>1, <1>2, <1>3, PTL DEF Spec

-----------------------------------------------------------------------------
\* An artefact is taken up at its own stage.
LEMMA TakesStage ==
  ASSUME NEW a, Takes(a)
  PROVE  stage \in 1..15 /\ stage' = stage /\ a \in Artefacts /\ stage = StageOf[Kind[a]]
BY KindStage DEF Takes

\* What is said of an artefact stays said.
LEMMA SaidMore ==
  ASSUME NEW a, NEW W, NEW V, W \subseteq V, SaidOf(a, W)
  PROVE  SaidOf(a, V)
  BY DEF SaidOf

\* It depends on the fate alone.
LEMMA SaidStill ==
  ASSUME UNCHANGED fate, NEW a, NEW W
  PROVE  SaidOf(a, W) => SaidOf(a, W)'
  BY DEF SaidOf

\* Whatever the run came to and did not read whole, it has said or will say.
Said0 == \A a \in Artefacts : Begun(a) => SaidOf(a, AllWarns)

\* At first no artefact has been taken up.
LEMMA SaidStarts == Init => Said0
<1> SUFFICES ASSUME Init, NEW a \in Artefacts PROVE ~Begun(a)
  BY DEF Said0
<1>1. StageOf[Kind[a]] \in 1..15
  BY KindStage
<1> QED BY <1>1 DEF Begun, Init

\* Every step keeps every loss said.
LEMMA SaidSteps == Typed /\ Said0 /\ [Next]_vars => Said0'
<1> SUFFICES ASSUME Typed, Said0, [Next]_vars, NEW b \in Artefacts, Begun(b)' PROVE SaidOf(b, AllWarns)'
  BY DEF Said0
<1>1. CASE Onward
  BY <1>1, OnwardIsSame, SameArtefacts DEF Same, Said0, SaidOf
<1>2. CASE TakeUp
  <2>1. PICK a : Takes(a)
    BY <1>2, TakeUpTakes
  <2> DEFINE P == Artefact(a)
  <2>2. SaidOf(a, WarnsIn(P)) /\ Gains(P) /\ (Begun(b) \/ b = a)
    BY <2>1 DEF Takes, Serves, Says
  <2> HIDE DEF P
  <2>3. fate' = fate /\ AllWarns' = AllWarns \cup WarnsIn(P)
    BY <2>2 DEF Gains
  <2> DEFINE W == AllWarns \cup WarnsIn(P)
  <2>4. SaidOf(b, W)
    <3>1. AllWarns \subseteq W /\ WarnsIn(P) \subseteq W
      OBVIOUS
    <3>2. SaidOf(b, AllWarns) \/ SaidOf(b, WarnsIn(P))
      BY <2>2 DEF Said0
    <3> HIDE DEF W
    <3> QED BY <3>1, <3>2, SaidMore
  <2> HIDE DEF W
  <2>5. AllWarns' = W
    BY <2>3 DEF W
  <2> QED BY <2>3, <2>4, <2>5 DEF SaidOf
<1>3. CASE NextStage
  <2>1. Advances
    BY <1>3, NextStageAdvances
  <2> DEFINE P == WorkOf(stage + 1)
  <2>2. Gains(P) /\ Begun(b)
    BY <2>1 DEF Advances
  <2> HIDE DEF P
  <2>3. fate' = fate /\ AllWarns' = AllWarns \cup WarnsIn(P)
    BY <2>2 DEF Gains
  <2> DEFINE W == AllWarns \cup WarnsIn(P)
  <2>4. SaidOf(b, W)
    <3>1. AllWarns \subseteq W
      OBVIOUS
    <3>2. SaidOf(b, AllWarns)
      BY <2>2 DEF Said0
    <3> HIDE DEF W
    <3> QED BY <3>1, <3>2, SaidMore
  <2> HIDE DEF W
  <2>5. AllWarns' = W
    BY <2>3 DEF W
  <2> QED BY <2>3, <2>4, <2>5 DEF SaidOf
<1> QED BY <1>1, <1>2, <1>3, NextCases

-----------------------------------------------------------------------------
\* Rows read in part are of the tables that carry warnings, and are warned of.
Whole0 == \A t \in Evidence \ DOMAIN Carrying : \A r \in AllRows(t) : r.partial = FALSE
Tells(t, W) == \E w \in W : w.severity = "partial" /\ w.artefact = Carrying[t]
Told0 == stage >= 17 => \A t \in Evidence : (\E r \in AllRows(t) : r.partial) => Tells(t, AllWarns)
Partial0 == Whole0 /\ Told0

\* At first no row is partial.
LEMMA PartialStarts == Init => Partial0
<1> SUFFICES ASSUME Init PROVE Partial0
  OBVIOUS
<1>1. stage = 0 /\ agenda = <<>> /\ db = [t \in Tables |-> {}]
  BY DEF Init
<1>2. \A t \in Evidence : AllRows(t) = {}
  BY <1>1, NoneFacts, EvidenceTables DEF AllRows
<1> QED BY <1>1, <1>2 DEF Partial0, Whole0, Told0

\* A stage's work makes no partial row of a table that has none.
LEMMA StageWhole ==
  ASSUME NEW n \in 1..23, NEW t \in Evidence \ DOMAIN Carrying, NEW r \in RowsIn(WorkOf(n), t)
  PROVE  r.partial = FALSE
<1>0. t \in Evidence /\ t \notin {"shell_bag", "mru_entry", "user_assist", "disk_layout", "file_target",
           "prefetch_run"}
  BY CarryingTables
<1>1. t \in Owned(n)
  BY StageOwns
<1>2. CASE n = 4
  <2>1. RowsIn(WorkOf(4), t) = (IF t = "host_prefetch_setting" /\ setting.id # None
                                THEN {Row(setting.id, setting.found, {}, FALSE)} ELSE {})
    BY SettingWork, WorkNames
  <2>2. r = Row(setting.id, setting.found, {}, FALSE)
    BY <1>2, <2>1
  <2> QED BY <2>2 DEF Row
<1>3. CASE n = 10
  <2>1. RowsIn(WorkOf(10), t) = EventStageRows(t)
    BY EventsWork, WorkNames
  <2>2. r \in EventRows \/ r \in FieldRows \/ r \in PartitionRows(EventDisks)
    BY <1>0, <1>3, <2>1 DEF EventStageRows
  <2> QED BY <2>2, EventRowFacts, DiskRowFacts
<1>4. CASE n = 14
  BY <1>0, <1>1, <1>4, OwnedAre
<1>5. CASE n = 16
  BY LaunchesWork, WorkNames, <1>0, <1>5, LaunchRowFacts DEF LaunchRows
<1>6. CASE n = 1 \/ n = 18
  BY <1>0, <1>1, <1>6, OwnedAre, EvidenceTables DEF LedgerTables
<1>7. CASE n \notin {1, 4, 10, 14, 16, 18}
  BY <1>1, <1>7, OwnedAre
<1> QED BY <1>2, <1>3, <1>4, <1>5, <1>6, <1>7

\* Every step keeps every partial row to the tables that warn.
LEMMA PartialSteps == Typed /\ Partial0 /\ [Next]_vars => Partial0'
<1> SUFFICES ASSUME Typed, Partial0, [Next]_vars PROVE Partial0'
  OBVIOUS
<1>1. CASE Onward
  BY <1>1, OnwardIsSame, EvidenceTables DEF Same, Partial0, Whole0, Told0, Tells
<1>2. CASE TakeUp
  <2>1. PICK a : Takes(a)
    BY <1>2, TakeUpTakes
  <2> DEFINE P == Artefact(a)
  <2>2. RowsAreCited(a, P) /\ Gains(P)
    BY <2>1 DEF Takes, Serves, Yields
  <2>3. stage' = stage /\ ~(stage >= 17)
    BY <2>1, TakesStage
  <2> HIDE DEF P
  <2>4. \A t : AllRows(t)' = AllRows(t) \cup RowsIn(P, t)
    BY <2>2 DEF Gains
  <2>5. Whole0'
    BY <2>2, <2>4 DEF Partial0, Whole0, RowsAreCited
  <2> QED BY <2>3, <2>5 DEF Partial0, Told0
<1>3. CASE NextStage
  <2>1. Advances
    BY <1>3, NextStageAdvances
  <2> DEFINE n == stage + 1
             P == WorkOf(n)
  <2>2. n \in 1..23 /\ Gains(P) /\ stage' = n /\ stage \in 0..22
    BY <2>1 DEF Advances
  <2>3. \A t \in Evidence \ DOMAIN Carrying : \A r \in RowsIn(P, t) : r.partial = FALSE
    BY <2>2, StageWhole
  <2>4. n >= 17 => \A t \in Evidence : RowsIn(P, t) = {}
    <3>1. ASSUME n >= 17, NEW t \in Evidence, RowsIn(P, t) # {} PROVE FALSE
      BY <2>2, <3>1, StageOwns, OwnedAre, EvidenceTables DEF LedgerTables
    <3> QED BY <3>1
  <2>5. n = 17 => WarnsIn(P) = {[artefact |-> kind, path |-> None,
             severity |-> "partial"] : kind \in ParseWarnings(db)}
    BY PartialWork, WorkNames
  <2>6. stage = n - 1 /\ n \in Nat
    BY <2>2
  <2> HIDE DEF P, n
  <2>7. /\ \A t : AllRows(t)' = AllRows(t) \cup RowsIn(P, t)
        /\ AllWarns' = AllWarns \cup WarnsIn(P)
    BY <2>2 DEF Gains
  <2>8. \A t : AllRows(t) = db[t]
    BY <2>2 DEF Gains
  <2>9. Whole0'
    BY <2>3, <2>7 DEF Partial0, Whole0
  <2>10. ASSUME n >= 17, NEW t \in Evidence, NEW r \in AllRows(t)', r.partial PROVE Tells(t, AllWarns')
    <3>1. r \in AllRows(t)
      BY <2>4, <2>7, <2>10
    <3>2. CASE n = 17
      <4>1. t \in DOMAIN Carrying
        BY <2>10, <3>1 DEF Partial0, Whole0
      <4>2. Carrying[t] \in ParseWarnings(db)
        BY <2>8, <2>10, <3>1, <4>1 DEF ParseWarnings
      <4> DEFINE w == [artefact |-> Carrying[t], path |-> None, severity |-> "partial"]
      <4>3. w \in AllWarns'
        BY <2>5, <2>7, <3>2, <4>2
      <4>4. w.severity = "partial" /\ w.artefact = Carrying[t]
        OBVIOUS
      <4> HIDE DEF w
      <4> QED BY <4>3, <4>4 DEF Tells
    <3>3. CASE n > 17
      BY <2>6, <2>10, <3>1, <3>3, <2>7 DEF Partial0, Told0, Tells
    <3> QED BY <2>6, <2>10, <3>2, <3>3
  <2>11. Told0'
    BY <2>2, <2>10 DEF Told0, Tells
  <2> QED BY <2>9, <2>11 DEF Partial0
<1> QED BY <1>1, <1>2, <1>3, NextCases

-----------------------------------------------------------------------------
\* The zone the run goes by is one of the case, and the lack of one is said.
HasZone(v) == v # None /\ \E r \in AllRows("host_time_zone") : r.at = v
ZoneKept ==
  /\ \A v \in ValuesIn(agenda, "zone") : HasZone(v)
  /\ zone # None => HasZone(zone)
  /\ zone = None /\ ValuesIn(agenda, "zone") = {} => AllRows("host_time_zone") = {}
  /\ stage > 3 => ValuesIn(agenda, "zone") = {}
ZoneUsed ==
  /\ \A s \in AllRows("setup_section") : s.zone = zone
  /\ stage < 11 => AllRows("setup_section") = {}
Zoneless(W) == \E w \in W : w.artefact = "TimeZoneInformation"
ZoneSaid == Zoneless(AllWarns) <=> stage >= 10 /\ zone = None
Zone0 == ZoneKept /\ ZoneUsed /\ ZoneSaid

\* At first no zone is known or missed.
LEMMA ZoneStarts == Init => Zone0
<1> SUFFICES ASSUME Init PROVE Zone0
  OBVIOUS
<1>1. stage = 0 /\ agenda = <<>> /\ db = [t \in Tables |-> {}] /\ zone = None /\ warnings = {}
  BY DEF Init
<1>2. "host_time_zone" \in Tables /\ "setup_section" \in Tables
  BY EvidenceTables DEF ReadTables
<1>3. AllRows("host_time_zone") = {} /\ AllRows("setup_section") = {} /\ AllWarns = {}
  BY <1>1, <1>2, NoneFacts DEF AllRows, AllWarns
<1>4. ValuesIn(agenda, "zone") = {}
  BY <1>1, NoneFacts
<1> QED BY <1>1, <1>3, <1>4 DEF Zone0, ZoneKept, ZoneUsed, ZoneSaid, Zoneless

\* Warnings of partial tables are not the time zone's.
LEMMA CarryingNames == \A t \in DOMAIN Carrying : Carrying[t] # "TimeZoneInformation"
  BY DEF Carrying

\* Only ending the event logs warns of a missing zone, with none known.
LEMMA StageZoneless ==
  ASSUME NEW n \in 1..23
  PROVE  Zoneless(WarnsIn(WorkOf(n))) <=> n = 10 /\ zone = None
<1>1. CASE n = 10
  BY EventsWork, WorkNames, <1>1 DEF Zoneless
<1>2. CASE n = 2
  <2>1. \A w \in WarnsIn(WorkOf(2)) : w.artefact # "TimeZoneInformation"
    BY DiscoveryWork, WorkNames
  <2> QED BY <1>2, <2>1 DEF Zoneless
<1>3. CASE n = 17
  <2>1. WarnsIn(WorkOf(17)) = {[artefact |-> kind, path |-> None,
             severity |-> "partial"] : kind \in ParseWarnings(db)}
    BY PartialWork, WorkNames
  <2>2. \A kind \in ParseWarnings(db) : kind # "TimeZoneInformation"
    BY CarryingNames DEF ParseWarnings
  <2> QED BY <1>3, <2>1, <2>2 DEF Zoneless
<1>4. CASE n \notin {2, 10, 17}
  BY <1>4, WorkElse DEF Zoneless
<1> QED BY <1>1, <1>2, <1>3, <1>4

\* Every step keeps the zone's row, value and warning in agreement.
LEMMA ZoneSteps == Typed /\ Zone0 /\ [Next]_vars => Zone0'
<1> SUFFICES ASSUME Typed, Zone0, [Next]_vars PROVE Zone0'
  OBVIOUS
<1>0. stage \in Nat
  BY DEF Typed
<1>1. CASE Onward
  <2>1. Same
    BY <1>1, OnwardIsSame
  <2>2. /\ stage' = stage /\ AllWarns' = AllWarns
        /\ AllRows("host_time_zone")' = AllRows("host_time_zone")
        /\ AllRows("setup_section")' = AllRows("setup_section")
    BY <2>1, EvidenceTables DEF Same, ReadTables
  <2>3. \A v : HasZone(v) => HasZone(v)'
    BY <2>2 DEF HasZone
  <2>4. ValuesIn(agenda', "zone") \subseteq ValuesIn(agenda, "zone")
    BY <2>1 DEF Same, Moved
  <2>5. CASE zone' = zone /\ ValuesIn(agenda', "zone") = ValuesIn(agenda, "zone")
    BY <2>2, <2>3, <2>5 DEF Zone0, ZoneKept, ZoneUsed, ZoneSaid, Zoneless
  <2>6. CASE zone' \in ValuesIn(agenda, "zone")
    <3>1. stage < 11 /\ ~(stage >= 10) /\ ~(stage > 3)
      BY <1>0, <2>6 DEF Zone0, ZoneKept
    <3>2. HasZone(zone') /\ zone' # None
      BY <2>6 DEF Zone0, ZoneKept, HasZone
    <3>3. \A v \in ValuesIn(agenda', "zone") : HasZone(v)'
      BY <2>3, <2>4 DEF Zone0, ZoneKept
    <3>4. zone' # None /\ \E r \in AllRows("host_time_zone")' : r.at = zone'
      BY <2>2, <3>2 DEF HasZone
    <3>5. ZoneKept'
      BY <2>2, <3>1, <3>3, <3>4 DEF ZoneKept, HasZone
    <3>6. ZoneUsed'
      BY <2>2, <3>1 DEF Zone0, ZoneUsed
    <3>7. ZoneSaid'
      BY <2>2, <3>1 DEF Zone0, ZoneSaid, Zoneless
    <3> QED BY <3>5, <3>6, <3>7 DEF Zone0
  <2> QED BY <2>1, <2>5, <2>6 DEF Same, Moved
<1>2. CASE TakeUp
  <2>1. PICK a : Takes(a)
    BY <1>2, TakeUpTakes
  <2> DEFINE P == Artefact(a)
  <2>2. Says(a, P) /\ Yields(a, P) /\ Keeps(a, P) /\ Gains(P)
    BY <2>1 DEF Takes, Serves
  <2>3. stage' = stage /\ stage = StageOf[Kind[a]]
    BY <2>1, TakesStage
  <2> HIDE DEF P
  <2>4. /\ agenda = <<>> /\ agenda' = P /\ zone' = zone
        /\ \A t : AllRows(t)' = AllRows(t) \cup RowsIn(P, t)
    BY <2>2 DEF Gains
  <2>5. AllWarns' = AllWarns \cup WarnsIn(P)
    BY <2>2 DEF Gains
  <2>6. ValuesIn(agenda, "zone") = {}
    BY <2>4, NoneFacts
  <2>7. \A v : HasZone(v) => HasZone(v)'
    BY <2>4 DEF HasZone
  <2>8. ASSUME NEW v \in ValuesIn(P, "zone") PROVE HasZone(v)'
    <3>1. Kind[a] = "SYSTEM" /\ Loaded(a) /\ Zoned(a) /\ v = Holds[a].zone
      BY <2>2, <2>8 DEF Keeps
    <3>2. RowsIn(P, "host_time_zone") = {Row(a, v, {}, FALSE)}
      BY <2>2, <3>1 DEF Yields, ZoneRows
    <3>3. Row(a, v, {}, FALSE).at = v
      BY DEF Row
    <3>4. v # None
      BY <3>1 DEF Zoned
    <3> QED BY <2>4, <3>2, <3>3, <3>4 DEF HasZone
  <2>9. ASSUME ValuesIn(P, "zone") = {} PROVE RowsIn(P, "host_time_zone") = {}
    BY <2>2, <2>9 DEF Keeps, Yields, ZoneRows
  <2>10. stage > 3 => ValuesIn(P, "zone") = {}
    <3>1. ASSUME ValuesIn(P, "zone") # {} PROVE stage = 3
      BY <2>2, <3>1, <2>3, StageOfKind DEF Keeps
    <3> QED BY <3>1
  <2>11. ZoneKept'
    BY <2>3, <2>4, <2>6, <2>7, <2>8, <2>9, <2>10 DEF Zone0, ZoneKept
  <2>12. /\ \A r \in RowsIn(P, "setup_section") : r.zone = zone
         /\ stage < 11 => RowsIn(P, "setup_section") = {}
    BY <2>2, <2>3, StageOfKind DEF Yields
  <2>13. ZoneUsed'
    BY <2>3, <2>4, <2>12 DEF Zone0, ZoneUsed
  <2>14. ZoneSaid'
    BY <2>2, <2>3, <2>4, <2>5 DEF Zone0, ZoneSaid, Zoneless, Says
  <2> QED BY <2>11, <2>13, <2>14 DEF Zone0
<1>3. CASE NextStage
  <2>1. Advances
    BY <1>3, NextStageAdvances
  <2> DEFINE n == stage + 1
             P == WorkOf(n)
  <2>2. n \in 1..23 /\ Gains(P) /\ stage' = n /\ ValuesIn(P, "zone") = {}
    BY <2>1 DEF Advances, Lays
  <2>3. \A t \in ReadTables : RowsIn(P, t) = {}
    BY <2>2, StageOwns, OwnedOnce
  <2>4. Zoneless(WarnsIn(P)) <=> n = 10 /\ zone = None
    BY <2>2, StageZoneless
  <2>5. stage = n - 1 /\ n \in Nat
    BY <1>0
  <2> HIDE DEF P, n
  <2>6. /\ agenda = <<>> /\ agenda' = P /\ zone' = zone
        /\ \A t : AllRows(t)' = AllRows(t) \cup RowsIn(P, t)
    BY <2>2 DEF Gains
  <2>7. AllWarns' = AllWarns \cup WarnsIn(P)
    BY <2>2 DEF Gains
  <2>8. /\ AllRows("host_time_zone")' = AllRows("host_time_zone")
        /\ AllRows("setup_section")' = AllRows("setup_section")
    BY <2>3, <2>6 DEF ReadTables
  <2>9. ValuesIn(agenda, "zone") = {} /\ ValuesIn(agenda', "zone") = {}
    BY <2>2, <2>6, NoneFacts
  <2>10. ZoneKept'
    BY <2>6, <2>8, <2>9 DEF Zone0, ZoneKept, HasZone
  <2>11. ZoneUsed'
    BY <2>2, <2>5, <2>6, <2>8 DEF Zone0, ZoneUsed
  <2>12. ZoneSaid'
    BY <2>7, <2>4, <2>5, <2>2, <2>6 DEF Zoneless, Zone0, ZoneSaid
  <2> QED BY <2>10, <2>11, <2>12 DEF Zone0
<1> QED BY <1>1, <1>2, <1>3, NextCases

-----------------------------------------------------------------------------
\* The setting the run goes by is of a SYSTEM hive it read, the last, and is loaded once.
SettingKept ==
  /\ setting.id # None => setting.id \in Taken("SYSTEM")
  /\ \A v \in ValuesIn(agenda, "setting") : v.id \in Taken("SYSTEM")
  /\ setting.id = None /\ ValuesIn(agenda, "setting") = {} => Taken("SYSTEM") = {}
  /\ stage > 3 => ValuesIn(agenda, "setting") = {}
SettingLoaded ==
  AllRows("host_prefetch_setting") =
    (IF stage < 4 \/ setting.id = None THEN {} ELSE {Row(setting.id, setting.found, {}, FALSE)})
Setting0 == SettingKept /\ SettingLoaded

\* At first no setting is kept.
LEMMA SettingStarts == Init => Setting0
<1> SUFFICES ASSUME Init PROVE Setting0
  OBVIOUS
<1>1. stage = 0 /\ agenda = <<>> /\ db = [t \in Tables |-> {}] /\ setting.id = None
  BY DEF Init
<1>2. AllRows("host_prefetch_setting") = {}
  BY <1>1, NoneFacts, EvidenceTables DEF AllRows
<1>3. ASSUME NEW a \in Artefacts PROVE ~Begun(a)
  BY KindStage, <1>1 DEF Begun
<1>4. Taken("SYSTEM") = {}
  BY <1>3 DEF Taken
<1>5. ValuesIn(agenda, "setting") = {}
  BY <1>1, NoneFacts
<1> QED BY <1>1, <1>2, <1>4, <1>5 DEF Setting0, SettingKept, SettingLoaded

\* An artefact taken up is one.
LEMMA TakenNamed == ASSUME NEW kind, NEW a \in Taken(kind) PROVE a # None
  BY CaseAssumption DEF Taken

\* Every step keeps the setting and its row in agreement.
LEMMA SettingSteps == Typed /\ Setting0 /\ [Next]_vars => Setting0'
<1> SUFFICES ASSUME Typed, Setting0, [Next]_vars PROVE Setting0'
  OBVIOUS
<1>0. stage \in Nat
  BY DEF Typed
<1>1. CASE Onward
  <2>1. Same
    BY <1>1, OnwardIsSame
  <2>2. stage' = stage /\ AllRows("host_prefetch_setting")' = AllRows("host_prefetch_setting")
    BY <2>1, EvidenceTables DEF Same
  <2>3. Taken("SYSTEM")' = Taken("SYSTEM")
    BY <2>1, SameArtefacts DEF Taken
  <2>4. ValuesIn(agenda', "setting") \subseteq ValuesIn(agenda, "setting")
    BY <2>1 DEF Same, Moved
  <2>5. CASE setting' = setting /\ ValuesIn(agenda', "setting") = ValuesIn(agenda, "setting")
    BY <2>2, <2>3, <2>5 DEF Setting0, SettingKept, SettingLoaded
  <2>6. CASE setting' \in ValuesIn(agenda, "setting")
    <3>1. ~(stage > 3) /\ stage < 4
      BY <1>0, <2>6 DEF Setting0, SettingKept
    <3>2. setting'.id \in Taken("SYSTEM")
      BY <2>6 DEF Setting0, SettingKept
    <3>3. setting'.id # None
      BY <3>2, TakenNamed
    <3>4. SettingKept'
      BY <2>2, <2>3, <2>4, <3>1, <3>2, <3>3 DEF Setting0, SettingKept
    <3>5. SettingLoaded'
      BY <2>2, <3>1 DEF Setting0, SettingLoaded
    <3> QED BY <3>4, <3>5 DEF Setting0
  <2> QED BY <2>1, <2>5, <2>6 DEF Same, Moved
<1>2. CASE TakeUp
  <2>1. PICK a : Takes(a)
    BY <1>2, TakeUpTakes
  <2> DEFINE P == Artefact(a)
  <2>2. Yields(a, P) /\ Keeps(a, P) /\ Gains(P)
    BY <2>1 DEF Takes, Serves
  <2>3. \A b \in Artefacts : Begun(b)' <=> Begun(b) \/ b = a
    BY <2>1 DEF Takes
  <2>4. stage' = stage /\ stage = StageOf[Kind[a]] /\ a \in Artefacts
    BY <2>1, TakesStage
  <2> HIDE DEF P
  <2>5. /\ agenda = <<>> /\ agenda' = P /\ setting' = setting /\ fate' = fate
        /\ \A t : AllRows(t)' = AllRows(t) \cup RowsIn(P, t)
    BY <2>2 DEF Gains
  <2>6. ValuesIn(agenda, "setting") = {}
    BY <2>5, NoneFacts
  <2>7. Taken("SYSTEM")' = Taken("SYSTEM") \cup (IF Kind[a] = "SYSTEM" /\ Loaded(a) THEN {a} ELSE {})
    BY <2>5, SameFate, <2>3, <2>4 DEF Taken
  <2>8. "host_prefetch_setting" \notin ReadTables
    BY DEF ReadTables
  <2>9. RowsIn(P, "host_prefetch_setting") = {}
    BY <2>2, <2>8 DEF Yields, RowsAreCited
  <2>10. ValuesIn(P, "setting") = (IF Kind[a] = "SYSTEM" /\ Loaded(a) THEN {SettingOf(a)} ELSE {})
    BY <2>2 DEF Keeps
  <2>11. Kind[a] = "SYSTEM" => stage = 3
    BY <2>4, StageOfKind
  <2>12. SettingOf(a).id = a
    BY DEF SettingOf
  <2>13. SettingLoaded'
    BY <2>4, <2>5, <2>9 DEF Setting0, SettingLoaded
  <2>14. CASE Kind[a] = "SYSTEM" /\ Loaded(a)
    BY <2>7, <2>10, <2>14, <2>4, <2>5, <2>11, <2>12, <2>13 DEF Setting0, SettingKept
  <2>15. CASE ~(Kind[a] = "SYSTEM" /\ Loaded(a))
    BY <2>7, <2>10, <2>15, <2>4, <2>5, <2>6, <2>13 DEF Setting0, SettingKept
  <2> QED BY <2>14, <2>15
<1>3. CASE NextStage
  <2>1. Advances
    BY <1>3, NextStageAdvances
  <2> DEFINE n == stage + 1
             P == WorkOf(n)
  <2>2. n \in 1..23 /\ Gains(P) /\ stage' = n /\ ValuesIn(P, "setting") = {}
    BY <2>1 DEF Advances, Lays
  <2>3. \A b \in Artefacts : Begun(b)' <=> Begun(b)
    BY <2>1 DEF Advances
  <2>4. n # 4 => RowsIn(P, "host_prefetch_setting") = {}
    BY <2>2, StageOwns, OwnedOnce
  <2>5. n = 4 => RowsIn(P, "host_prefetch_setting") =
          (IF setting.id # None THEN {Row(setting.id, setting.found, {}, FALSE)} ELSE {})
    BY SettingWork, WorkNames
  <2>6. stage = n - 1 /\ n \in Nat
    BY <1>0
  <2> HIDE DEF P, n
  <2>7. /\ agenda = <<>> /\ agenda' = P /\ setting' = setting /\ fate' = fate
        /\ \A t : AllRows(t)' = AllRows(t) \cup RowsIn(P, t)
    BY <2>2 DEF Gains
  <2>8. ValuesIn(agenda, "setting") = {} /\ ValuesIn(agenda', "setting") = {}
    BY <2>2, <2>7, NoneFacts
  <2>9. Taken("SYSTEM")' = Taken("SYSTEM")
    BY <2>7, SameFate, <2>3 DEF Taken
  <2>10. SettingKept'
    BY <2>7, <2>8, <2>9 DEF Setting0, SettingKept
  <2>11. SettingLoaded'
    <3>1. AllRows("host_prefetch_setting")' = AllRows("host_prefetch_setting")
               \cup RowsIn(P, "host_prefetch_setting")
      BY <2>7
    <3>2. CASE n = 4
      <4>1. AllRows("host_prefetch_setting") = {}
        BY <2>6, <3>2 DEF Setting0, SettingLoaded
      <4>2. ~(stage' < 4)
        BY <2>2, <3>2
      <4> QED BY <2>5, <2>7, <3>1, <3>2, <4>1, <4>2 DEF SettingLoaded
    <3>3. CASE n # 4
      <4>1. stage < 4 <=> stage' < 4
        BY <2>2, <2>6, <3>3
      <4>2. AllRows("host_prefetch_setting")' = AllRows("host_prefetch_setting")
        BY <2>4, <3>1, <3>3
      <4> QED BY <2>7, <4>1, <4>2 DEF Setting0, SettingLoaded
    <3> QED BY <3>2, <3>3
  <2> QED BY <2>10, <2>11 DEF Setting0
<1> QED BY <1>1, <1>2, <1>3, NextCases

-----------------------------------------------------------------------------
\* At the last stage every artefact has been taken up.
LEMMA AllBegun ==
  ASSUME Typed, stage = 23
  PROVE  \A a \in Artefacts : Begun(a)
<1> SUFFICES ASSUME NEW a \in Artefacts PROVE Begun(a)
  OBVIOUS
<1>1. \A b \in Artefacts : StageOf[Kind[b]] \in 1..15
  BY KindStage
<1>2. PICK k \in DOMAIN Discovered : Discovered[k] = a
  BY DEF Artefacts
<1>3. k \notin todo
  BY <1>1, <1>2 DEF Typed
<1> QED BY <1>1, <1>2, <1>3 DEF Begun

\* A hive without a zone has no row of one.
OtherZone0 ==
  \A a \in Artefacts : fate[a] = "zoneless" => \A r \in AllRows("host_time_zone") : r.source # a

\* At first no hive has.
LEMMA OtherZoneStarts == Init => OtherZone0
<1> SUFFICES ASSUME Init PROVE OtherZone0
  OBVIOUS
<1>1. agenda = <<>> /\ db["host_time_zone"] = {}
  BY EvidenceTables DEF Init, ReadTables
<1> QED BY <1>1, NoneFacts DEF OtherZone0, AllRows

\* Every step keeps it so.
LEMMA OtherZoneSteps == Typed /\ OtherZone0 /\ [Next]_vars => OtherZone0'
<1> SUFFICES ASSUME Typed, OtherZone0, [Next]_vars PROVE OtherZone0'
  OBVIOUS
<1>1. CASE Onward
  BY <1>1, OnwardIsSame, EvidenceTables DEF Same, ReadTables, OtherZone0
<1>2. CASE TakeUp
  <2>1. PICK a : Takes(a)
    BY <1>2, TakeUpTakes
  <2> DEFINE P == Artefact(a)
  <2>2. Yields(a, P) /\ Gains(P)
    BY <2>1 DEF Takes, Serves
  <2> HIDE DEF P
  <2>3. fate' = fate /\ AllRows("host_time_zone")' = AllRows("host_time_zone") \cup RowsIn(P, "host_time_zone")
    BY <2>2 DEF Gains
  <2>4. ASSUME NEW r \in RowsIn(P, "host_time_zone") PROVE r.source = a /\ fate[a] # "zoneless"
    <3>1. r = Row(a, Holds[a].zone, {}, FALSE) /\ Zoned(a)
      BY <2>2, <2>4 DEF Yields, ZoneRows
    <3> QED BY <3>1 DEF Row, Zoned
  <2> QED BY <2>3, <2>4 DEF OtherZone0
<1>3. CASE NextStage
  <2>1. Advances
    BY <1>3, NextStageAdvances
  <2> DEFINE P == WorkOf(stage + 1)
  <2>2. stage + 1 \in 1..23 /\ Gains(P)
    BY <2>1 DEF Advances
  <2>3. RowsIn(P, "host_time_zone") = {}
    BY <2>2, StageOwns, OwnedOnce DEF ReadTables
  <2> HIDE DEF P
  <2> QED BY <2>2, <2>3 DEF Gains, OtherZone0
<1> QED BY <1>1, <1>2, <1>3, NextCases

\* What is passed over is not in the ledger, and no row is of it.
LEMMA PassedOverIsOut ==
  ASSUME SourcesExact, AllSources = sources, db["source"] = sources, RowsAttested,
         NEW a \in Artefacts, PassedOver(a)
  PROVE  LeftOut(a)
<1>1. a \notin sources /\ a # None
  BY CaseAssumption DEF SourcesExact, PassedOver, Hashed
<1> QED BY <1>1 DEF LeftOut, RowsAttested

\* The parts of the invariant give LossReachesTheCase.
LEMMA LossIf ==
  /\ Typed /\ Ended /\ Ledger0 /\ SourcesExact /\ RowsGrounded
  /\ Said0 /\ Partial0 /\ Zone0 /\ OtherZone0
  => LossReachesTheCase
<1> SUFFICES ASSUME Typed, Ended, Ledger0, SourcesExact, RowsGrounded,
                    Said0, Partial0, Zone0, OtherZone0, Published
             PROVE  LossReachesTheCase
  BY DEF LossReachesTheCase, WarningsReachTheCase, LossIsSaid
<1>1. /\ stage = 23 /\ agenda = <<>> /\ AllSources = sources /\ AllWarns = warnings /\ \A t : AllRows(t) = db[t]
      /\ db["source"] = sources /\ db["observation"] = observations /\ db["warning"] = warnings
      /\ manifest.sources = sources /\ manifest.warnings = warnings
      /\ manifest.observations = Cardinality(observations)
  BY InTheEnd
<1>2. \A t \in Evidence : (\E r \in db[t] : r.partial) => Tells(t, warnings)
  BY <1>1 DEF Partial0, Told0
<1>3. WarningsReachTheCase
  BY <1>1, <1>2 DEF WarningsReachTheCase, Tells
<1>4. ASSUME NEW a \in Artefacts
      PROVE  \/ fate[a] = "whole" \/ Warned(a)
             \/ PassedOver(a) /\ LeftOut(a)
             \/ /\ fate[a] = "zoneless"
                /\ OthersZone(a) \/ \E w \in manifest.warnings : w.artefact = "TimeZoneInformation"
  <2>1. SaidOf(a, warnings)
    BY <1>1, AllBegun DEF Said0
  <2>2. CASE fate[a] = "zoneless"
    <3>1. CASE zone # None
      <4>1. db["host_time_zone"] # {}
        BY <1>1, <3>1 DEF Zone0, ZoneKept, HasZone
      <4> QED BY <1>1, <2>2, <4>1 DEF OthersZone, OtherZone0
    <3>2. CASE zone = None
      BY <1>1, <3>2, <2>2 DEF Zone0, ZoneSaid, Zoneless
    <3> QED BY <3>1, <3>2
  <2>3. CASE PassedOver(a)
    BY <1>1, <2>3, PassedOverIsOut DEF RowsGrounded
  <2>4. CASE fate[a] # "zoneless" /\ ~PassedOver(a)
    BY <1>1, <2>1, <2>4 DEF SaidOf, PassedOver, Warned
  <2> QED BY <2>2, <2>3, <2>4
<1>5. LossIsSaid
  BY <1>4 DEF LossIsSaid
<1> QED BY <1>3, <1>5 DEF LossReachesTheCase

\* When the manifest is out, what was read in part is behind a warning, what was not read
\* is behind one or is not in the case at all, and the warnings of the case are those of
\* the manifest.
THEOREM EveryLossReachesTheCase == Spec => []LossReachesTheCase
<1> DEFINE IInv == Typed /\ Ended /\ Ledger0 /\ SourcesExact /\ Said0 /\ Partial0 /\ Zone0 /\ OtherZone0
<1>1. Init => IInv
  BY TypedStarts, EndedStarts, LedgerStarts, SourcesStart, SaidStarts, PartialStarts, ZoneStarts,
     OtherZoneStarts
<1>2. IInv /\ [Next]_vars => IInv'
  BY TypedSteps, EndedSteps, LedgerSteps, SourcesStep, SaidSteps, PartialSteps, ZoneSteps, OtherZoneSteps
<1>3. IInv /\ RowsGrounded => LossReachesTheCase
  BY LossIf
<1> QED BY <1>1, <1>2, <1>3, RowsAreGrounded, PTL DEF Spec

\* The parts of the invariant give HostSettingsHold.
LEMMA SettingsIf == Typed /\ Ended /\ Ledger0 /\ SourcesExact /\ Zone0 /\ Setting0 => HostSettingsHold
<1> SUFFICES ASSUME Typed, Ended, Ledger0, SourcesExact, Zone0, Setting0, Published PROVE HostSettingsHold
  BY DEF HostSettingsHold, SectionsInAZoneOfTheCase, SettingAnswered
<1>1. /\ stage = 23 /\ agenda = <<>> /\ AllSources = sources /\ AllWarns = warnings /\ \A t : AllRows(t) = db[t]
      /\ db["warning"] = warnings
  BY InTheEnd
<1>2. ValuesIn(agenda, "zone") = {} /\ ValuesIn(agenda, "setting") = {}
  BY <1>1, NoneFacts
<1>3. SectionsInAZoneOfTheCase
  <2> DEFINE zones == {z.at : z \in db["host_time_zone"]}
  <2>1. zone # None => zone \in zones
    BY <1>1 DEF Zone0, ZoneKept, HasZone
  <2>2. zone = None => zones = {}
    BY <1>1, <1>2 DEF Zone0, ZoneKept
  <2>3. \A s \in db["setup_section"] : s.zone = zone
    BY <1>1 DEF Zone0, ZoneUsed
  <2>4. zone = None <=> \E w \in db["warning"] : w.artefact = "TimeZoneInformation"
    BY <1>1 DEF Zone0, ZoneSaid, Zoneless
  <2> HIDE DEF zones
  <2>5. \A s \in db["setup_section"] : IF zones = {} THEN s.zone = None ELSE s.zone \in zones
    BY <2>1, <2>2, <2>3
  <2>6. zones = {} <=> \E w \in db["warning"] : w.artefact = "TimeZoneInformation"
    BY <2>1, <2>2, <2>4
  <2> QED BY <2>5, <2>6 DEF SectionsInAZoneOfTheCase, zones
<1>4. SettingAnswered
  <2>1. AllRead("SYSTEM") = Taken("SYSTEM")
    BY <1>1, ReadIsTaken
  <2>2. db["host_prefetch_setting"] =
          (IF setting.id = None THEN {} ELSE {Row(setting.id, setting.found, {}, FALSE)})
    <3>1. ~(stage < 4) /\ AllRows("host_prefetch_setting") = db["host_prefetch_setting"]
      BY <1>1
    <3>2. AllRows("host_prefetch_setting") =
            (IF stage < 4 \/ setting.id = None THEN {} ELSE {Row(setting.id, setting.found, {}, FALSE)})
      BY DEF Setting0, SettingLoaded
    <3> QED BY <3>1, <3>2
  <2>3. setting.id = None <=> Taken("SYSTEM") = {}
    BY <1>2 DEF Setting0, SettingKept
  <2>4. Cardinality({}) = 0 /\ \A x : Cardinality({x}) = 1
    BY FS_EmptySet, FS_Singleton
  <2>5. CASE setting.id = None
    BY <2>1, <2>2, <2>3, <2>4, <2>5 DEF SettingAnswered
  <2>6. CASE setting.id # None
    BY <2>2, <2>4, <2>6, <2>1, <2>3 DEF SettingAnswered
  <2> QED BY <2>5, <2>6
<1> QED BY <1>3, <1>4 DEF HostSettingsHold

\* When the manifest is out, local times were read in a zone the case has, or
\* not read and that said; the prefetch setting is answered once where it could be.
THEOREM HostSettingsAreTheCase == Spec => []HostSettingsHold
<1> DEFINE IInv == Typed /\ Ended /\ Ledger0 /\ SourcesExact /\ Zone0 /\ Setting0
<1>1. Init => IInv
  BY TypedStarts, EndedStarts, LedgerStarts, SourcesStart, ZoneStarts, SettingStarts
<1>2. IInv /\ [Next]_vars => IInv'
  BY TypedSteps, EndedSteps, LedgerSteps, SourcesStep, ZoneSteps, SettingSteps
<1>3. IInv => HostSettingsHold
  BY SettingsIf
<1> QED BY <1>1, <1>2, <1>3, PTL DEF Spec

-----------------------------------------------------------------------------
\* A step the run takes is one its stage may take.
LEMMA DoesDoable ==
  ASSUME Typed, NEW what, Doing(what)
  PROVE  what \in Doable(stage)
BY ItemsUnfold DEF Doing, Typed, Does

\* A step that moves neither the program nor the case nor what is written of it; the handle
\* may be given up.
Idling ==
  /\ UNCHANGED <<agenda, db, settled, counts, outputs>>
  /\ open' = open \/ open' = FALSE

\* What the stages after the ledger's may do.
LEMMA LateSteps ==
  ASSUME Typed, Onward
  PROVE  /\ stage = 19 => Idling \/ Derive
         /\ stage = 20 => Idling \/ exportView
         /\ stage = 21 => Idling \/ writeReport
         /\ stage = 22 => Idling \/ Checkpoint \/ Close \/ RecordDatabase
         /\ stage = 23 => Idling \/ Publish
<1>1. Completes \/ Fails \/ UNCHANGED vars => Idling
  BY DEF Completes, Fails, Idling, vars, control, case, account
<1>2. stage \in 19..23 => Doable(stage) \cap {"source", "observe", "warn", "zone", "setting", "count",
           "insert"} = {}
  BY Doables
<1>3. stage \in 19..23 => Idling \/ Derive \/ exportView \/ writeReport \/ Checkpoint \/ Close \/
           RecordDatabase \/ Publish
  BY <1>1, <1>2, DoesDoable DEF Onward, AddSource, ObserveBatch, WarnOf, KeepZone, KeepSetting, CountUp, Insert
<1>4. Derive => "derive" \in Doable(stage)
  BY DoesDoable DEF Derive
<1>5. exportView => "export" \in Doable(stage)
  BY DoesDoable DEF exportView
<1>6. writeReport => "report" \in Doable(stage)
  BY DoesDoable DEF writeReport
<1>7. Checkpoint => "checkpoint" \in Doable(stage)
  BY DoesDoable DEF Checkpoint
<1>8. Close => "close" \in Doable(stage)
  BY DoesDoable DEF Close
<1>9. RecordDatabase => "record" \in Doable(stage)
  BY DoesDoable DEF RecordDatabase
<1>10. Publish => "publish" \in Doable(stage)
  BY DoesDoable DEF Publish
<1>11. stage = 19 => Idling \/ Derive
  BY <1>3, <1>5, <1>6, <1>7, <1>8, <1>9, <1>10, Doables
<1>12. stage = 20 => Idling \/ exportView
  BY <1>3, <1>4, <1>6, <1>7, <1>8, <1>9, <1>10, Doables
<1>13. stage = 21 => Idling \/ writeReport
  BY <1>3, <1>4, <1>5, <1>7, <1>8, <1>9, <1>10, Doables
<1>14. stage = 22 => Idling \/ Checkpoint \/ Close \/ RecordDatabase
  BY <1>3, <1>4, <1>5, <1>6, <1>10, Doables
<1>15. stage = 23 => Idling \/ Publish
  BY <1>3, <1>4, <1>5, <1>6, <1>7, <1>8, <1>9, Doables
<1> QED BY <1>11, <1>12, <1>13, <1>14, <1>15

\* No artefact is taken up after the reading stages.
LEMMA TakenEarly ==
  ASSUME Typed, TakeUp
  PROVE  stage' = stage /\ stage \in 1..15
<1>1. PICK a : Takes(a)
  BY TakeUpTakes
<1>2. stage' = stage /\ a \in Artefacts /\ StageOf[Kind[a]] = stage /\ 1 \in 1..23
  BY <1>1 DEF Takes
<1>3. StageOf[Kind[a]] \in 1..15
  BY <1>2, KindStage
<1> QED BY <1>2, <1>3

\* The last n - d steps of a program of n, and one step less.
Rest(s, all, n, d) == Len(s) = n - d /\ \A k \in 1..(n - d) : s[k] = all[d + k]
\* When d steps are done the next is the d + 1st.
LEMMA RestUnfolds ==
  ASSUME NEW s, IsProgram(s), s # <<>>, NEW all, NEW n \in Nat, NEW d \in 0..n, Rest(s, all, n, d)
  PROVE  d + 1 \in 1..n /\ Head(s) = all[d + 1] /\ Rest(Tail(s), all, n, d + 1)
<1>1. /\ Len(s) \in Nat /\ Len(s) > 0 /\ Head(s) = s[1]
      /\ Len(Tail(s)) = Len(s) - 1 /\ \A k \in 1..(Len(s) - 1) : Tail(s)[k] = s[k + 1]
  BY ItemsUnfold
<1>2. Len(s) = n - d /\ \A k \in 1..(n - d) : s[k] = all[d + k]
  BY DEF Rest
<1>3. d + 1 \in 1..n /\ 1 \in 1..(n - d)
  BY <1>1, <1>2
<1>4. Head(s) = all[d + 1]
  BY <1>1, <1>2, <1>3
<1>5. Len(Tail(s)) = n - (d + 1)
  BY <1>1, <1>2
<1>6. ASSUME NEW k \in 1..(n - (d + 1)) PROVE Tail(s)[k] = all[(d + 1) + k]
  BY <1>2, <1>1
<1> QED BY <1>3, <1>4, <1>5, <1>6 DEF Rest

\* When nothing is left all are done.
LEMMA RestEnds ==
  ASSUME NEW all, NEW n \in Nat, NEW d \in 0..n, Rest(<<>>, all, n, d)
  PROVE  d = n
  BY DEF Rest

-----------------------------------------------------------------------------
\* The first d layers were computed from all their views read, the layers not yet filled
\* left out.
Drawn(k, u) == {p[2] : p \in {q \in db[Steps[k][1]] : q[1] = u}} = db[u]
DrawnUpTo(d) == \A k \in 1..d : \A u \in Steps[k][2] \ {Steps[j][1] : j \in k..4} : Drawn(k, u)
Derived0 ==
  /\ stage = 19 => \E d \in 0..4 : Rest(agenda, Consolidate, 4, d) /\ DrawnUpTo(d)
  /\ stage > 19 => DrawnUpTo(4)

\* Consolidating is the four derivations in order.
LEMMA ConsolidateIs ==
  /\ Len(Consolidate) = 4
  /\ \A k \in 1..4 : Consolidate[k] = [do |-> "derive", table |-> Steps[k][1], reads |-> Steps[k][2]]
  /\ IsProgram(Consolidate)
<1>1. Consolidate = [k \in 1..4 |-> [do |-> "derive", table |-> Steps[k][1], reads |-> Steps[k][2]]]
  BY StepsAre DEF Consolidate
<1>2. IsProgram(Consolidate)
  BY DeriveWork DEF IsIdle
<1>3. DOMAIN Consolidate = 1..4
  BY <1>1
<1>4. DOMAIN Consolidate = 1..Len(Consolidate) /\ Len(Consolidate) \in Nat
  BY <1>2 DEF IsProgram
<1>5. Len(Consolidate) = 4
  BY <1>3, <1>4
<1> QED BY <1>1, <1>2, <1>5

\* The derivations' tables and what they read are the store's.
LEMMA StepTables ==
  /\ \A k \in 1..4 : Steps[k][1] \in Tables
  /\ \A j, k \in 1..4 : Steps[j][1] = Steps[k][1] => j = k
  /\ \A k \in 1..4 : Steps[k][2] \subseteq Tables
<1>1. \A k \in 1..4 : k = 1 \/ k = 2 \/ k = 3 \/ k = 4
  OBVIOUS
<1>2. \A k \in 1..4 : Steps[k][1] \in Tables
  BY <1>1, StepsAre DEF Tables
<1>3. \A j, k \in 1..4 : Steps[j][1] = Steps[k][1] => j = k
  BY <1>1, StepsAre
<1>4. Steps[1][2] = GroupingReads /\ Steps[2][2] = FactReads /\ Steps[3][2] = AttributionReads /\
           Steps[4][2] = MomentReads
  BY DEF Steps
<1>5. /\ "device_group" \in Tables /\ "device_fact" \in Tables /\ "file_attribution" \in Tables
  BY StepsAre DEF Tables
<1>6. GroupingReads \subseteq Tables
  BY DEF GroupingReads, Tables
<1>7. FactReads \subseteq Tables
  BY <1>5 DEF FactReads, Tables
<1>8. AttributionReads \subseteq Tables
  BY <1>5 DEF AttributionReads, Tables
<1>9. MomentReads \subseteq Tables
  BY <1>5 DEF MomentReads, Tables
<1>10. \A k \in 1..4 : Steps[k][2] \subseteq Tables
  BY <1>1, <1>4, <1>6, <1>7, <1>8, <1>9
<1> QED BY <1>2, <1>3, <1>10

\* What a view drew of one table is that table.
LEMMA ViewDraws ==
  ASSUME NEW D, NEW reads, NEW u \in reads
  PROVE  {p[2] : p \in {q \in View(D, reads) : q[1] = u}} = D[u]
<1> DEFINE V == {q \in View(D, reads) : q[1] = u}
<1>1. ASSUME NEW p \in V PROVE p[2] \in D[u]
  <2>1. p \in View(D, reads) /\ p[1] = u
    OBVIOUS
  <2>2. PICK t \in reads : p \in {<<t, row>> : row \in D[t]}
    BY <2>1 DEF View
  <2>3. PICK row \in D[t] : p = <<t, row>>
    BY <2>2
  <2> QED BY <2>1, <2>3
<1>2. ASSUME NEW row \in D[u] PROVE <<u, row>> \in V /\ <<u, row>>[2] = row
  BY DEF View
<1> HIDE DEF V
<1>3. {p[2] : p \in V} = D[u]
  BY <1>1, <1>2
<1> QED BY <1>3 DEF V

\* One layer more is drawn, and those before it are not touched.
LEMMA OneMoreDrawn ==
  ASSUME Typed, NEW d \in 0..3, DrawnUpTo(d),
         db' = [db EXCEPT ![Steps[d + 1][1]] = View(db, Steps[d + 1][2])]
  PROVE  DrawnUpTo(d + 1)'
<1> DEFINE T == Steps[d + 1][1]
           R == Steps[d + 1][2]
<1>1. d + 1 \in 1..4 /\ T \in Tables /\ DOMAIN db = Tables
  BY StepTables DEF Typed
<1>2. db'[T] = View(db, R) /\ \A t \in Tables : t # T => db'[t] = db[t]
  BY <1>1
<1>3. ASSUME NEW k \in 1..(d + 1), NEW u \in Steps[k][2] \ {Steps[j][1] : j \in k..4}
      PROVE  Drawn(k, u)'
  <2>1. k \in 1..4 /\ u \in Tables /\ u # T
    BY <1>1, StepTables
  <2>2. db'[u] = db[u]
    BY <1>2, <2>1
  <2>3. CASE k = d + 1
    <3>1. u \in R
      BY <2>3
    <3>2. {p[2] : p \in {q \in View(db, R) : q[1] = u}} = db[u]
      BY <3>1, ViewDraws
    <3> QED BY <1>2, <2>2, <2>3, <3>2 DEF Drawn
  <2>4. CASE k # d + 1
    BY <2>4, <1>1, <2>1, StepTables, <1>2, <2>2 DEF DrawnUpTo, Drawn
  <2> QED BY <2>3, <2>4
<1> QED BY <1>3 DEF DrawnUpTo

\* At first no layer is drawn.
LEMMA DerivedStarts == Init => Derived0
  BY DEF Init, Derived0

\* Every step keeps the layers drawn so far those of the case.
LEMMA DerivedSteps == Typed /\ Derived0 /\ [Next]_vars => Derived0'
<1> SUFFICES ASSUME Typed, Derived0, [Next]_vars PROVE Derived0'
  OBVIOUS
<1>0. db' = db => \A d : DrawnUpTo(d)' <=> DrawnUpTo(d)
  BY DEF DrawnUpTo, Drawn
<1>1. CASE Onward
  <2>1. stage' = stage /\ stage \in 0..23
    BY <1>1, OnwardIsSame DEF Same, Typed
  <2>2. CASE stage = 19
    <3>1. PICK d \in 0..4 : Rest(agenda, Consolidate, 4, d) /\ DrawnUpTo(d)
      BY <2>2 DEF Derived0
    <3>2. CASE Idling
      BY <1>0, <2>1, <2>2, <3>1, <3>2 DEF Idling, Derived0
    <3>3. CASE Derive
      <4>1. /\ agenda # <<>> /\ agenda' = Tail(agenda) /\ IsProgram(agenda) /\ 4 \in Nat
            /\ db' = [db EXCEPT ![Head(agenda).table] = View(db, Head(agenda).reads)]
        BY <3>3 DEF Derive, Doing, Done, Typed
      <4>2. d + 1 \in 1..4 /\ Head(agenda) = Consolidate[d + 1] /\ Rest(agenda', Consolidate, 4, d + 1)
        BY <3>1, <4>1, RestUnfolds
      <4>3. Head(agenda).table = Steps[d + 1][1] /\ Head(agenda).reads = Steps[d + 1][2]
        BY <4>2, ConsolidateIs
      <4>4. DrawnUpTo(d + 1)'
        <5>1. d \in 0..3
          BY <4>2
        <5> QED BY <3>1, <4>1, <4>3, <5>1, OneMoreDrawn
      <4>5. d + 1 \in 0..4
        BY <4>2
      <4> QED BY <2>1, <2>2, <4>2, <4>4, <4>5 DEF Derived0
    <3> QED BY <1>1, <2>2, <3>2, <3>3, LateSteps
  <2>3. CASE stage > 19
    <3>1. stage = 20 \/ stage = 21 \/ stage = 22 \/ stage = 23
      BY <2>1, <2>3
    <3>2. db' = db
      BY <1>1, <3>1, LateSteps DEF Idling, exportView, writeReport, Checkpoint, Close, RecordDatabase, Publish, case
    <3> QED BY <1>0, <2>1, <2>3, <3>2 DEF Derived0
  <2>4. CASE stage < 19
    BY <2>1, <2>4 DEF Derived0
  <2> QED BY <2>1, <2>2, <2>3, <2>4
<1>2. CASE TakeUp
  BY <1>2, TakenEarly DEF Derived0
<1>3. CASE NextStage
  <2>1. /\ stage \in 0..22 /\ stage' = stage + 1 /\ agenda = <<>> /\ agenda' = WorkOf(stage + 1) /\ db' = db
    BY <1>3, NextStageAdvances DEF Advances, Gains
  <2>2. CASE stage + 1 = 19
    <3>1. agenda' = Consolidate
      BY <2>1, <2>2, WorkNames
    <3>2. Rest(agenda', Consolidate, 4, 0)
      BY <3>1, ConsolidateIs DEF Rest
    <3>3. DrawnUpTo(0)'
      BY DEF DrawnUpTo
    <3> QED BY <2>1, <2>2, <3>2, <3>3 DEF Derived0
  <2>3. CASE stage = 19
    <3>1. PICK d \in 0..4 : Rest(agenda, Consolidate, 4, d) /\ DrawnUpTo(d)
      BY <2>3 DEF Derived0
    <3>2. d = 4
      BY <2>1, <3>1, RestEnds
    <3>3. DrawnUpTo(4)'
      BY <1>0, <2>1, <3>1, <3>2
    <3> QED BY <2>1, <2>3, <3>3 DEF Derived0
  <2>4. CASE stage > 19
    BY <1>0, <2>1, <2>4 DEF Derived0
  <2>5. CASE stage + 1 < 19
    BY <2>1, <2>5 DEF Derived0
  <2> QED BY <2>1, <2>2, <2>3, <2>4, <2>5
<1> QED BY <1>1, <1>2, <1>3, NextCases

\* Each derived layer was computed from all that was loaded and from the layers
\* before it.
THEOREM LayersAreTheCase == Spec => []DerivedFromTheCase
<1> DEFINE IInv == Typed /\ Derived0 /\ Ended
<1>1. Init => IInv
  BY TypedStarts, DerivedStarts, EndedStarts
<1>2. IInv /\ [Next]_vars => IInv'
  BY TypedSteps, DerivedSteps, EndedSteps
<1>3. IInv => DerivedFromTheCase
  <2> SUFFICES ASSUME Ended, Derived0, Published PROVE DerivedFromTheCase
    BY DEF DerivedFromTheCase
  <2>1. stage = 23
    BY DEF Ended, Published0, Published
  <2>2. DrawnUpTo(4)
    BY <2>1 DEF Derived0
  <2>3. DOMAIN Steps = 1..4 /\ Len(Steps) = 4
    BY StepsAre DEF Steps
  <2> QED BY <2>2, <2>3 DEF DerivedFromTheCase, DrawnUpTo, Drawn
<1> QED BY <1>1, <1>2, <1>3, PTL DEF Spec

-----------------------------------------------------------------------------
\* A step appended is the only one added.
LEMMA AppendItems ==
  ASSUME NEW s, IsProgram(s), NEW x
  PROVE  IsProgram(Append(s, x)) /\ Items(Append(s, x)) = Items(s) \cup {x}
<1> DEFINE S == Items(s) \cup {x}
<1>1. s \in Seq(S) /\ x \in S
  BY DEF IsProgram
<1>2. /\ Append(s, x) \in Seq(S) /\ Len(Append(s, x)) = Len(s) + 1 /\ Len(s) \in Nat
      /\ \A k \in 1..Len(s) : Append(s, x)[k] = s[k]
      /\ Append(s, x)[Len(s) + 1] = x
  BY <1>1, AppendProperties
<1>3. DOMAIN Append(s, x) = 1..(Len(s) + 1) /\ DOMAIN s = 1..Len(s)
  BY <1>1, <1>2
<1>4. Items(Append(s, x)) \subseteq S
  <2> SUFFICES ASSUME NEW k \in 1..(Len(s) + 1) PROVE Append(s, x)[k] \in S
    BY <1>3 DEF Items
  <2>1. CASE k \in 1..Len(s)
    BY <1>2, <1>3, <2>1 DEF Items
  <2>2. CASE k = Len(s) + 1
    BY <1>2, <2>2
  <2> QED BY <1>2, <2>1, <2>2
<1>5. S \subseteq Items(Append(s, x))
  BY <1>2, <1>3 DEF Items
<1>6. IsProgram(Append(s, x))
  BY <1>2, ProgramsAre
<1> QED BY <1>4, <1>5, <1>6

-----------------------------------------------------------------------------
\* The files listed so far, the first d exports among them, each of the finished case.
Listed(name, holds) == \E o \in Items(outputs) : o.name = name /\ o.holds = holds
ExportedUpTo(d) == \A k \in 1..d : Listed(exports[k].name, View(db, exports[k].reads))
Files0 ==
  /\ IsProgram(outputs)
  /\ stage = 20 => \E d \in 0..7 : Rest(agenda, ExportAll, 7, d) /\ ExportedUpTo(d)
  /\ stage > 20 => ExportedUpTo(7)

\* The exports, in order.
LEMMA ExportAllIs ==
  /\ Len(ExportAll) = 7 /\ DOMAIN exports = 1..7
  /\ \A k \in 1..7 : ExportAll[k].name = exports[k].name /\ ExportAll[k].reads = exports[k].reads
<1>1. DOMAIN exports = 1..7
  BY DEF exports
<1>2. ExportAll = [k \in 1..7 |-> [do |-> "export", name |-> exports[k].name, reads |-> exports[k].reads]]
  BY <1>1 DEF ExportAll
<1>3. IsProgram(ExportAll)
  BY ExportWork DEF IsIdle
<1>4. Len(ExportAll) = 7
  BY <1>2, <1>3 DEF IsProgram
<1> QED BY <1>1, <1>2, <1>4

\* Recording the database is checkpoint, close, record.
LEMMA RecordIs ==
  /\ IsProgram(recordCaseDatabase) /\ Len(recordCaseDatabase) = 3
  /\ recordCaseDatabase[1].do = "checkpoint" /\ recordCaseDatabase[2].do = "close"
  /\ recordCaseDatabase[3].do = "record"
<1>1. IsProgram(recordCaseDatabase)
  BY LastWork DEF IsIdle
<1> DEFINE x == [do |-> "checkpoint"]
           y == [do |-> "close"]
           z == [do |-> "record"]
<1>2. recordCaseDatabase = <<x, y, z>>
  BY DEF recordCaseDatabase
<1>3. x.do = "checkpoint" /\ y.do = "close" /\ z.do = "record"
  OBVIOUS
<1> HIDE DEF x, y, z
<1>4. Len(<<x, y, z>>) = 3 /\ <<x, y, z>>[1] = x /\ <<x, y, z>>[2] = y /\ <<x, y, z>>[3] = z
  OBVIOUS
<1> QED BY <1>1, <1>2, <1>3, <1>4

\* A list of files is only added to.
LEMMA FilesStay ==
  ASSUME IsProgram(outputs), [Next]_vars
  PROVE  IsProgram(outputs') /\ Items(outputs) \subseteq Items(outputs')
<1>1. CASE outputs' = outputs
  BY <1>1
<1>2. ASSUME NEW x, outputs' = Append(outputs, x) PROVE IsProgram(outputs') /\
                  Items(outputs) \subseteq Items(outputs')
  BY <1>2, AppendItems
<1>3. CASE RecordDatabase
  <2> DEFINE x == [name |-> "case.duckdb", holds |-> settled]
             y == [name |-> "case.duckdb.wal", holds |-> db]
             u == When(settled # db, <<y>>)
  <2>1. outputs' = outputs \o <<x>> \o u
    BY <1>3 DEF RecordDatabase
  <2> HIDE DEF x, y
  <2>2. IsProgram(<<x>>) /\ IsProgram(u)
    BY ItemsOfOne, ItemsOfNone DEF When
  <2> HIDE DEF u
  <2>3. IsProgram(outputs \o <<x>>) /\ Items(outputs) \subseteq Items(outputs \o <<x>>)
    BY <2>2, ItemsOfJoin
  <2>4. IsProgram(outputs \o <<x>> \o u) /\ Items(outputs \o <<x>>) \subseteq Items(outputs \o <<x>> \o u)
    BY <2>2, <2>3, ItemsOfJoin
  <2> QED BY <2>1, <2>3, <2>4
<1>4. CASE exportView
  BY <1>2, <1>4 DEF exportView
<1>5. CASE writeReport
  BY <1>1, <1>2, <1>5 DEF writeReport
<1>6. exportView \/ writeReport \/ RecordDatabase \/ outputs' = outputs
  BY DEF Next, NextStage, TakeUp, Completes, AddSource, ObserveBatch, WarnOf, KeepZone, KeepSetting,
       CountUp, Insert,
     Derive, Checkpoint, Close, Publish, Fails, vars, account
<1> QED BY <1>1, <1>3, <1>4, <1>5, <1>6

\* From the exports on, the case is finished.
LEMMA CaseStays ==
  ASSUME Typed, [Next]_vars, stage >= 20
  PROVE  db' = db
<1>1. CASE Onward
  <2>1. stage = 20 \/ stage = 21 \/ stage = 22 \/ stage = 23
    BY DEF Typed
  <2> QED BY <1>1, <2>1, LateSteps DEF Idling, exportView, writeReport, Checkpoint, Close, RecordDatabase,
           Publish, case
<1>2. CASE TakeUp
  BY <1>2 DEF TakeUp, case
<1>3. CASE NextStage
  BY <1>3 DEF NextStage, case
<1> QED BY <1>1, <1>2, <1>3, NextCases

\* An export listed stays listed.
LEMMA ListedStays ==
  ASSUME Typed, IsProgram(outputs), [Next]_vars, stage >= 20, NEW d, ExportedUpTo(d)
  PROVE  ExportedUpTo(d)'
BY FilesStay, CaseStays DEF ExportedUpTo, Listed

\* At first nothing is exported.
LEMMA FilesStart == Init => Files0
  BY ItemsOfNone DEF Init, Files0

\* Every step keeps the exports done so far those of the case.
LEMMA FilesStep == Typed /\ Files0 /\ [Next]_vars => Files0'
<1> SUFFICES ASSUME Typed, Files0, [Next]_vars PROVE Files0'
  OBVIOUS
<1>0. IsProgram(outputs) /\ IsProgram(outputs')
  BY FilesStay DEF Files0
<1>1. CASE Onward
  <2>1. stage' = stage /\ stage \in 0..23
    BY <1>1, OnwardIsSame DEF Same, Typed
  <2>2. CASE stage = 20
    <3>1. PICK d \in 0..7 : Rest(agenda, ExportAll, 7, d) /\ ExportedUpTo(d)
      BY <2>2 DEF Files0
    <3>2. ExportedUpTo(d)'
      BY <1>0, <2>2, <3>1, ListedStays
    <3>3. CASE Idling
      BY <1>0, <2>1, <2>2, <3>1, <3>2, <3>3 DEF Idling, Files0
    <3>4. CASE exportView
      <4> DEFINE x == [name |-> Head(agenda).name, holds |-> View(db, Head(agenda).reads)]
      <4>1. /\ agenda # <<>> /\ agenda' = Tail(agenda) /\ IsProgram(agenda) /\ 7 \in Nat /\ db' = db
            /\ outputs' = Append(outputs, x)
        BY <3>4 DEF exportView, Doing, Done, Typed, case
      <4>2. d + 1 \in 1..7 /\ Head(agenda) = ExportAll[d + 1] /\ Rest(agenda', ExportAll, 7, d + 1)
        BY <3>1, <4>1, RestUnfolds
      <4>3. x.name = exports[d + 1].name /\ x.holds = View(db', exports[d + 1].reads)
        BY <4>1, <4>2, ExportAllIs
      <4> HIDE DEF x
      <4>4. x \in Items(outputs')
        BY <1>0, <4>1, AppendItems
      <4>5. Listed(exports[d + 1].name, View(db, exports[d + 1].reads))'
        BY <4>3, <4>4 DEF Listed
      <4>6. ExportedUpTo(d + 1)'
        <5>1. ASSUME NEW k \in 1..(d + 1) PROVE Listed(exports[k].name, View(db, exports[k].reads))'
          <6>1. CASE k = d + 1
            BY <4>5, <6>1
          <6>2. CASE k # d + 1
            BY <6>2, <3>2 DEF ExportedUpTo
          <6> QED BY <6>1, <6>2
        <5> QED BY <5>1 DEF ExportedUpTo
      <4>7. d + 1 \in 0..7
        BY <4>2
      <4> QED BY <1>0, <2>1, <2>2, <4>2, <4>6, <4>7 DEF Files0
    <3> QED BY <1>1, <2>2, <3>3, <3>4, LateSteps
  <2>3. CASE stage > 20
    BY <1>0, <2>1, <2>3, ListedStays DEF Files0
  <2>4. CASE stage < 20
    BY <1>0, <2>1, <2>4 DEF Files0
  <2> QED BY <2>1, <2>2, <2>3, <2>4
<1>2. CASE TakeUp
  BY <1>2, TakenEarly, <1>0 DEF Files0
<1>3. CASE NextStage
  <2>1. stage \in 0..22 /\ stage' = stage + 1 /\ agenda = <<>> /\ agenda' = WorkOf(stage + 1)
    BY <1>3, NextStageAdvances DEF Advances, Gains
  <2>2. CASE stage + 1 = 20
    <3>1. Rest(agenda', ExportAll, 7, 0)
      <4>1. agenda' = ExportAll
        BY <2>1, <2>2, WorkNames
      <4> QED BY <4>1, ExportAllIs DEF Rest
    <3>2. ExportedUpTo(0)'
      BY DEF ExportedUpTo
    <3> QED BY <1>0, <2>1, <2>2, <3>1, <3>2 DEF Files0
  <2>3. CASE stage = 20
    <3>1. PICK d \in 0..7 : Rest(agenda, ExportAll, 7, d) /\ ExportedUpTo(d)
      BY <2>3 DEF Files0
    <3>2. d = 7
      BY <2>1, <3>1, RestEnds
    <3>3. ExportedUpTo(7)'
      BY <1>0, <2>3, <3>1, <3>2, ListedStays
    <3> QED BY <1>0, <2>1, <2>3, <3>3 DEF Files0
  <2>4. CASE stage > 20
    BY <1>0, <2>1, <2>4, ListedStays DEF Files0
  <2>5. CASE stage + 1 < 20
    BY <1>0, <2>1, <2>5 DEF Files0
  <2> QED BY <2>1, <2>2, <2>3, <2>4, <2>5
<1> QED BY <1>1, <1>2, <1>3, NextCases

-----------------------------------------------------------------------------
\* The case file as it is listed: closed, and whole with the log beside it.
Settled ==
  /\ ~open /\ Listed("case.duckdb", settled)
  /\ settled = db \/ \E o \in Items(outputs) : o.name = "case.duckdb.wal"
File0 ==
  /\ stage = 22 => \E d \in 0..3 :
       Rest(agenda, recordCaseDatabase, 3, d) /\ (d >= 2 => ~open) /\ (d = 3 => Settled)
  /\ stage = 23 => Settled

\* What is settled stays so while the case does.
LEMMA SettledStays ==
  ASSUME IsProgram(outputs), [Next]_vars, Settled, db' = db, settled' = settled, open' = open \/ open' = FALSE
  PROVE  Settled'
BY FilesStay DEF Settled, Listed

\* Recording a closed database lists it as it is.
LEMMA RecordSettles ==
  ASSUME IsProgram(outputs), ~open, RecordDatabase
  PROVE  Settled'
<1> DEFINE x == [name |-> "case.duckdb", holds |-> settled]
           y == [name |-> "case.duckdb.wal", holds |-> db]
           u == When(settled # db, <<y>>)
<1>1. outputs' = outputs \o <<x>> \o u /\ db' = db /\ settled' = settled /\ open' = open
  BY DEF RecordDatabase, case
<1>2. x.name = "case.duckdb" /\ x.holds = settled' /\ y.name = "case.duckdb.wal"
  BY <1>1
<1> HIDE DEF x, y
<1>3. IsProgram(<<x>>) /\ Items(<<x>>) = {x} /\ IsProgram(u) /\ (settled # db => y \in Items(u))
  BY ItemsOfOne, ItemsOfNone DEF When
<1> HIDE DEF u
<1>4. IsProgram(outputs \o <<x>>) /\ x \in Items(outputs \o <<x>>)
  BY <1>3, ItemsOfJoin
<1>5. Items(outputs \o <<x>> \o u) = Items(outputs \o <<x>>) \cup Items(u)
  BY <1>3, <1>4, ItemsOfJoin
<1>6. x \in Items(outputs') /\ (settled' # db' => y \in Items(outputs'))
  BY <1>1, <1>3, <1>4, <1>5
<1> QED BY <1>1, <1>2, <1>6 DEF Settled, Listed

\* At first the database is not recorded.
LEMMA FileStarts == Init => File0
  BY DEF Init, File0

\* Every step keeps the database's settling on its way.
LEMMA FileSteps == Typed /\ Files0 /\ File0 /\ [Next]_vars => File0'
<1> SUFFICES ASSUME Typed, Files0, File0, [Next]_vars PROVE File0'
  OBVIOUS
<1>0. IsProgram(outputs)
  BY DEF Files0
<1>1. CASE Onward
  <2>1. stage' = stage /\ stage \in 0..23
    BY <1>1, OnwardIsSame DEF Same, Typed
  <2>2. CASE stage = 22
    <3>1. PICK d \in 0..3 :
           Rest(agenda, recordCaseDatabase, 3, d) /\ (d >= 2 => ~open) /\ (d = 3 => Settled)
      BY <2>2 DEF File0
    <3>2. CASE Idling
      <4>1. d = 3 => Settled'
        BY <1>0, <3>1, <3>2, SettledStays DEF Idling
      <4>2. d >= 2 => ~open'
        BY <3>1, <3>2 DEF Idling
      <4> QED BY <2>1, <2>2, <3>1, <3>2, <4>1, <4>2 DEF Idling, File0
    <3>3. ASSUME NEW what, Doing(what), Done
          PROVE  /\ d + 1 \in 1..3 /\ Rest(agenda', recordCaseDatabase, 3, d + 1)
                 /\ recordCaseDatabase[d + 1].do = what
      BY <3>3, <3>1, RestUnfolds DEF Doing, Done, Typed
    <3>4. CASE Checkpoint
      BY <3>4, <3>3, RecordIs, <2>1, <2>2 DEF Checkpoint, File0
    <3>5. CASE Close
      BY <3>5, <3>3, RecordIs, <2>1, <2>2 DEF Close, File0
    <3>6. CASE RecordDatabase
      <4>1. Doing("record") /\ Done /\ open' = open
        BY <3>6 DEF RecordDatabase, case
      <4>2. d + 1 \in 1..3 /\ Rest(agenda', recordCaseDatabase, 3, d + 1) /\ recordCaseDatabase[d + 1].do = "record"
        BY <3>3, <4>1
      <4>3. d = 2
        BY <4>2, RecordIs
      <4>4. 3 \in 0..3 /\ Rest(agenda', recordCaseDatabase, 3, 3)
        BY <4>2, <4>3
      <4>5. ~open
        BY <3>1, <4>3
      <4>6. Settled'
        BY <1>0, <3>6, <4>5, RecordSettles
      <4> QED BY <2>1, <2>2, <4>1, <4>4, <4>5, <4>6 DEF File0
    <3> QED BY <1>1, <2>2, <3>2, <3>4, <3>5, <3>6, LateSteps
  <2>3. CASE stage = 23
    <3>1. db' = db /\ settled' = settled /\ (open' = open \/ open' = FALSE)
      BY <1>1, <2>3, LateSteps DEF Idling, Publish, case
    <3>2. Settled'
      BY <1>0, <2>3, <3>1, SettledStays DEF File0
    <3> QED BY <2>1, <2>3, <3>2 DEF File0
  <2>4. CASE stage < 22
    BY <2>1, <2>4 DEF File0
  <2> QED BY <2>1, <2>2, <2>3, <2>4
<1>2. CASE TakeUp
  BY <1>2, TakenEarly DEF File0
<1>3. CASE NextStage
  <2>1. stage \in 0..22 /\ stage' = stage + 1 /\ agenda = <<>> /\ agenda' = WorkOf(stage + 1)
    BY <1>3, NextStageAdvances DEF Advances, Gains
  <2>2. CASE stage + 1 = 22
    <3>1. Rest(agenda', recordCaseDatabase, 3, 0)
      <4>1. agenda' = recordCaseDatabase
        BY <2>1, <2>2, WorkNames
      <4> QED BY <4>1, RecordIs DEF Rest
    <3> QED BY <2>1, <2>2, <3>1 DEF File0
  <2>3. CASE stage = 22
    <3>1. PICK d \in 0..3 : Rest(agenda, recordCaseDatabase, 3, d) /\ (d = 3 => Settled)
      BY <2>3 DEF File0
    <3>2. d = 3
      BY <2>1, <3>1, RestEnds
    <3>3. db' = db /\ settled' = settled /\ open' = open
      BY <1>3 DEF NextStage, case
    <3>4. Settled'
      BY <1>0, <3>1, <3>2, <3>3, SettledStays
    <3> QED BY <2>1, <2>3, <3>4 DEF File0
  <2>4. CASE stage + 1 < 22
    BY <2>1, <2>4 DEF File0
  <2> QED BY <2>1, <2>2, <2>3, <2>4
<1> QED BY <1>1, <1>2, <1>3, NextCases

\* At the end the files are the case's.
LEMMA FilesIf == Ended /\ Ledger0 /\ Files0 /\ File0 => OutputsAreTheCase /\ CaseFileSettled
<1> SUFFICES ASSUME Ended, Ledger0, Files0, File0, Published PROVE OutputsAreTheCase /\ CaseFileSettled
  BY DEF OutputsAreTheCase, CaseFileSettled
<1>1. stage = 23 /\ manifest.outputs = outputs
  BY InTheEnd
<1>2. ExportedUpTo(7) /\ Settled
  BY <1>1 DEF Files0, File0
<1>3. OutputsAreTheCase
  BY <1>1, <1>2, ExportAllIs DEF OutputsAreTheCase, ExportedUpTo, Listed, Items
<1>4. CaseFileSettled
  BY <1>1, <1>2 DEF CaseFileSettled, Settled, Listed, Items
<1> QED BY <1>3, <1>4

-----------------------------------------------------------------------------
\* As many images as elements where no two have one image, and never more.
LEMMA ImageFacts ==
  ASSUME NEW S, IsFiniteSet(S), NEW f
  PROVE  /\ IsFiniteSet({f[x] : x \in S}) /\ Cardinality({f[x] : x \in S}) <= Cardinality(S)
         /\ (\A x, y \in S : f[x] = f[y] => x = y) => Cardinality({f[x] : x \in S}) = Cardinality(S)
<1> DEFINE T == {f[x] : x \in S}
           g == [x \in S |-> f[x]]
<1>1. g \in [S -> T] /\ \A x \in S : g[x] = f[x]
  OBVIOUS
<1>2. g \in Surjection(S, T)
  BY <1>1 DEF Surjection
<1>3. ASSUME \A x, y \in S : f[x] = f[y] => x = y PROVE g \in Injection(S, T)
  BY <1>1, <1>3 DEF Injection, IsInjective
<1> HIDE DEF g, T
<1>4. /\ IsFiniteSet(T) /\ Cardinality(T) <= Cardinality(S)
      /\ Cardinality(T) = Cardinality(S) <=> g \in Injection(S, T)
  BY <1>2, FS_Surjection
<1> QED BY <1>3, <1>4 DEF T

\* Things with the files they were read from, and a row for each of them.
Things(A, T) == UNION {{From(a, x) : x \in T[a]} : a \in A}
RowsOfThings(A, T, place, names, partial) ==
  UNION {{Row(a, place[x], names[x], partial[x]) : x \in T[a]} : a \in A}

\* A thing read is one of its file's, and each file's is read.
LEMMA ThingIs ==
  ASSUME NEW A, NEW T
  PROVE  /\ \A p \in Things(A, T) : p.source \in A /\ p.of \in T[p.source] /\ p = From(p.source, p.of)
         /\ \A a \in A : \A x \in T[a] : From(a, x) \in Things(A, T)
<1>1. ASSUME NEW p \in Things(A, T)
      PROVE  p.source \in A /\ p.of \in T[p.source] /\ p = From(p.source, p.of)
  <2>1. PICK a \in A : p \in {From(a, x) : x \in T[a]}
    BY DEF Things
  <2>2. PICK x \in T[a] : p = From(a, x)
    BY <2>1
  <2> QED BY <2>2, FromFacts
<1>2. \A a \in A : \A x \in T[a] : From(a, x) \in Things(A, T)
  BY DEF Things
<1> QED BY <1>1, <1>2

\* Finitely many things of each of finitely many files.
LEMMA ThingsFinite ==
  ASSUME NEW A, IsFiniteSet(A), NEW T, \A a \in A : IsFiniteSet(T[a])
  PROVE  IsFiniteSet(Things(A, T))
<1> DEFINE G == [a \in A |-> {From(a, x) : x \in T[a]}]
<1>1. ASSUME NEW a \in A PROVE IsFiniteSet({From(a, x) : x \in T[a]})
  <2> DEFINE h == [x \in T[a] |-> From(a, x)]
  <2>1. {h[x] : x \in T[a]} = {From(a, x) : x \in T[a]}
    OBVIOUS
  <2> HIDE DEF h
  <2>2. IsFiniteSet({h[x] : x \in T[a]})
    BY ImageFacts
  <2> QED BY <2>1, <2>2
<1>2. \A a \in A : G[a] = {From(a, x) : x \in T[a]} /\ IsFiniteSet(G[a])
  BY <1>1
<1>3. Things(A, T) = UNION {G[a] : a \in A}
  BY DEF Things
<1> HIDE DEF G
<1>4. IsFiniteSet({G[a] : a \in A})
  BY ImageFacts
<1>5. \A U \in {G[a] : a \in A} : IsFiniteSet(U)
  BY <1>2
<1>6. IsFiniteSet(UNION {G[a] : a \in A})
  BY <1>4, <1>5, FS_UNION
<1> QED BY <1>3, <1>6

\* Things read from places of their own have a row each.
LEMMA RowForEach ==
  ASSUME NEW A, IsFiniteSet(A), NEW T, \A a \in A : IsFiniteSet(T[a]), NEW place,
         \A a \in A : \A x, y \in T[a] : place[x] = place[y] => x = y, NEW names, NEW partial
  PROVE  /\ IsFiniteSet(Things(A, T))
         /\ Cardinality(RowsOfThings(A, T, place, names, partial)) = Cardinality(Things(A, T))
<1> DEFINE P == Things(A, T)
           R == RowsOfThings(A, T, place, names, partial)
           row == [p \in P |-> Row(p.source, place[p.of], names[p.of], partial[p.of])]
<1>1. IsFiniteSet(P)
  BY ThingsFinite
<1>2. \A p \in P : row[p] = Row(p.source, place[p.of], names[p.of], partial[p.of])
  OBVIOUS
<1>3. \A p \in P : p.source \in A /\ p.of \in T[p.source] /\ p = From(p.source, p.of)
  BY ThingIs
<1>4. \A a \in A : \A x \in T[a] : From(a, x) \in P
  BY ThingIs
<1> HIDE DEF P, row
<1>5. ASSUME NEW p \in P, NEW q \in P, row[p] = row[q] PROVE p = q
  BY <1>2, <1>5, RowFacts, <1>3
<1>6. R = {row[p] : p \in P}
  <2>1. ASSUME NEW r \in R PROVE r \in {row[p] : p \in P}
    <3>1. PICK a \in A : r \in {Row(a, place[x], names[x], partial[x]) : x \in T[a]}
      BY DEF RowsOfThings
    <3>2. PICK x \in T[a] : r = Row(a, place[x], names[x], partial[x])
      BY <3>1
    <3>3. From(a, x) \in P
      BY <1>4
    <3>4. row[From(a, x)] = r
      BY <1>2, <3>2, <3>3, FromFacts
    <3> QED BY <3>3, <3>4
  <2>2. ASSUME NEW p \in P PROVE row[p] \in R
    BY <1>3, <1>2 DEF RowsOfThings
  <2> QED BY <2>1, <2>2
<1>7. Cardinality({row[p] : p \in P}) = Cardinality(P)
  BY <1>1, <1>5, ImageFacts
<1> QED BY <1>1, <1>6, <1>7 DEF P

\* The files read of a kind are finitely many.
LEMMA ReadFinite ==
  ASSUME NEW kind
  PROVE  IsFiniteSet(AllRead(kind)) /\ AllRead(kind) \subseteq Artefacts /\ \A a \in AllRead(kind) : Kind[a] = kind
BY ArtefactsFinite, FS_Subset DEF AllRead

\* As many device rows as device keys read.
LEMMA DevnodesCounted ==
  Held("SYSTEM", LAMBDA h : h.devnodes) = Cardinality(UNION {DevnodeRows(a) : a \in AllRead("SYSTEM")})
<1> DEFINE A == AllRead("SYSTEM")
           T == [a \in A |-> Holds[a].devnodes]
           S == UNION {T[a] : a \in A}
           place == [x \in S |-> x.key]
           names == [x \in S |-> x.stored \cup x.properties]
           partial == [x \in S |-> FALSE]
<1>1. IsFiniteSet(A) /\ A \subseteq Artefacts /\ \A a \in A : Kind[a] = "SYSTEM"
  BY ReadFinite
<1>2. \A a \in A : T[a] = Holds[a].devnodes
  OBVIOUS
<1>3. \A a \in A : IsFiniteSet(T[a]) /\ \A x, y \in T[a] : x.key = y.key => x = y
  BY <1>1, <1>2, RecordsAssumption DEF Apart
<1>4. \A x \in S : place[x] = x.key /\ names[x] = x.stored \cup x.properties /\ partial[x] = FALSE
  OBVIOUS
<1>5. \A a \in A : \A x \in T[a] : x \in S
  OBVIOUS
<1>6. Held("SYSTEM", LAMBDA h : h.devnodes)
           = Cardinality(UNION {{From(a, thing) : thing \in Holds[a].devnodes} : a \in A})
  BY DEF Held
<1> HIDE DEF A, T, S, place, names, partial
<1>7. Cardinality(RowsOfThings(A, T, place, names, partial)) = Cardinality(Things(A, T))
  BY <1>1, <1>3, <1>4, <1>5, RowForEach
<1>8. Things(A, T) = UNION {{From(a, thing) : thing \in Holds[a].devnodes} : a \in A}
  BY <1>2 DEF Things
<1>9. \A a \in A : {Row(a, place[x], names[x], partial[x]) : x \in T[a]} = DevnodeRows(a)
  BY <1>2, <1>4, <1>5 DEF DevnodeRows
<1>10. RowsOfThings(A, T, place, names, partial) = UNION {DevnodeRows(a) : a \in A}
  BY <1>9 DEF RowsOfThings
<1> QED BY <1>6, <1>7, <1>8, <1>10 DEF A

\* As many rows as dialog list entries read.
LEMMA MRUCounted ==
  Held("NTUSER", LAMBDA h : h.mru) = Cardinality(UNION {MRURows(a) : a \in AllRead("NTUSER")})
<1> DEFINE A == AllRead("NTUSER")
           T == [a \in A |-> Holds[a].mru]
           S == UNION {T[a] : a \in A}
           place == [x \in S |-> x.key]
           names == [x \in S |-> {x.path, x.name}]
           partial == [x \in S |-> x.partial]
<1>1. IsFiniteSet(A) /\ A \subseteq Artefacts /\ \A a \in A : Kind[a] = "NTUSER"
  BY ReadFinite
<1>2. \A a \in A : T[a] = Holds[a].mru
  OBVIOUS
<1>3. \A a \in A : IsFiniteSet(T[a]) /\ \A x, y \in T[a] : x.key = y.key => x = y
  BY <1>1, <1>2, RecordsAssumption DEF Apart
<1>4. \A x \in S : place[x] = x.key /\ names[x] = {x.path, x.name} /\ partial[x] = x.partial
  OBVIOUS
<1>5. \A a \in A : \A x \in T[a] : x \in S
  OBVIOUS
<1>6. Held("NTUSER", LAMBDA h : h.mru) = Cardinality(UNION {{From(a, thing) : thing \in Holds[a].mru} : a \in A})
  BY DEF Held
<1> HIDE DEF A, T, S, place, names, partial
<1>7. Cardinality(RowsOfThings(A, T, place, names, partial)) = Cardinality(Things(A, T))
  BY <1>1, <1>3, <1>4, <1>5, RowForEach
<1>8. Things(A, T) = UNION {{From(a, thing) : thing \in Holds[a].mru} : a \in A}
  BY <1>2 DEF Things
<1>9. ASSUME NEW a \in A PROVE {Row(a, place[x], names[x], partial[x]) : x \in T[a]} = MRURows(a)
  <2>1. \A x \in T[a] : Row(a, place[x], names[x], partial[x]) = Row(a, x.key, {x.path, x.name}, x.partial)
    BY <1>4, <1>5
  <2> QED BY <1>2, <2>1 DEF MRURows
<1>10. RowsOfThings(A, T, place, names, partial) = UNION {MRURows(a) : a \in A}
  BY <1>9 DEF RowsOfThings
<1> QED BY <1>6, <1>7, <1>8, <1>10 DEF A

\* As many rows as UserAssist values read.
LEMMA AssistCounted ==
  Held("NTUSER", LAMBDA h : h.launched) = Cardinality(UNION {AssistRows(a) : a \in AllRead("NTUSER")})
<1> DEFINE A == AllRead("NTUSER")
           T == [a \in A |-> Holds[a].launched]
           S == UNION {T[a] : a \in A}
           place == [x \in S |-> x.key]
           names == [x \in S |-> {x.name}]
           partial == [x \in S |-> x.partial]
<1>1. IsFiniteSet(A) /\ A \subseteq Artefacts /\ \A a \in A : Kind[a] = "NTUSER"
  BY ReadFinite
<1>2. \A a \in A : T[a] = Holds[a].launched
  OBVIOUS
<1>3. \A a \in A : IsFiniteSet(T[a]) /\ \A x, y \in T[a] : x.key = y.key => x = y
  BY <1>1, <1>2, RecordsAssumption DEF Apart
<1>4. \A x \in S : place[x] = x.key /\ names[x] = {x.name} /\ partial[x] = x.partial
  OBVIOUS
<1>5. \A a \in A : \A x \in T[a] : x \in S
  OBVIOUS
<1>6. Held("NTUSER", LAMBDA h : h.launched)
           = Cardinality(UNION {{From(a, thing) : thing \in Holds[a].launched} : a \in A})
  BY DEF Held
<1> HIDE DEF A, T, S, place, names, partial
<1>7. Cardinality(RowsOfThings(A, T, place, names, partial)) = Cardinality(Things(A, T))
  BY <1>1, <1>3, <1>4, <1>5, RowForEach
<1>8. Things(A, T) = UNION {{From(a, thing) : thing \in Holds[a].launched} : a \in A}
  BY <1>2 DEF Things
<1>9. \A a \in A : {Row(a, place[x], names[x], partial[x]) : x \in T[a]} = AssistRows(a)
  BY <1>2, <1>4, <1>5 DEF AssistRows
<1>10. RowsOfThings(A, T, place, names, partial) = UNION {AssistRows(a) : a \in A}
  BY <1>9 DEF RowsOfThings
<1> QED BY <1>6, <1>7, <1>8, <1>10 DEF A

\* The folders of both hives of a user are counted, and no two hives have one between them.
LEMMA BagsCounted ==
  Held("NTUSER", LAMBDA h : h.bags) + Held("USRCLASS", LAMBDA h : h.bags)
    = Cardinality(UNION {BagRows(a) : a \in AllRead("NTUSER") \cup AllRead("USRCLASS")})
<1> DEFINE B == AllRead("NTUSER")
           C == AllRead("USRCLASS")
           A == B \cup C
           T == [a \in A |-> Holds[a].bags]
           S == UNION {T[a] : a \in A}
           place == [x \in S |-> x.key]
           names == [x \in S |-> {x.path}]
           partial == [x \in S |-> x.partial]
<1>1. /\ IsFiniteSet(B) /\ B \subseteq Artefacts /\ \A a \in B : Kind[a] = "NTUSER"
      /\ IsFiniteSet(C) /\ C \subseteq Artefacts /\ \A a \in C : Kind[a] = "USRCLASS"
  BY ReadFinite
<1>2. \A a \in A : T[a] = Holds[a].bags
  OBVIOUS
<1>3. \A a \in A : IsFiniteSet(T[a]) /\ \A x, y \in T[a] : x.key = y.key => x = y
  BY <1>1, <1>2, RecordsAssumption DEF Apart
<1>4. \A x \in S : place[x] = x.key /\ names[x] = {x.path} /\ partial[x] = x.partial
  OBVIOUS
<1>5. \A a \in A : \A x \in T[a] : x \in S
  OBVIOUS
<1>6. /\ Held("NTUSER", LAMBDA h : h.bags)
              = Cardinality(UNION {{From(a, thing) : thing \in Holds[a].bags} : a \in B})
      /\ Held("USRCLASS", LAMBDA h : h.bags)
              = Cardinality(UNION {{From(a, thing) : thing \in Holds[a].bags} : a \in C})
  BY DEF Held
<1>7. IsFiniteSet(A) /\ B \subseteq A /\ C \subseteq A /\ A = B \cup C
  BY <1>1, FS_Union
<1> HIDE DEF A, B, C, T, S, place, names, partial
<1>8. Cardinality(RowsOfThings(A, T, place, names, partial)) = Cardinality(Things(A, T))
  BY <1>3, <1>4, <1>5, <1>7, RowForEach
<1>9. /\ Things(B, T) = UNION {{From(a, thing) : thing \in Holds[a].bags} : a \in B}
      /\ Things(C, T) = UNION {{From(a, thing) : thing \in Holds[a].bags} : a \in C}
  BY <1>2, <1>7 DEF Things
<1>10. Things(A, T) = Things(B, T) \cup Things(C, T)
  BY <1>7 DEF Things
<1>11. Things(B, T) \cap Things(C, T) = {}
  BY ThingIs, <1>1
<1>12. IsFiniteSet(Things(B, T)) /\ IsFiniteSet(Things(C, T))
  BY <1>1, <1>3, <1>7, ThingsFinite
<1>13. Cardinality(Things(A, T)) = Cardinality(Things(B, T)) + Cardinality(Things(C, T))
  <2>1. Cardinality(Things(B, T) \cup Things(C, T))
          = Cardinality(Things(B, T)) + Cardinality(Things(C, T)) - Cardinality(Things(B, T) \cap Things(C, T))
    BY <1>12, FS_Union
  <2>2. Cardinality(Things(B, T) \cap Things(C, T)) = 0
    BY <1>11, FS_EmptySet
  <2>3. Cardinality(Things(B, T)) \in Nat /\ Cardinality(Things(C, T)) \in Nat
    BY <1>12, FS_CardinalityType
  <2> QED BY <1>10, <2>1, <2>2, <2>3
<1>14. \A a \in A : {Row(a, place[x], names[x], partial[x]) : x \in T[a]} = BagRows(a)
  BY <1>2, <1>4, <1>5 DEF BagRows
<1>15. RowsOfThings(A, T, place, names, partial) = UNION {BagRows(a) : a \in A}
  BY <1>14 DEF RowsOfThings
<1> QED BY <1>6, <1>7, <1>8, <1>9, <1>13, <1>15 DEF B, C

\* As many rows as file targets read.
LEMMA TargetsCounted == IsFiniteSet(Targets) /\ Cardinality(Targets) = Cardinality(TargetRows)
<1> DEFINE B == AllRead("LNK")
           C == AllRead("JUMPLIST")
           A == B \cup C
           T == [a \in A |-> IF a \in B THEN {Holds[a].link} ELSE Holds[a].entries]
           S == UNION {T[a] : a \in A}
           place == [x \in S |-> x.at]
           names == [x \in S |-> {FirstOf(<<x.path, x.recorded>>)}]
           partial == [x \in S |-> x.partial]
<1>1. /\ IsFiniteSet(B) /\ B \subseteq Artefacts /\ \A a \in B : Kind[a] = "LNK"
      /\ IsFiniteSet(C) /\ C \subseteq Artefacts /\ \A a \in C : Kind[a] = "JUMPLIST"
  BY ReadFinite
<1>2. /\ \A a \in B : T[a] = {Holds[a].link}
      /\ \A a \in C : T[a] = Holds[a].entries
  BY <1>1
<1>3. \A a \in A : IsFiniteSet(T[a]) /\ \A x, y \in T[a] : x.at = y.at => x = y
  BY <1>2, FS_Singleton, <1>1, RecordsAssumption DEF Apart
<1>4. \A x \in S : place[x] = x.at /\ names[x] = {FirstOf(<<x.path, x.recorded>>)} /\ partial[x] = x.partial
  OBVIOUS
<1>4a. \A x \in S : place[x] = x.at
  OBVIOUS
<1>5. \A a \in A : \A x \in T[a] : x \in S
  OBVIOUS
<1>6. IsFiniteSet(A) /\ A = B \cup C
  BY <1>1, FS_Union
<1>7. Targets = {From(a, Holds[a].link) : a \in B} \cup UNION {{From(a, e) : e \in Holds[a].entries} : a \in C}
  BY DEF Targets
<1> HIDE DEF A, B, C, T, S, place, names, partial
<1>8. IsFiniteSet(Things(A, T)) /\ Cardinality(RowsOfThings(A, T, place, names, partial))
           = Cardinality(Things(A, T))
  <2>1. \A a \in A : \A x, y \in T[a] : place[x] = place[y] => x = y
    BY <1>3, <1>4a, <1>5
  <2>2. IsFiniteSet(A) /\ \A a \in A : IsFiniteSet(T[a])
    BY <1>3, <1>6
  <2> QED BY ONLY <2>1, <2>2, RowForEach
<1>9. Things(A, T) = Targets
  <2>1. ASSUME NEW p \in Things(A, T) PROVE p \in Targets
    <3>1. p.source \in A /\ p.of \in T[p.source] /\ p = From(p.source, p.of)
      BY ThingIs
    <3>2. CASE p.source \in B
      BY <1>2, <1>7, <3>1, <3>2
    <3>3. CASE p.source \in C
      BY <1>2, <3>1, <3>3, <1>7
    <3> QED BY <1>6, <3>1, <3>2, <3>3
  <2>2. ASSUME NEW p \in Targets PROVE p \in Things(A, T)
    <3>1. CASE \E a \in B : p = From(a, Holds[a].link)
      <4>1. PICK a \in B : p = From(a, Holds[a].link)
        BY <3>1
      <4>2. a \in A /\ Holds[a].link \in T[a]
        BY <1>2, <1>6
      <4> QED BY <4>1, <4>2, ThingIs
    <3>2. CASE \E a \in C : p \in {From(a, e) : e \in Holds[a].entries}
      <4>1. PICK a \in C : p \in {From(a, e) : e \in Holds[a].entries}
        BY <3>2
      <4>2. PICK e \in Holds[a].entries : p = From(a, e)
        BY <4>1
      <4>3. a \in A /\ e \in T[a]
        BY <1>2, <1>6
      <4> QED BY <4>2, <4>3, ThingIs
    <3> QED BY <1>7, <3>1, <3>2
  <2> QED BY <2>1, <2>2
<1>10. RowsOfThings(A, T, place, names, partial) = TargetRows
  <2>1. \A p \in Things(A, T) : p.source \in A /\ p.of \in T[p.source]
    BY ThingIs
  <2>2. \A a \in A : \A x \in T[a] : From(a, x) \in Targets
    BY <1>9, ThingIs
  <2>3. ASSUME NEW r \in TargetRows PROVE r \in RowsOfThings(A, T, place, names, partial)
    <3>1. PICK t \in Targets : r = Row(t.source, t.of.at, {FirstOf(<<t.of.path, t.of.recorded>>)}, t.of.partial)
      BY DEF TargetRows
    <3>2. t.source \in A /\ t.of \in T[t.source] /\ t.of \in S
      BY <1>5, <1>9, <2>1
    <3>3. r = Row(t.source, place[t.of], names[t.of], partial[t.of])
      BY <1>4, <3>1, <3>2
    <3>4. r \in {Row(t.source, place[x], names[x], partial[x]) : x \in T[t.source]}
      BY <3>2, <3>3
    <3> QED BY <3>2, <3>4 DEF RowsOfThings
  <2>4. ASSUME NEW r \in RowsOfThings(A, T, place, names, partial) PROVE r \in TargetRows
    <3>1. PICK a \in A : r \in {Row(a, place[x], names[x], partial[x]) : x \in T[a]}
      BY DEF RowsOfThings
    <3>2. PICK x \in T[a] : r = Row(a, place[x], names[x], partial[x])
      BY <3>1
    <3>3. r = Row(a, x.at, {FirstOf(<<x.path, x.recorded>>)}, x.partial)
      BY <1>4, <1>5, <3>2
    <3>4. From(a, x) \in Targets /\ From(a, x).source = a /\ From(a, x).of = x
      BY <2>2, FromFacts
    <3> HIDE DEF S
    <3> QED BY <3>3, <3>4 DEF TargetRows
  <2> QED BY <2>3, <2>4
<1> QED BY <1>8, <1>9, <1>10
\* A launch is of a prefetch file that was read.
LEMMA LaunchIs ==
  /\ \A l \in Launches : l.source \in AllRead("PREFETCH") /\ l = From(l.source, Holds[l.source].launch)
  /\ \A a \in AllRead("PREFETCH") : From(a, Holds[a].launch) \in Launches
  BY FromFacts DEF Launches

\* As many rows as launches.
LEMMA LaunchesCounted == IsFiniteSet(Launches) /\ Cardinality(Launches) = Cardinality(RunRows)
<1> DEFINE A == AllRead("PREFETCH")
           f == [a \in A |-> From(a, Holds[a].launch)]
           g == [l \in Launches |-> Row(l.source, None, {l.of.path}, l.of.partial)]
<1>1. Launches = {f[a] : a \in A}
  BY DEF Launches
<1>2. RunRows = {g[l] : l \in Launches} /\ \A l \in Launches : g[l]
           = Row(l.source, None, {l.of.path}, l.of.partial)
  BY DEF RunRows
<1> HIDE DEF f, g
<1>3. IsFiniteSet(Launches)
  <2>1. IsFiniteSet(A)
    BY ReadFinite
  <2> HIDE DEF A
  <2> QED BY <1>1, <2>1, ImageFacts
<1>4. ASSUME NEW l \in Launches, NEW m \in Launches, g[l] = g[m] PROVE l = m
  <2>1. Row(l.source, None, {l.of.path}, l.of.partial) = Row(m.source, None, {m.of.path}, m.of.partial)
    BY <1>2, <1>4
  <2>2. l.source = m.source
    BY <2>1 DEF Row
  <2> QED BY <2>2, LaunchIs
<1>5. Cardinality({g[l] : l \in Launches}) = Cardinality(Launches)
  BY <1>3, <1>4, ImageFacts
<1> QED BY <1>2, <1>3, <1>5

\* As many rows as executions.
LEMMA ExecutionsCounted == Cardinality(Executions) = Cardinality(ExecutionRows)
<1> DEFINE g == [p \in Executions |-> Row(p[1], None, {p[2]}, FALSE)]
           F == [l \in Launches |-> {<<l.source, t>> : t \in l.of.times}]
<1>1. \A l \in Launches : l.source \in AllRead("PREFETCH") /\ IsFiniteSet(l.of.times)
  <2> SUFFICES ASSUME NEW l \in Launches
               PROVE  l.source \in AllRead("PREFETCH") /\ IsFiniteSet(l.of.times)
    OBVIOUS
  <2>1. l.source \in AllRead("PREFETCH") /\ l.of = Holds[l.source].launch
    BY LaunchIs, FromFacts
  <2>2. l.source \in Artefacts /\ Kind[l.source] = "PREFETCH"
    BY <2>1, ReadFinite
  <2> QED BY <2>1, <2>2, RecordsAssumption
<1>2. Executions = UNION {F[l] : l \in Launches} /\ \A l \in Launches : F[l] = {<<l.source, t>> : t \in l.of.times}
  BY DEF Executions
<1>3. \A p \in Executions : g[p] = Row(p[1], None, {p[2]}, FALSE)
  OBVIOUS
<1> HIDE DEF g, F
<1>4. \A l \in Launches : IsFiniteSet(F[l])
  <2> SUFFICES ASSUME NEW l \in Launches PROVE IsFiniteSet({<<l.source, t>> : t \in l.of.times})
    BY <1>2
  <2> DEFINE h == [t \in l.of.times |-> <<l.source, t>>]
  <2>1. {h[t] : t \in l.of.times} = {<<l.source, t>> : t \in l.of.times}
    OBVIOUS
  <2> HIDE DEF h
  <2>2. IsFiniteSet(l.of.times)
    BY <1>1
  <2>3. IsFiniteSet({h[t] : t \in l.of.times})
    BY <2>2, ImageFacts
  <2> QED BY <2>1, <2>3
<1>5. IsFiniteSet(Executions)
  <2>1. IsFiniteSet({F[l] : l \in Launches})
    BY LaunchesCounted, ImageFacts
  <2>2. \A U \in {F[l] : l \in Launches} : IsFiniteSet(U)
    BY <1>4
  <2>3. IsFiniteSet(UNION {F[l] : l \in Launches})
    BY <2>1, <2>2, FS_UNION
  <2> QED BY <1>2, <2>3
<1>6. \A p \in Executions : \E l \in Launches : \E t \in l.of.times : p = <<l.source, t>>
  BY <1>2
<1>7. ASSUME NEW p \in Executions, NEW q \in Executions, g[p] = g[q] PROVE p = q
  <2>0. Row(p[1], None, {p[2]}, FALSE) = Row(q[1], None, {q[2]}, FALSE)
    BY <1>3, <1>7
  <2>1. p[1] = q[1] /\ {p[2]} \ {None} = {q[2]} \ {None}
    BY <2>0 DEF Row
  <2>2. p[2] = q[2]
    BY <2>1
  <2>3. p = <<p[1], p[2]>> /\ q = <<q[1], q[2]>>
    BY <1>6
  <2> QED BY <2>1, <2>2, <2>3
<1>8. ExecutionRows = {g[p] : p \in Executions}
  <2>1. ASSUME NEW r \in ExecutionRows PROVE r \in {g[p] : p \in Executions}
    <3>1. PICK l \in Launches : r \in {Row(l.source, None, {t}, FALSE) : t \in l.of.times}
      BY DEF ExecutionRows
    <3>2. PICK t \in l.of.times : r = Row(l.source, None, {t}, FALSE)
      BY <3>1
    <3> DEFINE p == <<l.source, t>>
    <3>3. p \in Executions
      BY <1>2
    <3>4. p[1] = l.source /\ p[2] = t
      OBVIOUS
    <3> HIDE DEF p
    <3>5. g[p] = r
      BY <1>1, <1>3, <3>2, <3>3, <3>4
    <3> QED BY <3>3, <3>5
  <2>2. ASSUME NEW p \in Executions PROVE g[p] \in ExecutionRows
    <3>1. PICK l \in Launches : \E t \in l.of.times : p = <<l.source, t>>
      BY <1>6
    <3>2. PICK t \in l.of.times : p = <<l.source, t>>
      BY <3>1
    <3>3. p[1] = l.source /\ p[2] = t
      BY <3>2
    <3>4. g[p] = Row(l.source, None, {t}, FALSE)
      BY <1>1, <1>3, <3>3
    <3>5. g[p] \in {Row(l.source, None, {x}, FALSE) : x \in l.of.times}
      BY <3>2, <3>4
    <3> QED BY <3>5 DEF ExecutionRows
  <2> QED BY <2>1, <2>2
<1>9. Cardinality({g[p] : p \in Executions}) = Cardinality(Executions)
  BY <1>5, <1>7, ImageFacts
<1> QED BY <1>8, <1>9

\* No more events are loaded than were parsed.
LEMMA EventsCounted ==
  Cardinality(Records) \in Nat /\ Cardinality(EventRows) <= Cardinality(Records)
<1> DEFINE g == [r \in Kept |-> Row(r.file, r.at, {r.instance}, FALSE)]
<1>1. EventRows = {g[r] : r \in Kept}
  BY DEF EventRows
<1> HIDE DEF g
<1>2. IsFiniteSet(Records)
  BY RecordsFinite
<1>3. Kept \in SUBSET Records
  BY DEF Kept
<1>4. IsFiniteSet(Kept) /\ Cardinality(Kept) <= Cardinality(Records)
  BY <1>2, <1>3, FS_Subset
<1>5. IsFiniteSet({g[r] : r \in Kept}) /\ Cardinality({g[r] : r \in Kept}) <= Cardinality(Kept)
  BY <1>4, ImageFacts
<1>6. Cardinality(Records) \in Nat /\ Cardinality(Kept) \in Nat /\ Cardinality({g[r] : r \in Kept}) \in Nat
  BY <1>2, <1>4, <1>5, FS_CardinalityType
<1> QED BY <1>1, <1>4, <1>5, <1>6

-----------------------------------------------------------------------------
\* Each table the manifest counts, by what name, and the stage that counts it.
CountedAt == [devnode |-> 4, shell_bag |-> 8, mru_entry |-> 8, user_assist |-> 8, event |-> 10, file_target |-> 14,
              prefetch_run |-> 16, prefetch_execution |-> 16]
CountOf == [devnode |-> "devnodes", shell_bag |-> "shell_bags", mru_entry |-> "mru_entries",
            user_assist |-> "user_assist", event |-> "event_records", file_target |-> "file_targets",
            prefetch_run |-> "prefetch_runs", prefetch_execution |-> "prefetch_executions"]
AsRead == {"devnode", "shell_bag", "mru_entry", "user_assist"}
AtOnce == {"event", "file_target", "prefetch_run", "prefetch_execution"}
CountNames == {"devnodes", "shell_bags", "mru_entries", "user_assist", "event_records",
               "file_targets", "prefetch_runs", "prefetch_executions"}

\* Which stage counts which table, and under which name.
LEMMA CountedIs ==
  /\ CountedAt["devnode"] = 4 /\ CountedAt["shell_bag"] = 8 /\ CountedAt["mru_entry"] = 8
  /\ CountedAt["user_assist"] = 8 /\ CountedAt["event"] = 10 /\ CountedAt["file_target"] = 14
  /\ CountedAt["prefetch_run"] = 16 /\ CountedAt["prefetch_execution"] = 16
  /\ CountOf["devnode"] = "devnodes" /\ CountOf["shell_bag"] = "shell_bags"
  /\ CountOf["mru_entry"] = "mru_entries" /\ CountOf["user_assist"] = "user_assist"
  /\ CountOf["event"] = "event_records" /\ CountOf["file_target"] = "file_targets"
  /\ CountOf["prefetch_run"] = "prefetch_runs" /\ CountOf["prefetch_execution"] = "prefetch_executions"
  BY DEF CountedAt, CountOf

\* A counted table is filled by the stage that counts it or by readers.
LEMMA CountedTables ==
  \A t \in AsRead \cup AtOnce :
    /\ t \in Tables \ Derived /\ CountedAt[t] \in 4..16 /\ CountOf[t] \in CountNames
    /\ t \in AsRead => t \in ReadTables
    /\ t \in AtOnce => t \notin ReadTables /\ \A n : t \in Owned(n) => n = CountedAt[t]
<1>1. \A t \in AsRead \cup AtOnce : t \in Tables \ Derived
  BY StepsAre DEF AsRead, AtOnce, Tables
<1>2. \A t \in AsRead \cup AtOnce : CountedAt[t] \in 4..16
  BY CountedIs DEF AsRead, AtOnce
<1>3. \A t \in AsRead \cup AtOnce : CountOf[t] \in CountNames
  BY CountedIs DEF AsRead, AtOnce, CountNames
<1>4. \A t \in AsRead : t \in ReadTables
  BY DEF AsRead, ReadTables
<1>5. \A t \in AtOnce : t \notin ReadTables
  BY DEF AtOnce, ReadTables
<1>6. \A t \in AtOnce : \A n : t \in Owned(n) => n = CountedAt[t]
  BY CountedIs, OwnedOnce DEF AtOnce
<1>7. AsRead \cap AtOnce = {}
  BY DEF AsRead, AtOnce
<1> QED BY <1>1, <1>2, <1>3, <1>4, <1>5, <1>6, <1>7

\* What a stage counts.
Tally(t) ==
  CASE t = "devnode" -> Held("SYSTEM", LAMBDA h : h.devnodes)
    [] t = "shell_bag" -> Held("NTUSER", LAMBDA h : h.bags) + Held("USRCLASS", LAMBDA h : h.bags)
    [] t = "mru_entry" -> Held("NTUSER", LAMBDA h : h.mru)
    [] t = "user_assist" -> Held("NTUSER", LAMBDA h : h.launched)
    [] t = "event" -> Cardinality(Records)
    [] t = "file_target" -> Cardinality(Targets)
    [] t = "prefetch_run" -> Cardinality(Launches)
    [] t = "prefetch_execution" -> Cardinality(Executions)

\* What each table's count says.
LEMMA TallyIs ==
  /\ Tally("devnode") = Held("SYSTEM", LAMBDA h : h.devnodes)
  /\ Tally("shell_bag") = Held("NTUSER", LAMBDA h : h.bags) + Held("USRCLASS", LAMBDA h : h.bags)
  /\ Tally("mru_entry") = Held("NTUSER", LAMBDA h : h.mru)
  /\ Tally("user_assist") = Held("NTUSER", LAMBDA h : h.launched)
  /\ Tally("event") = Cardinality(Records)
  /\ Tally("file_target") = Cardinality(Targets)
  /\ Tally("prefetch_run") = Cardinality(Launches)
  /\ Tally("prefetch_execution") = Cardinality(Executions)
  BY DEF Tally

\* Each stage counts the tables that are its to count.
LEMMA StageCounts ==
  ASSUME NEW n \in 1..23, NEW t \in AsRead \cup AtOnce
  PROVE  CountsIn(WorkOf(n), CountOf[t]) = (IF n = CountedAt[t] THEN {Tally(t)} ELSE {})
<1>0. t \in {"devnode", "shell_bag", "mru_entry", "user_assist", "event", "file_target", "prefetch_run",
           "prefetch_execution"}
  BY DEF AsRead, AtOnce
<1>1. CASE n \notin {4, 8, 10, 14, 16}
  BY <1>1, WorkElse, <1>0, CountedIs
<1>2. CASE n = 4
  <2>1. /\ CountsIn(WorkOf(4), "devnodes") = {Tally("devnode")}
        /\ \A c : c # "devnodes" => CountsIn(WorkOf(4), c) = {}
    BY SettingWork, WorkNames, TallyIs
  <2>2. IF t = "devnode" THEN CountOf[t] = "devnodes" /\ CountedAt[t] = 4
                         ELSE CountOf[t] # "devnodes" /\ CountedAt[t] # 4
    BY <1>0, CountedIs
  <2> QED BY <1>2, <2>1, <2>2
<1>3. CASE n = 8
  <2>1. /\ CountsIn(WorkOf(8), "shell_bags") = {Tally("shell_bag")}
        /\ CountsIn(WorkOf(8), "mru_entries") = {Tally("mru_entry")}
        /\ CountsIn(WorkOf(8), "user_assist") = {Tally("user_assist")}
        /\ \A c : c \notin {"shell_bags", "mru_entries", "user_assist"} => CountsIn(WorkOf(8), c) = {}
    BY UserHivesWork, WorkNames, TallyIs
  <2> QED BY <1>0, <1>3, <2>1, CountedIs
<1>4. CASE n = 10
  <2>1. /\ CountsIn(WorkOf(10), "event_records") = {Tally("event")}
        /\ \A c : c # "event_records" => CountsIn(WorkOf(10), c) = {}
    BY EventsWork, WorkNames, TallyIs
  <2> QED BY <1>0, <1>4, <2>1, CountedIs
<1>5. CASE n = 14
  <2>1. /\ CountsIn(WorkOf(14), "file_targets") = {Tally("file_target")}
        /\ \A c : c # "file_targets" => CountsIn(WorkOf(14), c) = {}
    BY TargetsWork, WorkNames, TallyIs
  <2> QED BY <1>0, <1>5, <2>1, CountedIs
<1>6. CASE n = 16
  <2>1. /\ CountsIn(WorkOf(16), "prefetch_runs") = {Tally("prefetch_run")}
        /\ CountsIn(WorkOf(16), "prefetch_executions") = {Tally("prefetch_execution")}
        /\ \A c : c \notin {"prefetch_runs", "prefetch_executions"} => CountsIn(WorkOf(16), c) = {}
    BY LaunchesWork, WorkNames, TallyIs
  <2> QED BY <1>0, <1>6, <2>1, CountedIs
<1> QED BY <1>1, <1>2, <1>3, <1>4, <1>5, <1>6

-----------------------------------------------------------------------------
\* What an artefact gives a table that is loaded as it is read.
Given(t, a) ==
  CASE t = "devnode" -> IF Kind[a] = "SYSTEM" THEN DevnodeRows(a) ELSE {}
    [] t = "shell_bag" -> IF Kind[a] \in {"NTUSER", "USRCLASS"} THEN BagRows(a) ELSE {}
    [] t = "mru_entry" -> IF Kind[a] = "NTUSER" THEN MRURows(a) ELSE {}
    [] t = "user_assist" -> IF Kind[a] = "NTUSER" THEN AssistRows(a) ELSE {}
Had == {a \in Artefacts : Begun(a) /\ Loaded(a)}

\* The rows an artefact gives each table counted after reading.
LEMMA GivenIs ==
  ASSUME NEW a
  PROVE  /\ Given("devnode", a) = (IF Kind[a] = "SYSTEM" THEN DevnodeRows(a) ELSE {})
         /\ Given("shell_bag", a) = (IF Kind[a] \in {"NTUSER", "USRCLASS"} THEN BagRows(a) ELSE {})
         /\ Given("mru_entry", a) = (IF Kind[a] = "NTUSER" THEN MRURows(a) ELSE {})
         /\ Given("user_assist", a) = (IF Kind[a] = "NTUSER" THEN AssistRows(a) ELSE {})
  BY DEF Given

\* An artefact's program lays out those rows when it loads.
LEMMA YieldsGiven ==
  ASSUME NEW a, NEW P, Yields(a, P), NEW t \in AsRead
  PROVE  RowsIn(P, t) = (IF Loaded(a) THEN Given(t, a) ELSE {})
BY GivenIs DEF Yields, AsRead

\* The tables loaded as artefacts are read hold what was read of them, and those loaded at
\* once are empty until then.
Exact0 ==
  /\ \A t \in AsRead : AllRows(t) = UNION {Given(t, a) : a \in Had}
  /\ \A t \in AtOnce : stage < CountedAt[t] => AllRows(t) = {}

\* At first the counted tables are empty.
LEMMA ExactStarts == Init => Exact0
<1> SUFFICES ASSUME Init PROVE Exact0
  OBVIOUS
<1>1. stage = 0 /\ agenda = <<>> /\ db = [t \in Tables |-> {}]
  BY DEF Init
<1>2. \A t \in AsRead \cup AtOnce : AllRows(t) = {}
  BY <1>1, NoneFacts, CountedTables DEF AllRows
<1>3. Had = {}
  <2>1. ASSUME NEW a \in Artefacts PROVE ~Begun(a)
    BY KindStage, <1>1 DEF Begun
  <2> QED BY <2>1 DEF Had
<1> QED BY <1>2, <1>3 DEF Exact0

\* What was read depends on fates and artefacts taken up.
LEMMA HadSame ==
  ASSUME fate' = fate, \A a \in Artefacts : Begun(a)' <=> Begun(a)
  PROVE  Had' = Had
  BY DEF Had, Loaded, Hashed

\* Every step keeps the tables exactly what was read.
LEMMA ExactSteps == Typed /\ Exact0 /\ [Next]_vars => Exact0'
<1> SUFFICES ASSUME Typed, Exact0, [Next]_vars PROVE Exact0'
  OBVIOUS
<1>1. CASE Onward
  BY <1>1, OnwardIsSame, CountedTables, HadSame DEF Same, Begun, Exact0
<1>2. CASE TakeUp
  <2>1. PICK a : Takes(a)
    BY <1>2, TakeUpTakes
  <2> DEFINE P == Artefact(a)
  <2>2. /\ a \in Artefacts /\ Yields(a, P) /\ RowsAreCited(a, P) /\ Gains(P) /\ stage' = stage
        /\ \A b \in Artefacts : Begun(b)' <=> Begun(b) \/ b = a
    BY <2>1 DEF Takes, Serves, Yields
  <2> HIDE DEF P
  <2>3. fate' = fate /\ \A t : AllRows(t)' = AllRows(t) \cup RowsIn(P, t)
    BY <2>2 DEF Gains
  <2>4. Had' = Had \cup (IF Loaded(a) THEN {a} ELSE {})
    BY <2>2, <2>3 DEF Had, Loaded, Hashed
  <2>5. ASSUME NEW t \in AsRead PROVE AllRows(t)' = UNION {Given(t, b) : b \in Had'}
    BY <2>2, YieldsGiven, <2>3, <2>4 DEF Exact0
  <2>6. \A t \in AtOnce : AllRows(t)' = AllRows(t)
    BY <2>2, CountedTables, <2>3 DEF RowsAreCited
  <2> QED BY <2>2, <2>5, <2>6 DEF Exact0, Given
<1>3. CASE NextStage
  <2>1. Advances
    BY <1>3, NextStageAdvances
  <2> DEFINE n == stage + 1
             P == WorkOf(n)
  <2>2. n \in 1..23 /\ Gains(P) /\ stage' = n /\ stage \in 0..22 /\ \A b \in Artefacts : Begun(b)' <=> Begun(b)
    BY <2>1 DEF Advances
  <2>3. \A t : RowsIn(P, t) # {} => t \in Owned(n)
    BY <2>2, StageOwns
  <2>4. stage = n - 1 /\ n \in Nat
    BY <2>2
  <2> HIDE DEF P, n
  <2>5. fate' = fate /\ \A t : AllRows(t)' = AllRows(t) \cup RowsIn(P, t)
    BY <2>2 DEF Gains
  <2>6. Had' = Had
    BY <2>2, <2>5, HadSame
  <2>7. \A t \in AsRead : AllRows(t)' = AllRows(t)
    BY <2>3, <2>5, CountedTables, OwnedOnce
  <2>8. ASSUME NEW t \in AtOnce, n < CountedAt[t] PROVE AllRows(t)' = {}
    BY CountedTables, <2>4, <2>8, <2>3, <2>5 DEF Exact0
  <2> QED BY <2>2, <2>6, <2>7, <2>8 DEF Exact0, Given
<1> QED BY <1>1, <1>2, <1>3, NextCases

-----------------------------------------------------------------------------
\* A number that is counted or is to be counted.
Counted(c, n) == CountsIn(agenda, c) = {n} \/ (CountsIn(agenda, c) = {} /\ counts[c] = n)

\* An onward step writes the count at the head, or none.
LEMMA OnwardCounts ==
  ASSUME Typed, Onward
  PROVE  \/ CountUp
         \/ counts' = counts /\ agenda' = agenda
         \/ counts' = counts /\ agenda # <<>> /\ agenda' = Tail(agenda) /\ Head(agenda).do # "count"
<1>1. CASE Completes \/ Fails \/ UNCHANGED vars
  BY <1>1 DEF Completes, Fails, vars, control, account
<1>2. ASSUME NEW what, Doing(what), Done, what # "count"
      PROVE  agenda # <<>> /\ agenda' = Tail(agenda) /\ Head(agenda).do # "count"
  BY <1>2 DEF Doing, Done
<1>3. CASE AddSource \/ ObserveBatch \/ WarnOf \/ KeepZone \/ KeepSetting
  BY <1>2, <1>3 DEF AddSource, ObserveBatch, WarnOf, KeepZone, KeepSetting, account
<1>4. CASE Insert \/ Derive \/ exportView \/ writeReport
  BY <1>2, <1>4 DEF Insert, Derive, exportView, writeReport, account
<1>5. CASE Checkpoint \/ Close \/ RecordDatabase \/ Publish
  BY <1>2, <1>5 DEF Checkpoint, Close, RecordDatabase, Publish, account
<1> QED BY <1>1, <1>3, <1>4, <1>5 DEF Onward

\* A count laid out is the count written.
LEMMA CountedOnward ==
  ASSUME Typed, Onward, DOMAIN counts = CountNames
  PROVE  DOMAIN counts' = CountNames /\ \A c \in CountNames : \A n : Counted(c, n) => Counted(c, n)'
<1>1. CASE counts' = counts /\ agenda' = agenda
  BY <1>1 DEF Counted
<1>2. CASE counts' = counts /\ agenda # <<>> /\ agenda' = Tail(agenda) /\ Head(agenda).do # "count"
  BY <1>2, UnfoldFacts DEF Typed, Counted
<1>3. CASE CountUp
  <2> DEFINE h == Head(agenda)
             u == Tail(agenda)
  <2>1. /\ agenda # <<>> /\ h.do = "count" /\ agenda' = u /\ IsProgram(agenda)
        /\ counts' = [counts EXCEPT ![h.what] = h.n]
    BY <1>3 DEF CountUp, Doing, Done, Typed
  <2>2. \A c : CountsIn(agenda, c) = (IF h.do = "count" /\ h.what = c THEN {h.n} ELSE {}) \cup CountsIn(u, c)
    BY <2>1, UnfoldFacts
  <2> HIDE DEF h, u
  <2>3. ASSUME NEW c \in CountNames, NEW n, Counted(c, n) PROVE Counted(c, n)'
    <3>1. CASE h.what = c
      BY <2>1, <2>2, <3>1, <2>3 DEF Counted
    <3>2. CASE h.what # c
      BY <2>1, <2>2, <3>2, <2>3 DEF Counted
    <3> QED BY <3>1, <3>2
  <2> QED BY <2>1, <2>3
<1> QED BY <1>1, <1>2, <1>3, OnwardCounts

-----------------------------------------------------------------------------
\* A table that was counted stays as it is.
LEMMA TableStays ==
  ASSUME Typed, [Next]_vars, NEW t \in AsRead \cup AtOnce, stage >= CountedAt[t]
  PROVE  AllRows(t)' = AllRows(t)
<1>0. CountedAt[t] \in 4..16 /\ stage \in 0..23
  BY CountedTables DEF Typed
<1>1. CASE Onward
  BY <1>1, OnwardIsSame, CountedTables DEF Same
<1>2. CASE TakeUp
  <2>1. PICK a : Takes(a)
    BY <1>2, TakeUpTakes
  <2> DEFINE P == Artefact(a)
  <2>2. a \in Artefacts /\ Yields(a, P) /\ RowsAreCited(a, P) /\ Gains(P) /\ StageOf[Kind[a]] = stage
    BY <2>1 DEF Takes, Serves, Yields
  <2> HIDE DEF P
  <2>3. AllRows(t)' = AllRows(t) \cup RowsIn(P, t)
    BY <2>2 DEF Gains
  <2>4. CASE t \in AtOnce
    BY <2>2, <2>3, <2>4, CountedTables DEF RowsAreCited
  <2>5. CASE t \in AsRead
    <3>1. RowsIn(P, t) = (IF Loaded(a) THEN Given(t, a) ELSE {})
      BY <2>2, <2>5, YieldsGiven
    <3>2. Kind[a] = "SYSTEM" => StageOf[Kind[a]] = 3
      BY StageOfKind
    <3>3. Kind[a] = "NTUSER" => StageOf[Kind[a]] = 6
      BY StageOfKind
    <3>4. Kind[a] = "USRCLASS" => StageOf[Kind[a]] = 7
      BY StageOfKind
    <3>5. CASE t = "devnode"
      BY <1>0, <2>2, <3>2, <3>5, CountedIs, <2>3, <3>1, GivenIs
    <3>6. CASE t \in {"shell_bag", "mru_entry", "user_assist"}
      BY <1>0, <2>2, <3>3, <3>4, <3>6, CountedIs, GivenIs, <2>3, <3>1
    <3> QED BY <2>5, <3>5, <3>6 DEF AsRead
  <2> QED BY <2>4, <2>5
<1>3. CASE NextStage
  <2>1. Advances
    BY <1>3, NextStageAdvances
  <2> DEFINE n == stage + 1
             P == WorkOf(n)
  <2>2. n \in 1..23 /\ Gains(P) /\ n > CountedAt[t]
    BY <1>0, <2>1 DEF Advances
  <2>3. RowsIn(P, t) # {} => t \in Owned(n)
    BY <2>2, StageOwns
  <2> HIDE DEF P, n
  <2>4. t \notin Owned(n)
    BY <1>0, <2>2, OwnedOnce, CountedTables
  <2> QED BY <2>2, <2>3, <2>4 DEF Gains
<1> QED BY <1>1, <1>2, <1>3, NextCases

\* What is counted of a table that was loaded as it was read is what it has.
LEMMA TallyOfRead ==
  ASSUME SourcesExact, AllSources = sources, Exact0, NEW t \in AsRead
  PROVE  Tally(t) = Cardinality(AllRows(t))
<1>1. \A kind : AllRead(kind) = Taken(kind)
  BY ReadIsTaken
<1>2. AllRows(t) = UNION {Given(t, a) : a \in Had}
  BY DEF Exact0
<1>3. \A kind : \A a : a \in AllRead(kind) <=> a \in Had /\ Kind[a] = kind
  BY <1>1 DEF Taken, Had
<1>4. CASE t = "devnode"
  <2>1. UNION {Given("devnode", a) : a \in Had} = UNION {DevnodeRows(a) : a \in AllRead("SYSTEM")}
    BY <1>3, GivenIs
  <2> QED BY <1>2, <1>4, <2>1, DevnodesCounted, TallyIs
<1>5. CASE t = "shell_bag"
  <2>1. UNION {Given("shell_bag", a) : a \in Had}
             = UNION {BagRows(a) : a \in AllRead("NTUSER") \cup AllRead("USRCLASS")}
    BY <1>3, GivenIs
  <2> QED BY <1>2, <1>5, <2>1, BagsCounted, TallyIs
<1>6. CASE t = "mru_entry"
  <2>1. UNION {Given("mru_entry", a) : a \in Had} = UNION {MRURows(a) : a \in AllRead("NTUSER")}
    BY <1>3, GivenIs
  <2> QED BY <1>2, <1>6, <2>1, MRUCounted, TallyIs
<1>7. CASE t = "user_assist"
  <2>1. UNION {Given("user_assist", a) : a \in Had} = UNION {AssistRows(a) : a \in AllRead("NTUSER")}
    BY <1>3, GivenIs
  <2> QED BY <1>2, <1>7, <2>1, AssistCounted, TallyIs
<1> QED BY <1>4, <1>5, <1>6, <1>7 DEF AsRead

\* What is counted of a table that is loaded at once is what is loaded.
LEMMA TallyOfLoaded ==
  /\ Tally("event") \in Nat /\ Cardinality(RowsIn(WorkOf(10), "event")) <= Tally("event")
  /\ Tally("file_target") = Cardinality(RowsIn(WorkOf(14), "file_target"))
  /\ Tally("prefetch_run") = Cardinality(RowsIn(WorkOf(16), "prefetch_run"))
  /\ Tally("prefetch_execution") = Cardinality(RowsIn(WorkOf(16), "prefetch_execution"))
BY EventsWork, WorkNames, TargetsWork, LaunchesWork, TallyIs, EventsCounted, TargetsCounted,
   LaunchesCounted, ExecutionsCounted DEF EventStageRows, LaunchRows

Tallied(t) == IF t = "event" THEN Cardinality(Records) ELSE Cardinality(AllRows(t))
Counts0 ==
  /\ DOMAIN counts = CountNames
  /\ \A t \in AsRead \cup AtOnce : stage >= CountedAt[t] => Counted(CountOf[t], Tallied(t))
  /\ stage >= 10 => Cardinality(AllRows("event")) <= Cardinality(Records)

\* At first nothing is counted.
LEMMA CountsStart == Init => Counts0
<1> SUFFICES ASSUME Init PROVE Counts0
  OBVIOUS
<1>1. stage = 0 /\ DOMAIN counts = CountNames
  BY DEF Init, CountNames
<1>2. \A t \in AsRead \cup AtOnce : CountedAt[t] \in 4..16
  BY CountedTables
<1> QED BY <1>1, <1>2 DEF Counts0

\* No step changes a fate.
LEMMA FateKept == Typed /\ [Next]_vars => fate' = fate
<1> SUFFICES ASSUME Typed, [Next]_vars PROVE fate' = fate
  OBVIOUS
<1>1. Onward => fate' = fate
  BY OnwardIsSame DEF Same
<1>2. TakeUp => fate' = fate
  BY DEF TakeUp
<1>3. NextStage => fate' = fate
  BY DEF NextStage
<1> QED BY <1>1, <1>2, <1>3, NextCases

\* A table past its counting stage has all its rows.
LEMMA TalliedStays ==
  ASSUME Typed, [Next]_vars, NEW t \in AsRead \cup AtOnce, stage >= CountedAt[t]
  PROVE  Tallied(t)' = Tallied(t)
BY FateKept, TableStays DEF Records, Parsed, Tallied

\* Every step keeps every count its table's size.
LEMMA CountsStep == Typed /\ SourcesExact /\ Exact0 /\ Counts0 /\ [Next]_vars => Counts0'
<1> SUFFICES ASSUME Typed, SourcesExact, Exact0, Counts0, [Next]_vars PROVE Counts0'
  OBVIOUS
<1>0. /\ DOMAIN counts = CountNames /\ stage \in 0..23
      /\ \A t \in AsRead \cup AtOnce : CountedAt[t] \in 4..16 /\ CountOf[t] \in CountNames
  BY CountedTables DEF Counts0, Typed
<1>1. stage >= 10 => AllRows("event")' = AllRows("event") /\ Cardinality(Records)' = Cardinality(Records)
  <2>1. "event" \in AsRead \cup AtOnce /\ CountedAt["event"] = 10
    BY CountedIs DEF AtOnce
  <2>2. Records' = Records
    BY FateKept DEF Records, Parsed
  <2> QED BY <2>1, <2>2, TableStays
<1>2. \A t \in AsRead \cup AtOnce : stage >= CountedAt[t] => Tallied(t)' = Tallied(t)
  BY TalliedStays
<1>3. ASSUME stage' = stage, DOMAIN counts' = CountNames,
             \A t \in AsRead \cup AtOnce : \A n : Counted(CountOf[t], n) => Counted(CountOf[t], n)'
      PROVE  Counts0'
  <2>1. ASSUME NEW t \in AsRead \cup AtOnce, stage' >= CountedAt[t] PROVE Counted(CountOf[t], Tallied(t))'
    <3>1. Counted(CountOf[t], Tallied(t)) /\ Tallied(t)' = Tallied(t)
      BY <1>2, <1>3, <2>1 DEF Counts0
    <3>2. PICK n : n = Tallied(t) /\ Counted(CountOf[t], n) /\ Tallied(t)' = n
      BY <3>1
    <3>3. Counted(CountOf[t], n)'
      BY <1>3, <3>2
    <3> QED BY <3>2, <3>3 DEF Counted
  <2>2. stage' >= 10 => (Cardinality(AllRows("event")) <= Cardinality(Records))'
    BY <1>1, <1>3 DEF Counts0
  <2> QED BY <1>3, <2>1, <2>2 DEF Counts0
<1>4. CASE Onward
  BY <1>0, <1>3, <1>4, CountedOnward, OnwardIsSame DEF Same
<1>5. CASE TakeUp
  <2>1. PICK a : Takes(a)
    BY <1>5, TakeUpTakes
  <2> DEFINE P == Artefact(a)
  <2>2. stage' = stage /\ Gains(P) /\ Attends(a, P)
    BY <2>1 DEF Takes, Serves
  <2> HIDE DEF P
  <2>3. counts' = counts
    BY <1>5 DEF TakeUp, account
  <2>4. \A c : CountsIn(agenda, c) = {} /\ CountsIn(agenda', c) = {}
    BY <2>2, NoneFacts DEF Gains, Attends
  <2>5. \A c, n : Counted(c, n) => Counted(c, n)'
    BY <2>3, <2>4 DEF Counted
  <2> QED BY <1>0, <1>3, <2>2, <2>3, <2>5
<1>6. CASE NextStage
  <2>1. Advances
    BY <1>6, NextStageAdvances
  <2> DEFINE n == stage + 1
             P == WorkOf(n)
  <2>2. n \in 1..23 /\ Gains(P) /\ stage' = n
    BY <2>1 DEF Advances
  <2>3. counts' = counts
    BY <1>6 DEF NextStage, account
  <2>4. \A t \in AsRead \cup AtOnce : CountsIn(P, CountOf[t]) = (IF n = CountedAt[t] THEN {Tally(t)} ELSE {})
    BY <2>2, StageCounts
  <2>5. \A t \in AsRead \cup AtOnce : RowsIn(P, t) # {} => t \in Owned(n)
    BY <2>2, StageOwns
  <2>6. n = stage + 1 /\ stage \in Nat
    BY <1>0
  <2>7. /\ n = 10 => Cardinality(RowsIn(P, "event")) <= Tally("event")
        /\ n = 14 => Tally("file_target") = Cardinality(RowsIn(P, "file_target"))
        /\ n = 16 => Tally("prefetch_run") = Cardinality(RowsIn(P, "prefetch_run"))
        /\ n = 16 => Tally("prefetch_execution") = Cardinality(RowsIn(P, "prefetch_execution"))
    BY TallyOfLoaded
  <2> HIDE DEF P, n
  <2>8. agenda = <<>> /\ agenda' = P /\ AllSources = sources /\ \A t : AllRows(t)' = AllRows(t) \cup RowsIn(P, t)
    BY <2>2 DEF Gains
  <2>9. \A c : CountsIn(agenda, c) = {}
    BY <2>8, NoneFacts
  <2>10. Records' = Records
    BY FateKept DEF Records, Parsed
  <2>11. ASSUME NEW t \in AsRead \cup AtOnce, stage' >= CountedAt[t] PROVE Counted(CountOf[t], Tallied(t))'
    <3>1. CASE n = CountedAt[t]
      <4>1. CountsIn(agenda', CountOf[t]) = {Tally(t)}
        BY <2>4, <2>8, <3>1
      <4>2. Tallied(t)' = Tally(t)
        <5>1. CASE t \in AsRead
          BY <5>1, CountedTables, OwnedOnce, <2>5, <2>8, TallyOfRead DEF AsRead, Tallied
        <5>2. CASE t = "event"
          BY <2>10, <5>2, TallyIs DEF Tallied
        <5>3. CASE t \in AtOnce /\ t # "event"
          <6>1. AllRows(t) = {}
            BY <1>0, <2>6, <3>1, <5>3 DEF Exact0
          <6>2. AllRows(t)' = RowsIn(P, t)
            BY <2>8, <6>1
          <6>3. Tally(t) = Cardinality(RowsIn(P, t))
            BY <2>7, <3>1, <5>3, CountedIs DEF AtOnce
          <6> QED BY <5>3, <6>2, <6>3 DEF Tallied
        <5> QED BY <5>1, <5>2, <5>3
      <4> QED BY <4>1, <4>2 DEF Counted
    <3>2. CASE n # CountedAt[t]
      <4>1. stage >= CountedAt[t]
        BY <1>0, <2>2, <2>6, <2>11, <3>2
      <4>2. counts[CountOf[t]] = Tallied(t) /\ Tallied(t)' = Tallied(t)
        BY <1>2, <2>9, <4>1 DEF Counts0, Counted
      <4>3. CountsIn(agenda', CountOf[t]) = {}
        BY <2>4, <2>8, <3>2
      <4> QED BY <2>3, <4>2, <4>3 DEF Counted
    <3> QED BY <3>1, <3>2
  <2>12. stage' >= 10 => (Cardinality(AllRows("event")) <= Cardinality(Records))'
    <3>1. CASE n = 10
      <4>1. "event" \in AtOnce /\ CountedAt["event"] = 10
        BY CountedIs DEF AtOnce
      <4>2. AllRows("event") = {}
        BY <2>6, <3>1, <4>1 DEF Exact0
      <4>3. AllRows("event")' = RowsIn(P, "event")
        BY <2>8, <4>2
      <4> QED BY <2>7, <2>10, <3>1, <4>3, TallyIs
    <3>2. CASE n # 10
      BY <1>1, <2>2, <2>6, <3>2 DEF Counts0
    <3> QED BY <3>1, <3>2
  <2> QED BY <1>0, <2>3, <2>11, <2>12 DEF Counts0
<1> QED BY <1>4, <1>5, <1>6, NextCases

\* At the end the counts are the tables' sizes.
LEMMA CountsIf == Ended /\ Ledger0 /\ Counts0 => CountsAreRows
<1> SUFFICES ASSUME Ended, Ledger0, Counts0, Published PROVE CountsAreRows
  BY DEF CountsAreRows
<1>1. stage = 23 /\ agenda = <<>> /\ manifest.counts = counts /\ \A t : AllRows(t) = db[t]
  BY InTheEnd
<1>2. \A t \in AsRead \cup AtOnce : stage >= CountedAt[t]
  BY CountedTables, <1>1
<1>3. \A t \in AsRead \cup AtOnce : manifest.counts[CountOf[t]]
           = (IF t = "event" THEN Cardinality(Records) ELSE Cardinality(db[t]))
  BY <1>1, <1>2, NoneFacts DEF Counts0, Counted, Tallied
<1>4. /\ manifest.counts["devnodes"] = Cardinality(db["devnode"])
      /\ manifest.counts["shell_bags"] = Cardinality(db["shell_bag"])
      /\ manifest.counts["mru_entries"] = Cardinality(db["mru_entry"])
      /\ manifest.counts["user_assist"] = Cardinality(db["user_assist"])
  BY <1>3, CountedIs DEF AsRead
<1>5. /\ manifest.counts["file_targets"] = Cardinality(db["file_target"])
      /\ manifest.counts["prefetch_runs"] = Cardinality(db["prefetch_run"])
      /\ manifest.counts["prefetch_executions"] = Cardinality(db["prefetch_execution"])
      /\ manifest.counts["event_records"] = Cardinality(Records)
  BY <1>3, CountedIs DEF AtOnce
<1>6. manifest.counts["event_records"] >= Cardinality(db["event"])
  BY <1>1, <1>5 DEF Counts0
<1> QED BY <1>4, <1>5, <1>6 DEF CountsAreRows

\* When the manifest is out, the exports it names, the database file it gives the
\* hash of and the counts it gives are those of the case.
THEOREM ManifestSaysTheCase == Spec => []ManifestIsTheCase
<1> DEFINE IInv == Typed /\ SourcesExact /\ Ledger0 /\ Ended /\ Files0 /\ File0 /\ Exact0 /\ Counts0
<1>1. Init => IInv
  BY TypedStarts, SourcesStart, LedgerStarts, EndedStarts, FilesStart, FileStarts, ExactStarts, CountsStart
<1>2. IInv /\ [Next]_vars => IInv'
  BY TypedSteps, SourcesStep, LedgerSteps, EndedSteps, FilesStep, FileSteps, ExactSteps, CountsStep
<1>3. IInv => ManifestIsTheCase
  BY FilesIf, CountsIf DEF ManifestIsTheCase
<1> QED BY <1>1, <1>2, <1>3, PTL DEF Spec

=============================================================================
