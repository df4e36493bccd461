------------------------- MODULE EventLogParseProofs -------------------------
(***************************************************************************)
(* For any logs, any cut into batches and any number of workers: a batch    *)
(* is merged once, the counts and the records are those of the batches      *)
(* merged, they balance, and what is returned is what reading the logs one  *)
(* after another returns.                                                   *)
(***************************************************************************)
EXTENDS EventLogParse, FiniteSetTheorems, TLAPS

-----------------------------------------------------------------------------
(* Orders, and what is put in order by them.                                *)

Below(S, R, x) == {y \in S : <<y, x>> \in R}

StrictOrder(S, R) ==
  /\ \A x \in S : <<x, x>> \notin R
  /\ \A x, y, z \in S : <<x, y>> \in R /\ <<y, z>> \in R => <<x, z>> \in R
  /\ \A x, y \in S : x # y => <<x, y>> \in R \/ <<y, x>> \in R

\* q holds the elements of S in the order R.
Placed(q, S, R) ==
  /\ q \in [1..Cardinality(S) -> S]
  /\ \A n \in 1..Cardinality(S) : Cardinality(Below(S, R, q[n])) = n - 1

\* A strict order on a finite set gives every element a rank of its own, and every rank an element.
LEMMA Ranks ==
  ASSUME NEW S, IsFiniteSet(S), NEW R, StrictOrder(S, R)
  PROVE  /\ \A x \in S : Cardinality(Below(S, R, x)) \in 0..(Cardinality(S) - 1)
         /\ \A x, y \in S : Cardinality(Below(S, R, x)) = Cardinality(Below(S, R, y)) => x = y
         /\ \A n \in 1..Cardinality(S) : \E x \in S : Cardinality(Below(S, R, x)) = n - 1
<1> DEFINE k == Cardinality(S)
           rank == [x \in S |-> Cardinality(Below(S, R, x))]
<1>1. k \in Nat
  BY FS_CardinalityType
<1>2. ASSUME NEW x \in S
      PROVE  IsFiniteSet(Below(S, R, x)) /\ Cardinality(Below(S, R, x)) \in 0..(k - 1)
  <2>1. Below(S, R, x) \in SUBSET S /\ Below(S, R, x) # S
    BY DEF Below, StrictOrder
  <2>2. /\ IsFiniteSet(Below(S, R, x))
        /\ Cardinality(Below(S, R, x)) <= k /\ Cardinality(Below(S, R, x)) # k
    BY <2>1, FS_Subset
  <2>3. Cardinality(Below(S, R, x)) \in Nat
    BY <2>2, FS_CardinalityType
  <2> HIDE DEF k
  <2> QED BY <1>1, <2>2, <2>3
<1>3. ASSUME NEW x \in S, NEW y \in S, <<x, y>> \in R
      PROVE  Cardinality(Below(S, R, x)) # Cardinality(Below(S, R, y))
  <2>1. Below(S, R, x) \in SUBSET Below(S, R, y) /\ Below(S, R, x) # Below(S, R, y)
    BY <1>3 DEF Below, StrictOrder
  <2> QED BY <1>2, <2>1, FS_Subset
<1>4. \A x, y \in S : Cardinality(Below(S, R, x)) = Cardinality(Below(S, R, y)) => x = y
  BY <1>3 DEF StrictOrder
<1>5. \A n \in 1..k : \E x \in S : Cardinality(Below(S, R, x)) = n - 1
  <2>1. rank \in Injection(S, 0..(k - 1))
    <3> HIDE DEF k
    <3> QED BY <1>2, <1>4 DEF Injection, IsInjective
  <2>2. IsFiniteSet(0..(k - 1)) /\ Cardinality(0..(k - 1)) = k
    <3> HIDE DEF k
    <3> QED BY <1>1, FS_Interval
  <2>3. rank \in Surjection(S, 0..(k - 1))
    <3> HIDE DEF rank
    <3> QED BY <2>1, <2>2, FS_Injection
  <2>4. \A x \in S : rank[x] = Cardinality(Below(S, R, x))
    OBVIOUS
  <2> HIDE DEF k, rank
  <2>5. \A n \in 1..k : \E x \in S : rank[x] = n - 1
    BY <1>1, <2>3 DEF Surjection
  <2> QED BY <2>4, <2>5
<1> QED BY <1>2, <1>4, <1>5

\* A sequence in such an order holds every element of the set, and each once.
LEMMA PlacedCovers ==
  ASSUME NEW S, IsFiniteSet(S), NEW R, StrictOrder(S, R), NEW q, Placed(q, S, R)
  PROVE  /\ q \in Seq(S) /\ Len(q) = Cardinality(S) /\ IsInjective(q) /\ Range(q) = S
<1> DEFINE k == Cardinality(S)
<1>1. k \in Nat
  BY FS_CardinalityType
<1>2. q \in [1..k -> S] /\ \A n \in 1..k : Cardinality(Below(S, R, q[n])) = n - 1
  BY DEF Placed
<1>3. /\ \A x \in S : Cardinality(Below(S, R, x)) \in 0..(k - 1)
      /\ \A x, y \in S : Cardinality(Below(S, R, x)) = Cardinality(Below(S, R, y)) => x = y
  BY Ranks
<1> HIDE DEF k
<1>4. q \in Seq(S) /\ Len(q) = k /\ DOMAIN q = 1..k
  BY <1>1, <1>2
<1>5. IsInjective(q)
  BY <1>1, <1>2, <1>4 DEF IsInjective
<1>6. ASSUME NEW x \in S PROVE \E n \in 1..k : q[n] = x
  <2>1. Cardinality(Below(S, R, x)) + 1 \in 1..k
    BY <1>1, <1>3
  <2> DEFINE n == Cardinality(Below(S, R, x)) + 1
  <2>2. Cardinality(Below(S, R, q[n])) = Cardinality(Below(S, R, x))
    BY <1>1, <1>2, <1>3, <2>1
  <2>3. q[n] \in S
    BY <1>2, <2>1
  <2> QED BY <1>3, <2>1, <2>2, <2>3
<1>7. Range(q) = S
  BY <1>2, <1>4, <1>6 DEF Range
<1> QED BY <1>4, <1>5, <1>7 DEF k

\* There is one such sequence: what an order that tells all its elements apart sorts, it
\* sorts in one way.
LEMMA PlacedOnce ==
  ASSUME NEW S, IsFiniteSet(S), NEW R, StrictOrder(S, R),
         NEW p, NEW q, Placed(p, S, R), Placed(q, S, R)
  PROVE  p = q
<1> DEFINE k == Cardinality(S)
<1>1. k \in Nat
  BY FS_CardinalityType
<1>2. \A x, y \in S : Cardinality(Below(S, R, x)) = Cardinality(Below(S, R, y)) => x = y
  BY Ranks
<1>3. /\ p \in [1..k -> S] /\ \A n \in 1..k : Cardinality(Below(S, R, p[n])) = n - 1
      /\ q \in [1..k -> S] /\ \A n \in 1..k : Cardinality(Below(S, R, q[n])) = n - 1
  BY DEF Placed
<1> HIDE DEF k
<1>4. ASSUME NEW n \in 1..k PROVE p[n] = q[n]
  <2>1. p[n] \in S /\ q[n] \in S /\ Cardinality(Below(S, R, p[n])) = Cardinality(Below(S, R, q[n]))
    BY <1>3
  <2> QED BY <1>2, <2>1
<1>5. p = [n \in 1..k |-> p[n]] /\ q = [n \in 1..k |-> q[n]]
  BY <1>3
<1> QED BY <1>4, <1>5

\* The orders of the model, as relations on a set.
InLogOn(S) == {p \in S \X S : InLog(p[1], p[2])}
FirstLogOn(S) == {p \in S \X S : OneLogAfterAnother(p[1], p[2])}
BeforeOn(S) == {p \in S \X S : Before(p[1], p[2])}
LongestOn(S) == {p \in S \X S : LongestFirst(p[1], p[2])}
LessOn(S) == {p \in S \X S : p[1] < p[2]}

\* A batch's records as parseFilePlan leaves them, in the order of their file.
LEMMA OrderedInLog ==
  ASSUME NEW S, IsFiniteSet(S), StrictOrder(S, InLogOn(S))
  PROVE  Placed(Ordered(S, InLog), S, InLogOn(S))
<1> DEFINE k == Cardinality(S)
           P(n, x) == Cardinality({y \in S : InLog(y, x)}) = n - 1
           q == [n \in 1..k |-> CHOOSE x \in S : P(n, x)]
<1>1. \A x \in S : Below(S, InLogOn(S), x) = {y \in S : InLog(y, x)}
  BY DEF Below, InLogOn
<1>2. ASSUME NEW n \in 1..k PROVE \E x \in S : P(n, x)
  <2>1. PICK x \in S : Cardinality(Below(S, InLogOn(S), x)) = n - 1
    BY Ranks
  <2>2. P(n, x)
    BY <1>1, <2>1
  <2> HIDE DEF P
  <2> QED BY <2>2
<1>3. \A n \in 1..k : q[n] \in S /\ P(n, q[n])
  <2> HIDE DEF P, k
  <2> QED BY <1>2
<1>4. q \in [1..k -> S]
  <2> HIDE DEF P, k
  <2> QED BY <1>3
<1>5. \A n \in 1..k : Cardinality(Below(S, InLogOn(S), q[n])) = n - 1
  <2> HIDE DEF q, k
  <2> QED BY <1>1, <1>3
<1>6. Placed(q, S, InLogOn(S))
  <2> HIDE DEF q
  <2> QED BY <1>4, <1>5 DEF Placed
<1> QED BY <1>6 DEF Ordered

\* The records of the logs read one after another.
LEMMA OrderedByLog ==
  ASSUME NEW S, IsFiniteSet(S), StrictOrder(S, FirstLogOn(S))
  PROVE  Placed(Ordered(S, OneLogAfterAnother), S, FirstLogOn(S))
<1> DEFINE k == Cardinality(S)
           P(n, x) == Cardinality({y \in S : OneLogAfterAnother(y, x)}) = n - 1
           q == [n \in 1..k |-> CHOOSE x \in S : P(n, x)]
<1>1. \A x \in S : Below(S, FirstLogOn(S), x) = {y \in S : OneLogAfterAnother(y, x)}
  BY DEF Below, FirstLogOn
<1>2. ASSUME NEW n \in 1..k PROVE \E x \in S : P(n, x)
  <2>1. PICK x \in S : Cardinality(Below(S, FirstLogOn(S), x)) = n - 1
    BY Ranks
  <2>2. P(n, x)
    BY <1>1, <2>1
  <2> HIDE DEF P
  <2> QED BY <2>2
<1>3. \A n \in 1..k : q[n] \in S /\ P(n, q[n])
  <2> HIDE DEF P, k
  <2> QED BY <1>2
<1>4. q \in [1..k -> S]
  <2> HIDE DEF P, k
  <2> QED BY <1>3
<1>5. \A n \in 1..k : Cardinality(Below(S, FirstLogOn(S), q[n])) = n - 1
  <2> HIDE DEF q, k
  <2> QED BY <1>1, <1>3
<1>6. Placed(q, S, FirstLogOn(S))
  <2> HIDE DEF q
  <2> QED BY <1>4, <1>5 DEF Placed
<1> QED BY <1>6 DEF Ordered

\* The batches as chunkBatches hands them out, the longest file's first.
LEMMA OrderedLongest ==
  ASSUME NEW S, IsFiniteSet(S), StrictOrder(S, LongestOn(S))
  PROVE  Placed(Ordered(S, LongestFirst), S, LongestOn(S))
<1> DEFINE k == Cardinality(S)
           P(n, x) == Cardinality({y \in S : LongestFirst(y, x)}) = n - 1
           q == [n \in 1..k |-> CHOOSE x \in S : P(n, x)]
<1>1. \A x \in S : Below(S, LongestOn(S), x) = {y \in S : LongestFirst(y, x)}
  BY DEF Below, LongestOn
<1>2. ASSUME NEW n \in 1..k PROVE \E x \in S : P(n, x)
  <2>1. PICK x \in S : Cardinality(Below(S, LongestOn(S), x)) = n - 1
    BY Ranks
  <2>2. P(n, x)
    BY <1>1, <2>1
  <2> HIDE DEF P
  <2> QED BY <2>2
<1>3. \A n \in 1..k : q[n] \in S /\ P(n, q[n])
  <2> HIDE DEF P, k
  <2> QED BY <1>2
<1>4. q \in [1..k -> S]
  <2> HIDE DEF P, k
  <2> QED BY <1>3
<1>5. \A n \in 1..k : Cardinality(Below(S, LongestOn(S), q[n])) = n - 1
  <2> HIDE DEF q, k
  <2> QED BY <1>1, <1>3
<1>6. Placed(q, S, LongestOn(S))
  <2> HIDE DEF q
  <2> QED BY <1>4, <1>5 DEF Placed
<1> QED BY <1>6 DEF Ordered

\* The selected logs in path order, each once.
LEMMA OrderedPaths ==
  /\ IsFiniteSet(Selected) /\ Cardinality(Selected) \in Nat
  /\ InPathOrder \in Seq(Selected) /\ Len(InPathOrder) = Cardinality(Selected)
  /\ IsInjective(InPathOrder) /\ Range(InPathOrder) = Selected
<1>1. IsFiniteSet(Selected) /\ Selected \subseteq Nat
  BY LogsAssumption, FS_Subset DEF LogsAssumption
<1>2. StrictOrder(Selected, LessOn(Selected))
  BY <1>1 DEF StrictOrder, LessOn
<1> DEFINE k == Cardinality(Selected)
           P(n, x) == Cardinality({y \in Selected : y < x}) = n - 1
           q == [n \in 1..k |-> CHOOSE x \in Selected : P(n, x)]
<1>3. \A x \in Selected : Below(Selected, LessOn(Selected), x) = {y \in Selected : y < x}
  BY DEF Below, LessOn
<1>4. ASSUME NEW n \in 1..k PROVE \E x \in Selected : P(n, x)
  <2>0. \E x \in Selected : Cardinality(Below(Selected, LessOn(Selected), x)) = n - 1
    <3> HIDE DEF P
    <3> QED BY <1>1, <1>2, Ranks DEF Selected
  <2>1. PICK x \in Selected : Cardinality(Below(Selected, LessOn(Selected), x)) = n - 1
    BY <2>0
  <2>2. P(n, x)
    BY <1>3, <2>1
  <2> HIDE DEF P
  <2> QED BY <2>2
<1>5. \A n \in 1..k : q[n] \in Selected /\ P(n, q[n])
  <2> HIDE DEF P, k
  <2> QED BY <1>4
<1>6. q \in [1..k -> Selected]
  <2> HIDE DEF P, k
  <2> QED BY <1>5
<1>7. \A n \in 1..k : Cardinality(Below(Selected, LessOn(Selected), q[n])) = n - 1
  <2> HIDE DEF q, k
  <2> QED BY <1>3, <1>5
<1>8. Placed(q, Selected, LessOn(Selected))
  <2> HIDE DEF q
  <2> QED BY <1>6, <1>7 DEF Placed
<1>9. InPathOrder = q
  BY DEF InPathOrder, Ordered
<1> HIDE DEF q
<1> QED BY <1>1, <1>2, <1>8, <1>9, PlacedCovers, FS_CardinalityType

-----------------------------------------------------------------------------
(* What is read.                                                            *)

\* Whatever is read of the selected logs.
AllRecords == UNION {ReadOf(f, 1..Len(Logs[f])) : f \in Selected}

\* The chunks a log has.
ChunksIn(f) == 1..Len(Logs[f])

\* A log is a finite sequence of chunks, and a chunk that parses one of records.
LEMMA ChunkFacts ==
  ASSUME NEW f \in Selected
  PROVE  /\ f \in Nat /\ Len(Logs[f]) \in Nat /\ IsFiniteSet(ChunksIn(f))
         /\ \A i \in ChunksIn(f) : i \in Nat
         /\ \A i \in ChunksIn(f) : Logs[f][i] # Damaged =>
              /\ Len(Logs[f][i]) \in Nat /\ DOMAIN Logs[f][i] = 1..Len(Logs[f][i])
              /\ \A j \in DOMAIN Logs[f][i] : Logs[f][i][j] \in Entry
<1>1. f \in Nat /\ Logs[f] \in Seq(Seq(Entry) \cup {Damaged})
  BY LogsAssumption DEF LogsAssumption
<1>2. Len(Logs[f]) \in Nat /\ DOMAIN Logs[f] = 1..Len(Logs[f])
  BY <1>1
<1>3. IsFiniteSet(ChunksIn(f))
  BY <1>2, FS_Interval DEF ChunksIn
<1>4. ASSUME NEW i \in ChunksIn(f), Logs[f][i] # Damaged
      PROVE  Logs[f][i] \in Seq(Entry)
  BY <1>1, <1>2, <1>4 DEF ChunksIn
<1>5. ASSUME NEW i \in ChunksIn(f), Logs[f][i] # Damaged
      PROVE  /\ Len(Logs[f][i]) \in Nat /\ DOMAIN Logs[f][i] = 1..Len(Logs[f][i])
             /\ \A j \in DOMAIN Logs[f][i] : Logs[f][i][j] \in Entry
  <2>1. Logs[f][i] \in Seq(Entry)
    BY <1>4, <1>5
  <2> QED BY <2>1
<1>6. \A i \in ChunksIn(f) : i \in Nat
  BY <1>2 DEF ChunksIn
<1> QED BY <1>1, <1>2, <1>3, <1>5, <1>6

\* What is read of some of a log's chunks: finitely many records, each named by its place.
LEMMA ReadFacts ==
  ASSUME NEW f \in Selected, NEW C \in SUBSET ChunksIn(f)
  PROVE  /\ IsFiniteSet(ReadOf(f, C))
         /\ \A r \in ReadOf(f, C) :
              /\ r.file = f /\ r.id[1] \in C /\ r.id[1] \in Nat /\ r.id[2] \in Nat
              /\ r.holds \in Entry
         /\ \A r, s \in ReadOf(f, C) : r.id[1] = s.id[1] /\ r.id[2] = s.id[2] => r = s
<1> DEFINE of(i) == {[file |-> f, id |-> <<i, j>>, holds |-> Logs[f][i][j]] : j \in DOMAIN Logs[f][i]}
           P == Parsed(f, C)
<1>1. P \subseteq C /\ C \subseteq ChunksIn(f) /\ \A i \in P : Logs[f][i] # Damaged
  BY DEF Parsed
<1>2. ASSUME NEW i \in P PROVE IsFiniteSet(of(i))
  <2> DEFINE d == DOMAIN Logs[f][i]
             g == [j \in d |-> [file |-> f, id |-> <<i, j>>, holds |-> Logs[f][i][j]]]
  <2>1. d = 1..Len(Logs[f][i]) /\ Len(Logs[f][i]) \in Nat
    <3> HIDE DEF P
    <3> QED BY <1>1, ChunkFacts
  <2>2. IsFiniteSet(d)
    <3> HIDE DEF P, d
    <3> QED BY <2>1, FS_Interval
  <2>3. g \in Surjection(d, of(i))
    <3> HIDE DEF P
    <3> QED BY DEF Surjection
  <2> HIDE DEF P, d, of, g
  <2> QED BY <2>2, <2>3, FS_Surjection
<1>3. IsFiniteSet({of(i) : i \in P})
  <2> DEFINE g == [i \in P |-> of(i)]
             all == {of(i) : i \in P}
  <2>1. IsFiniteSet(P)
    <3> HIDE DEF P
    <3> QED BY <1>1, ChunkFacts, FS_Subset
  <2>2. g \in Surjection(P, all)
    <3> HIDE DEF P, of
    <3> QED BY DEF Surjection
  <2>3. IsFiniteSet(all)
    <3> HIDE DEF P, of, g, all
    <3> QED BY <2>1, <2>2, FS_Surjection
  <2> QED BY <2>3
<1>4. IsFiniteSet(UNION {of(i) : i \in P})
  <2> DEFINE all == {of(i) : i \in P}
  <2>1. \A T \in all : IsFiniteSet(T)
    <3> HIDE DEF P, of
    <3> QED BY <1>2
  <2>2. IsFiniteSet(all)
    BY <1>3
  <2> HIDE DEF all
  <2>3. IsFiniteSet(UNION all)
    BY <2>1, <2>2, FS_UNION
  <2> QED BY <2>3 DEF all
<1>5. ReadOf(f, C) = UNION {of(i) : i \in P}
  BY DEF ReadOf
<1>6. ASSUME NEW r \in ReadOf(f, C)
      PROVE  \E i \in P : \E j \in DOMAIN Logs[f][i] :
               r = [file |-> f, id |-> <<i, j>>, holds |-> Logs[f][i][j]]
  BY <1>5
<1>7. ASSUME NEW r \in ReadOf(f, C)
      PROVE  /\ r.file = f /\ r.id[1] \in C /\ r.id[1] \in Nat /\ r.id[2] \in Nat
             /\ r.holds \in Entry /\ r = [file |-> f, id |-> <<r.id[1], r.id[2]>>,
                                          holds |-> Logs[f][r.id[1]][r.id[2]]]
  <2>1. PICK i \in P : \E j \in DOMAIN Logs[f][i] :
               r = [file |-> f, id |-> <<i, j>>, holds |-> Logs[f][i][j]]
    <3> HIDE DEF P
    <3> QED BY <1>6
  <2>2. PICK j \in DOMAIN Logs[f][i] : r = [file |-> f, id |-> <<i, j>>, holds |-> Logs[f][i][j]]
    BY <2>1
  <2>3. /\ i \in ChunksIn(f) /\ i \in C /\ i \in Nat /\ j \in Nat /\ Logs[f][i][j] \in Entry
    <3> HIDE DEF P
    <3> QED BY <1>1, ChunkFacts
  <2> HIDE DEF P
  <2> QED BY <2>2, <2>3
<1>8. ASSUME NEW r \in ReadOf(f, C), NEW s \in ReadOf(f, C),
             r.id[1] = s.id[1], r.id[2] = s.id[2]
      PROVE  r = s
  <2>1. /\ r = [file |-> f, id |-> <<r.id[1], r.id[2]>>, holds |-> Logs[f][r.id[1]][r.id[2]]]
        /\ s = [file |-> f, id |-> <<s.id[1], s.id[2]>>, holds |-> Logs[f][s.id[1]][s.id[2]]]
    BY <1>7
  <2> QED BY <1>8, <2>1
<1> HIDE DEF of, P
<1> QED BY <1>4, <1>5, <1>7, <1>8

\* What is read of two sets of chunks is what is read of each.
LEMMA ReadSplits ==
  ASSUME NEW f \in Selected, NEW C \in SUBSET ChunksIn(f), NEW D \in SUBSET ChunksIn(f)
  PROVE  /\ ReadOf(f, C \cup D) = ReadOf(f, C) \cup ReadOf(f, D)
         /\ C \cap D = {} => ReadOf(f, C) \cap ReadOf(f, D) = {}
         /\ ReadOf(f, {}) = {}
<1>1. Parsed(f, C \cup D) = Parsed(f, C) \cup Parsed(f, D)
  BY DEF Parsed
<1>2. ReadOf(f, C \cup D) = ReadOf(f, C) \cup ReadOf(f, D)
  BY <1>1 DEF ReadOf
<1>3. ReadOf(f, {}) = {}
  BY DEF ReadOf, Parsed
<1>4. (\A r \in ReadOf(f, C) : r.id[1] \in C) /\ (\A r \in ReadOf(f, D) : r.id[1] \in D)
  BY ReadFacts
<1> QED BY <1>2, <1>3, <1>4

-----------------------------------------------------------------------------
(* What is counted.                                                         *)

ExcludedOf(f, C) == {r \in ReadOf(f, C) : ~r.holds.kept}
StraysOf(f, C) == {r \in ReadOf(f, C) : r.holds.elsewhere}
FailedOf(f, C) == C \ Parsed(f, C)

\* Each count is the number of the records, or of the chunks, it is a count of.
LEMMA CountsShape ==
  ASSUME NEW f, NEW C
  PROVE  /\ CountsOf(f, C).read = Cardinality(ReadOf(f, C))
         /\ CountsOf(f, C).retained = Cardinality(RetainedOf(f, C))
         /\ CountsOf(f, C).excluded = Cardinality(ExcludedOf(f, C))
         /\ CountsOf(f, C).mismatched = Cardinality(StraysOf(f, C))
         /\ CountsOf(f, C).failed = Cardinality(FailedOf(f, C))
         /\ CountsOf(f, C) = [c \in Counted |-> CountsOf(f, C)[c]]
<1>1. {r \in ReadOf(f, C) : TRUE} = ReadOf(f, C)
  OBVIOUS
<1>2. CountsOf(f, C) = [read       |-> Cardinality({r \in ReadOf(f, C) : TRUE}),
                        retained   |-> Cardinality(RetainedOf(f, C)),
                        excluded   |-> Cardinality(ExcludedOf(f, C)),
                        mismatched |-> Cardinality(StraysOf(f, C)),
                        failed     |-> Cardinality(FailedOf(f, C))]
  BY DEF CountsOf, RetainedOf, ExcludedOf, StraysOf, FailedOf
<1>3. CountsOf(f, C) = [c \in Counted |-> CountsOf(f, C)[c]]
  BY <1>2 DEF Counted
<1>4. Cardinality({r \in ReadOf(f, C) : TRUE}) = Cardinality(ReadOf(f, C))
  BY <1>1
<1>5. CountsOf(f, C).read = Cardinality({r \in ReadOf(f, C) : TRUE})
  BY <1>2
<1>6. CountsOf(f, C).read = Cardinality(ReadOf(f, C))
  BY <1>4, <1>5
<1>7. /\ CountsOf(f, C).retained = Cardinality(RetainedOf(f, C))
      /\ CountsOf(f, C).excluded = Cardinality(ExcludedOf(f, C))
      /\ CountsOf(f, C).mismatched = Cardinality(StraysOf(f, C))
      /\ CountsOf(f, C).failed = Cardinality(FailedOf(f, C))
  BY <1>2
<1> QED BY <1>3, <1>6, <1>7

\* Disjoint finite sets are counted one after the other.
LEMMA CountedApart ==
  ASSUME NEW S, NEW T, IsFiniteSet(S), IsFiniteSet(T), S \cap T = {}
  PROVE  /\ Cardinality(S \cup T) = Cardinality(S) + Cardinality(T)
         /\ Cardinality(S) \in Nat /\ Cardinality(T) \in Nat /\ IsFiniteSet(S \cup T)
<1>1. Cardinality(S) \in Nat /\ Cardinality(T) \in Nat /\ Cardinality({}) = 0
  BY FS_CardinalityType, FS_EmptySet
<1>2. IsFiniteSet(S \cup T)
      /\ Cardinality(S \cup T) = Cardinality(S) + Cardinality(T) - Cardinality(S \cap T)
  BY FS_Union
<1>3. Cardinality(S \cap T) = 0
  BY <1>1
<1> QED BY <1>1, <1>2, <1>3

\* What is counted is finite.
LEMMA PartsFinite ==
  ASSUME NEW f \in Selected, NEW C \in SUBSET ChunksIn(f)
  PROVE  /\ IsFiniteSet(ReadOf(f, C)) /\ IsFiniteSet(RetainedOf(f, C))
         /\ IsFiniteSet(ExcludedOf(f, C)) /\ IsFiniteSet(StraysOf(f, C))
         /\ IsFiniteSet(FailedOf(f, C))
<1>1. IsFiniteSet(ReadOf(f, C)) /\ IsFiniteSet(C)
  BY ReadFacts, ChunkFacts, FS_Subset
<1>2. /\ RetainedOf(f, C) \in SUBSET ReadOf(f, C) /\ ExcludedOf(f, C) \in SUBSET ReadOf(f, C)
      /\ StraysOf(f, C) \in SUBSET ReadOf(f, C) /\ FailedOf(f, C) \in SUBSET C
  BY DEF RetainedOf, ExcludedOf, StraysOf, FailedOf
<1> QED BY <1>1, <1>2, FS_Subset

\* A file's counts are numbers.
LEMMA CountsAreNumbers ==
  ASSUME NEW f \in Selected, NEW C \in SUBSET ChunksIn(f)
  PROVE  CountsOf(f, C) \in [Counted -> Nat]
<1>1. /\ Cardinality(ReadOf(f, C)) \in Nat /\ Cardinality(RetainedOf(f, C)) \in Nat
      /\ Cardinality(ExcludedOf(f, C)) \in Nat /\ Cardinality(StraysOf(f, C)) \in Nat
      /\ Cardinality(FailedOf(f, C)) \in Nat
  BY PartsFinite, FS_CardinalityType
<1>2. \A c \in Counted : CountsOf(f, C)[c] \in Nat
  BY <1>1, CountsShape DEF Counted
<1> QED BY <1>2, CountsShape

\* Nothing is counted of no chunks.
LEMMA CountsOfNone ==
  ASSUME NEW f \in Selected PROVE CountsOf(f, {}) = NoCounts
<1>1. /\ ReadOf(f, {}) = {} /\ RetainedOf(f, {}) = {} /\ ExcludedOf(f, {}) = {}
      /\ StraysOf(f, {}) = {} /\ FailedOf(f, {}) = {}
  BY DEF ReadOf, Parsed, RetainedOf, ExcludedOf, StraysOf, FailedOf
<1>2. \A c \in Counted : CountsOf(f, {})[c] = 0
  BY <1>1, CountsShape, FS_EmptySet DEF Counted
<1> QED BY <1>2, CountsShape DEF NoCounts

\* What is counted of two disjoint sets of chunks is what is counted of each: a file's counts
\* may be folded together a batch at a time, which is what filePlan.merge does.
LEMMA CountsAdd ==
  ASSUME NEW f \in Selected, NEW C \in SUBSET ChunksIn(f), NEW D \in SUBSET ChunksIn(f),
         C \cap D = {}
  PROVE  CountsOf(f, C \cup D) = Plus(CountsOf(f, C), CountsOf(f, D))
<1> DEFINE E == C \cup D
<1>1. ReadOf(f, E) = ReadOf(f, C) \cup ReadOf(f, D) /\ ReadOf(f, C) \cap ReadOf(f, D) = {}
  BY ReadSplits
<1>2. /\ RetainedOf(f, E) = RetainedOf(f, C) \cup RetainedOf(f, D)
      /\ RetainedOf(f, C) \cap RetainedOf(f, D) = {}
  BY <1>1 DEF RetainedOf
<1>3. /\ ExcludedOf(f, E) = ExcludedOf(f, C) \cup ExcludedOf(f, D)
      /\ ExcludedOf(f, C) \cap ExcludedOf(f, D) = {}
  BY <1>1 DEF ExcludedOf
<1>4. /\ StraysOf(f, E) = StraysOf(f, C) \cup StraysOf(f, D)
      /\ StraysOf(f, C) \cap StraysOf(f, D) = {}
  BY <1>1 DEF StraysOf
<1>5. /\ FailedOf(f, E) = FailedOf(f, C) \cup FailedOf(f, D)
      /\ FailedOf(f, C) \cap FailedOf(f, D) = {}
  BY DEF FailedOf, Parsed
<1> HIDE DEF E
<1>6. CountsOf(f, E).read = CountsOf(f, C).read + CountsOf(f, D).read
  BY <1>1, PartsFinite, CountedApart, CountsShape
<1>7. CountsOf(f, E).retained = CountsOf(f, C).retained + CountsOf(f, D).retained
  BY <1>2, PartsFinite, CountedApart, CountsShape
<1>8. CountsOf(f, E).excluded = CountsOf(f, C).excluded + CountsOf(f, D).excluded
  BY <1>3, PartsFinite, CountedApart, CountsShape
<1>9. CountsOf(f, E).mismatched = CountsOf(f, C).mismatched + CountsOf(f, D).mismatched
  BY <1>4, PartsFinite, CountedApart, CountsShape
<1>10. CountsOf(f, E).failed = CountsOf(f, C).failed + CountsOf(f, D).failed
  BY <1>5, PartsFinite, CountedApart, CountsShape
<1>11. \A c \in Counted : CountsOf(f, E)[c] = CountsOf(f, C)[c] + CountsOf(f, D)[c]
  BY <1>6, <1>7, <1>8, <1>9, <1>10 DEF Counted
<1> QED BY <1>11, CountsShape DEF Plus, E

\* A record is retained or excluded.
LEMMA CountsBalanceOf ==
  ASSUME NEW f \in Selected, NEW C \in SUBSET ChunksIn(f)
  PROVE  CountsOf(f, C).read = CountsOf(f, C).retained + CountsOf(f, C).excluded
<1>1. /\ ReadOf(f, C) = RetainedOf(f, C) \cup ExcludedOf(f, C)
      /\ RetainedOf(f, C) \cap ExcludedOf(f, C) = {}
  BY DEF RetainedOf, ExcludedOf
<1> QED BY <1>1, PartsFinite, CountedApart, CountsShape

\* Counts are added one by one, and nothing adds nothing.
LEMMA PlusFacts ==
  ASSUME NEW a \in [Counted -> Nat], NEW b \in [Counted -> Nat]
  PROVE  /\ Plus(a, b) \in [Counted -> Nat] /\ Plus(a, NoCounts) = a /\ Plus(NoCounts, b) = b
         /\ \A c \in Counted : Plus(a, b)[c] = a[c] + b[c]
         /\ NoCounts \in [Counted -> Nat]
<1>1. NoCounts \in [Counted -> Nat] /\ \A c \in Counted : NoCounts[c] = 0
  BY DEF NoCounts
<1>2. /\ Plus(a, NoCounts) = [c \in Counted |-> a[c] + NoCounts[c]]
      /\ Plus(NoCounts, b) = [c \in Counted |-> NoCounts[c] + b[c]]
      /\ Plus(a, b) = [c \in Counted |-> a[c] + b[c]]
  BY DEF Plus
<1> QED BY <1>1, <1>2

-----------------------------------------------------------------------------
(* What the counts add up to.                                               *)

\* A set of numbers has a least one.
LEMMA LeastOf ==
  ASSUME NEW S \in SUBSET Nat, S # {}
  PROVE  \E x \in S : \A y \in S : x <= y
<1>1. PICK x \in S : \A y \in S : ~(<<y, x>> \in OpToRel(<, Nat))
  BY WFMin, NatLessThanWellFounded
<1>2. \A y \in S : ~(y < x)
  BY <1>1 DEF OpToRel
<1>3. \A y \in S : x <= y
  BY <1>2
<1> QED BY <1>3

\* The counts of the first n logs, the step of Total.
Sum(u, counts, n) == IF n = 0 THEN NoCounts ELSE Plus(u[n - 1], counts[InPathOrder[n]])

\* The running sums of Total exist: the function that defines it is one.
LEMMA SumsExist ==
  ASSUME NEW counts, NEW k \in Nat
  PROVE  \E u : u = [n \in 0..k |-> Sum(u, counts, n)]
<1> DEFINE Ok(m) == \E u : u = [n \in 0..m |-> Sum(u, counts, n)]
           Bad == {m \in Nat : ~Ok(m)}
<1>1. Ok(0)
  <2> DEFINE u == [n \in 0..0 |-> NoCounts]
  <2>1. u = [n \in 0..0 |-> Sum(u, counts, n)]
    BY DEF Sum
  <2> HIDE DEF u
  <2> QED BY <2>1
<1>2. ASSUME NEW m \in Nat, Ok(m) PROVE Ok(m + 1)
  <2>1. PICK u : u = [n \in 0..m |-> Sum(u, counts, n)]
    BY <1>2
  <2> DEFINE v == [n \in 0..(m + 1) |-> IF n <= m THEN u[n] ELSE Sum(u, counts, n)]
  <2>2. \A n \in 0..m : v[n] = u[n] /\ u[n] = Sum(u, counts, n)
    BY <2>1
  <2>3. ASSUME NEW n \in 0..(m + 1) PROVE Sum(v, counts, n) = Sum(u, counts, n)
    <3>1. n = 0 \/ n - 1 \in 0..m
      OBVIOUS
    <3> HIDE DEF v
    <3> QED BY <2>2, <3>1 DEF Sum
  <2>4. ASSUME NEW n \in 0..(m + 1) PROVE v[n] = Sum(v, counts, n)
    <3>1. CASE n <= m
      <4>1. n \in 0..m
        BY <3>1
      <4> HIDE DEF v
      <4> QED BY <2>2, <2>3, <4>1
    <3>2. CASE ~(n <= m)
      BY <2>3, <3>2
    <3> QED BY <3>1, <3>2
  <2>5. v = [n \in 0..(m + 1) |-> v[n]]
    OBVIOUS
  <2>6. v = [n \in 0..(m + 1) |-> Sum(v, counts, n)]
    <3> HIDE DEF v
    <3> QED BY <2>4, <2>5
  <2> HIDE DEF v
  <2> QED BY <2>6
<1>3. Bad = {}
  <2> SUFFICES ASSUME Bad # {} PROVE FALSE
    OBVIOUS
  <2> HIDE DEF Ok
  <2>1. PICK m \in Bad : \A y \in Bad : m <= y
    BY LeastOf
  <2>2. m \in Nat /\ ~Ok(m) /\ m # 0
    BY <1>1
  <2>3. m - 1 \in Nat /\ ~(m <= m - 1)
    BY <2>2
  <2>4. Ok(m - 1)
    BY <2>1, <2>3
  <2>5. Ok(m - 1 + 1) /\ m - 1 + 1 = m
    BY <1>2, <2>2, <2>3, <2>4
  <2> QED BY <2>2, <2>5
<1> HIDE DEF Ok
<1>4. Ok(k)
  BY <1>3
<1> QED BY <1>4 DEF Ok

\* Total is the last of them.
LEMMA TotalUnfolds ==
  ASSUME NEW counts
  PROVE  \E u : /\ u = [n \in 0..Cardinality(Selected) |-> Sum(u, counts, n)]
                /\ Total(counts) = u[Cardinality(Selected)]
<1> DEFINE k == Cardinality(Selected)
           up == CHOOSE u : u = [n \in 0..k |-> Sum(u, counts, n)]
<1>1. k \in Nat
  BY OrderedPaths
<1>2. up = [n \in 0..k |-> Sum(up, counts, n)]
  <2> HIDE DEF k
  <2> QED BY <1>1, SumsExist
<1>3. Total(counts) = up[k]
  BY DEF Total, Sum
<1> HIDE DEF up, k
<1> QED BY <1>2, <1>3 DEF k

\* The logs of the first n places, and what is kept of some logs.
Firsts(n) == {InPathOrder[m] : m \in 1..n}
KeptOf(kept, F) == UNION {kept[f] : f \in F}

\* Where every file's counts balance and its retained records are its own, so do the total's:
\* ParseTreeWith's sum over the files.
LEMMA TotalAddsUp ==
  ASSUME NEW counts \in [Selected -> [Counted -> Nat]], NEW kept,
         \A f \in Selected : /\ counts[f].read = counts[f].retained + counts[f].excluded
                             /\ IsFiniteSet(kept[f]) /\ Cardinality(kept[f]) = counts[f].retained,
         \A f, g \in Selected : f # g => kept[f] \cap kept[g] = {}
  PROVE  /\ Total(counts).read = Total(counts).retained + Total(counts).excluded
         /\ Total(counts).retained = Cardinality(KeptOf(kept, Selected))
<1> DEFINE k == Cardinality(Selected)
<1>1. PICK u : u = [n \in 0..k |-> Sum(u, counts, n)] /\ Total(counts) = u[k]
  BY TotalUnfolds
<1>2. /\ k \in Nat /\ IsInjective(InPathOrder) /\ DOMAIN InPathOrder = 1..k
      /\ \A n \in 1..k : InPathOrder[n] \in Selected
      /\ \A f \in Selected : \E n \in 1..k : InPathOrder[n] = f
  <2>1. /\ k \in Nat /\ IsInjective(InPathOrder) /\ InPathOrder \in Seq(Selected)
        /\ Len(InPathOrder) = k /\ Range(InPathOrder) = Selected
    BY OrderedPaths
  <2> HIDE DEF k
  <2>2. DOMAIN InPathOrder = 1..k
    BY <2>1
  <2> QED BY <2>1, <2>2 DEF Range
<1> HIDE DEF k
<1>3. u[0] = NoCounts /\ \A n \in 1..k : u[n] = Plus(u[n - 1], counts[InPathOrder[n]])
  <2>1. \A n \in 0..k : u[n] = Sum(u, counts, n)
    BY <1>1
  <2>2. \A n \in 1..k : n \in 0..k /\ n # 0
    BY <1>2
  <2>3. 0 \in 0..k
    BY <1>2
  <2> QED BY <2>1, <2>2, <2>3 DEF Sum
<1> DEFINE Ok(n) == /\ u[n] \in [Counted -> Nat] /\ u[n].read = u[n].retained + u[n].excluded
                    /\ IsFiniteSet(KeptOf(kept, Firsts(n)))
                    /\ u[n].retained = Cardinality(KeptOf(kept, Firsts(n)))
<1>4. Ok(0)
  <2>1. KeptOf(kept, Firsts(0)) = {}
    BY DEF KeptOf, Firsts
  <2>2. /\ NoCounts \in [Counted -> Nat] /\ NoCounts.read = 0 /\ NoCounts.retained = 0
        /\ NoCounts.excluded = 0
    BY DEF NoCounts, Counted
  <2>3. IsFiniteSet({}) /\ Cardinality({}) = 0
    BY FS_EmptySet
  <2>4. u[0] \in [Counted -> Nat] /\ u[0].read = 0 /\ u[0].retained = 0 /\ u[0].excluded = 0
    BY <1>3, <2>2
  <2>5. u[0].read = u[0].retained + u[0].excluded
    BY <2>4
  <2>6. /\ IsFiniteSet(KeptOf(kept, Firsts(0)))
        /\ u[0].retained = Cardinality(KeptOf(kept, Firsts(0)))
    BY <2>1, <2>3, <2>4
  <2> QED BY <2>4, <2>5, <2>6
<1>5. ASSUME NEW n \in 1..k, Ok(n - 1) PROVE Ok(n)
  <2> DEFINE f == InPathOrder[n]
             before == KeptOf(kept, Firsts(n - 1))
  <2>1. f \in Selected
    BY <1>2
  <2>2. Firsts(n) = Firsts(n - 1) \cup {f}
    <3>1. 1..n = (1..(n - 1)) \cup {n}
      BY <1>2
    <3> QED BY <3>1 DEF Firsts
  <2>3. \A g \in Firsts(n - 1) : g \in Selected /\ g # f
    <3>1. \A m \in 1..(n - 1) : m \in 1..k /\ m # n
      BY <1>2
    <3>2. ASSUME NEW m \in 1..(n - 1) PROVE InPathOrder[m] \in Selected /\ InPathOrder[m] # f
      BY <1>2, <3>1 DEF IsInjective
    <3> QED BY <3>2 DEF Firsts
  <2>4. KeptOf(kept, Firsts(n)) = before \cup kept[f]
    BY <2>2 DEF KeptOf
  <2>5. before \cap kept[f] = {}
    BY <2>1, <2>3 DEF KeptOf
  <2>6. u[n] = Plus(u[n - 1], counts[f])
    BY <1>3
  <2>7. /\ u[n - 1] \in [Counted -> Nat] /\ u[n - 1].read = u[n - 1].retained + u[n - 1].excluded
        /\ IsFiniteSet(before) /\ u[n - 1].retained = Cardinality(before)
    BY <1>5
  <2>8. /\ counts[f] \in [Counted -> Nat] /\ counts[f].read = counts[f].retained + counts[f].excluded
        /\ IsFiniteSet(kept[f]) /\ Cardinality(kept[f]) = counts[f].retained
    BY <2>1
  <2> HIDE DEF f, before, Ok
  <2>9. /\ u[n] \in [Counted -> Nat]
        /\ \A c \in Counted : u[n][c] = u[n - 1][c] + counts[f][c]
    <3>1. u[n - 1] \in [Counted -> Nat] /\ counts[f] \in [Counted -> Nat]
      BY <2>7, <2>8
    <3>2. /\ Plus(u[n - 1], counts[f]) \in [Counted -> Nat]
          /\ \A c \in Counted : Plus(u[n - 1], counts[f])[c] = u[n - 1][c] + counts[f][c]
      BY <3>1, PlusFacts
    <3> QED BY <2>6, <3>2
  <2>10. /\ u[n].read = u[n - 1].read + counts[f].read
         /\ u[n].retained = u[n - 1].retained + counts[f].retained
         /\ u[n].excluded = u[n - 1].excluded + counts[f].excluded
    BY <2>9 DEF Counted
  <2>14. /\ u[n - 1].read \in Nat /\ u[n - 1].retained \in Nat /\ u[n - 1].excluded \in Nat
         /\ counts[f].read \in Nat /\ counts[f].retained \in Nat /\ counts[f].excluded \in Nat
    BY <2>7, <2>8 DEF Counted
  <2>11. u[n].read = u[n].retained + u[n].excluded
    BY <2>7, <2>8, <2>10, <2>14
  <2>12. /\ IsFiniteSet(before \cup kept[f])
         /\ Cardinality(before \cup kept[f]) = Cardinality(before) + Cardinality(kept[f])
    BY <2>5, <2>7, <2>8, CountedApart
  <2>13. /\ IsFiniteSet(KeptOf(kept, Firsts(n)))
         /\ u[n].retained = Cardinality(KeptOf(kept, Firsts(n)))
    BY <2>4, <2>7, <2>8, <2>10, <2>12
  <2> QED BY <2>9, <2>11, <2>13 DEF Ok
<1> HIDE DEF Ok
<1>6. \A n \in 0..k : Ok(n)
  <2> DEFINE Bad == {n \in 0..k : ~Ok(n)}
  <2> SUFFICES ASSUME Bad # {} PROVE FALSE
    OBVIOUS
  <2>1. Bad \in SUBSET Nat
    BY <1>2
  <2>2. PICK m \in Bad : \A y \in Bad : m <= y
    BY <2>1, LeastOf
  <2>3. m \in 1..k /\ ~Ok(m)
    BY <1>2, <1>4
  <2>4. m - 1 \in 0..k /\ ~(m <= m - 1)
    BY <1>2, <2>3
  <2>5. Ok(m - 1)
    BY <2>2, <2>4
  <2> QED BY <1>5, <2>3, <2>5
<1>7. Firsts(k) = Selected
  BY <1>2 DEF Firsts
<1>8. Ok(k)
  BY <1>2, <1>6
<1> QED BY <1>1, <1>7, <1>8 DEF Ok

-----------------------------------------------------------------------------
(* How a log is cut into batches.                                           *)

\* Multiples of a batch's length lie that length apart.
LEMMA TimesApart ==
  ASSUME NEW c \in Nat \ {0}, NEW p \in Nat, NEW q \in Nat, c * p < c * q
  PROVE  c * p + c <= c * q
  OBVIOUS

\* A multiple of it lies at or below any number, and less than that length below.
LEMMA MultipleBelow ==
  ASSUME NEW c \in Nat \ {0}, NEW n \in Nat
  PROVE  \E s \in Nat : s % c = 0 /\ s <= n /\ n < s + c
<1>1. n = c * (n \div c) + (n % c)
  OBVIOUS
<1>2. n % c \in Int /\ 0 <= n % c /\ n % c < c
  OBVIOUS
<1>3. n \div c \in Nat
  OBVIOUS
<1>4. ASSUME NEW q \in Nat PROVE (c * q) % c = 0 /\ c * q \in Nat
  OBVIOUS
<1> DEFINE s == c * (n \div c)
<1>5. s % c = 0 /\ s \in Nat
  BY <1>3, <1>4
<1>6. n = s + (n % c)
  BY <1>1
<1> HIDE DEF s
<1>7. s <= n /\ n < s + c
  BY <1>2, <1>5, <1>6
<1> QED BY <1>5, <1>7

\* Two of its multiples lie that length apart.
LEMMA MultiplesApart ==
  ASSUME NEW c \in Nat \ {0}, NEW n \in Nat, NEW m \in Nat, n % c = 0, m % c = 0, n < m
  PROVE  n + c <= m
<1>1. n = (n \div c) * c /\ m = (m \div c) * c
  <2>1. n = (n \div c) * c
    OBVIOUS
  <2>2. m = (m \div c) * c
    OBVIOUS
  <2> QED BY <2>1, <2>2
<1>2. n \div c \in Nat /\ m \div c \in Nat
  OBVIOUS
<1>4. (n \div c) * c = c * (n \div c) /\ (m \div c) * c = c * (m \div c)
  BY <1>2
<1>5. c * (n \div c) + c <= c * (m \div c)
  BY <1>1, <1>2, <1>4, TimesApart
<1> QED BY <1>1, <1>4, <1>5

\* The batches of a log of k chunks, and the chunks of a batch.
Cut(f, k) ==
  {[file |-> f, from |-> start + 1,
    to |-> IF start + ChunksPerBatch < k THEN start + ChunksPerBatch ELSE k] :
     start \in {s \in 0..(k - 1) : s % ChunksPerBatch = 0}}
Span(b) == b.from..b.to
Held(B, f) == UNION {Span(b) : b \in {c \in B : c.file = f}}

\* The batches a log is cut into share no chunk, and every chunk is in one: no record is read
\* twice, and none is left.
LEMMA CutFacts ==
  ASSUME NEW f, NEW k \in Nat
  PROVE  /\ IsFiniteSet(Cut(f, k))
         /\ \A b \in Cut(f, k) : /\ b.file = f /\ b.from \in Nat /\ b.to \in Nat
                                 /\ Span(b) \subseteq 1..k
         /\ \A b, c \in Cut(f, k) : b # c => b.from # c.from /\ Span(b) \cap Span(c) = {}
         /\ \A i \in 1..k : \E b \in Cut(f, k) : i \in Span(b)
<1> DEFINE C == ChunksPerBatch
           Starts == {s \in 0..(k - 1) : s % C = 0}
           B(s) == [file |-> f, from |-> s + 1, to |-> IF s + C < k THEN s + C ELSE k]
           cut == [s \in Starts |-> B(s)]
<1>1. C \in Nat \ {0}
  BY PoolAssumption DEF PoolAssumption
<1>2. \A s \in Starts : s \in Nat /\ s < k /\ s % C = 0
  BY <1>1
<1>3. IsFiniteSet(Starts)
  <2>1. Starts \in SUBSET (0..(k - 1)) /\ IsFiniteSet(0..(k - 1))
    BY FS_Interval
  <2> HIDE DEF Starts
  <2> QED BY <2>1, FS_Subset
<1>4. Cut(f, k) = {B(s) : s \in Starts}
  BY DEF Cut
<1>5. IsFiniteSet(Cut(f, k))
  <2>1. cut \in Surjection(Starts, Cut(f, k))
    <3> HIDE DEF Starts, B
    <3> QED BY <1>4 DEF Surjection
  <2> HIDE DEF Starts, cut
  <2> QED BY <1>3, <2>1, FS_Surjection
<1>6. ASSUME NEW s \in Starts
      PROVE  /\ B(s).file = f /\ B(s).from \in Nat /\ B(s).to \in Nat
             /\ Span(B(s)) \subseteq 1..k
  <2>1. s \in Nat /\ s < k
    BY <1>2
  <2> HIDE DEF Starts, C
  <2> QED BY <1>1, <2>1 DEF Span
<1>7. ASSUME NEW s \in Starts, NEW t \in Starts, s < t
      PROVE  Span(B(s)) \cap Span(B(t)) = {}
  <2>1. s \in Nat /\ t \in Nat /\ t < k /\ s + C <= t
    BY <1>1, <1>2, <1>7, MultiplesApart
  <2>2. B(s).to <= t /\ B(t).from = t + 1 /\ B(s).to \in Nat
    <3> HIDE DEF Starts, C
    <3> QED BY <1>1, <2>1
  <2>3. \A i \in Span(B(s)) : i <= t
    <3> HIDE DEF Starts, C
    <3> QED BY <1>1, <1>6, <2>1, <2>2 DEF Span
  <2>4. \A i \in Span(B(t)) : t < i
    <3> HIDE DEF Starts, C
    <3> QED BY <1>1, <1>6, <2>1, <2>2 DEF Span
  <2> HIDE DEF B, Starts
  <2>5. \A i \in Span(B(s)) : i \in Int
    BY DEF Span
  <2> QED BY <2>1, <2>3, <2>4, <2>5
<1>8. ASSUME NEW b \in Cut(f, k), NEW c \in Cut(f, k), b # c
      PROVE  b.from # c.from /\ Span(b) \cap Span(c) = {}
  <2>1. PICK s \in Starts : b = B(s)
    BY <1>4
  <2>2. PICK t \in Starts : c = B(t)
    BY <1>4
  <2>3. s # t /\ s \in Nat /\ t \in Nat
    BY <1>2, <1>8, <2>1, <2>2
  <2>4. b.from # c.from
    BY <2>1, <2>2, <2>3
  <2>5. s < t \/ t < s
    BY <2>3
  <2>6. Span(b) \cap Span(c) = {}
    <3> HIDE DEF B, Starts
    <3> QED BY <1>7, <2>1, <2>2, <2>5
  <2> QED BY <2>4, <2>6
<1>9. ASSUME NEW i \in 1..k PROVE \E b \in Cut(f, k) : i \in Span(b)
  <2> DEFINE n == i - 1
  <2>1. n \in Nat /\ n < k
    OBVIOUS
  <2>2. PICK s \in Nat : s % C = 0 /\ s <= n /\ n < s + C
    <3> HIDE DEF n, C
    <3> QED BY <1>1, <2>1, MultipleBelow
  <2>3. s \in Starts
    <3> HIDE DEF C
    <3> QED BY <2>1, <2>2
  <2>4. i \in Span(B(s))
    <3> HIDE DEF C
    <3> QED BY <1>1, <2>1, <2>2 DEF Span
  <2> HIDE DEF n, B, Starts
  <2> QED BY <1>4, <2>3, <2>4
<1>10. \A b \in Cut(f, k) : /\ b.file = f /\ b.from \in Nat /\ b.to \in Nat
                            /\ Span(b) \subseteq 1..k
  <2> HIDE DEF B, Starts
  <2> QED BY <1>4, <1>6
<1> QED BY <1>5, <1>8, <1>9, <1>10

-----------------------------------------------------------------------------
(* The records, sorted.                                                     *)

\* A record's file, chunk and place in the chunk say which it is.
LEMMA RecordFacts ==
  /\ \A r \in AllRecords : /\ r.file \in Nat /\ r.file \in Selected
                           /\ r.id[1] \in Nat /\ r.id[2] \in Nat /\ r.holds.time \in Nat
  /\ \A r, s \in AllRecords :
       r.file = s.file /\ r.id[1] = s.id[1] /\ r.id[2] = s.id[2] => r = s
<1>1. ASSUME NEW f \in Selected, NEW r \in ReadOf(f, ChunksIn(f))
      PROVE  /\ r.file = f /\ f \in Nat /\ r.id[1] \in Nat /\ r.id[2] \in Nat
             /\ r.holds.time \in Nat
  <2>1. f \in Nat /\ ChunksIn(f) \in SUBSET ChunksIn(f)
    BY ChunkFacts
  <2>2. r.file = f /\ r.id[1] \in Nat /\ r.id[2] \in Nat /\ r.holds \in Entry
    BY <2>1, ReadFacts
  <2>3. r.holds.time \in Nat
    BY <2>2 DEF Entry
  <2> QED BY <2>1, <2>2, <2>3
<1>2. AllRecords = UNION {ReadOf(f, ChunksIn(f)) : f \in Selected}
  BY DEF AllRecords, ChunksIn
<1>3. ASSUME NEW r \in AllRecords PROVE r \in ReadOf(r.file, ChunksIn(r.file)) /\ r.file \in Selected
  <2>1. PICK f \in Selected : r \in ReadOf(f, ChunksIn(f))
    BY <1>2
  <2> QED BY <1>1, <2>1
<1>4. ASSUME NEW r \in AllRecords, NEW s \in AllRecords,
             r.file = s.file, r.id[1] = s.id[1], r.id[2] = s.id[2]
      PROVE  r = s
  <2>1. /\ r \in ReadOf(r.file, ChunksIn(r.file)) /\ s \in ReadOf(r.file, ChunksIn(r.file))
        /\ r.file \in Selected
    BY <1>3, <1>4
  <2> QED BY <1>4, <2>1, ReadFacts
<1> QED BY <1>1, <1>3, <1>4

\* The order of the report, and the order of the logs one after another, tell any two records
\* apart.
LEMMA AreOrders ==
  ASSUME NEW S \in SUBSET AllRecords
  PROVE  StrictOrder(S, FirstLogOn(S)) /\ StrictOrder(S, BeforeOn(S))
<1>1. /\ \A r \in S : /\ r.file \in Nat /\ r.id[1] \in Nat /\ r.id[2] \in Nat
                      /\ r.holds.time \in Nat
      /\ \A r, s \in S : r.file = s.file /\ r.id[1] = s.id[1] /\ r.id[2] = s.id[2] => r = s
  BY RecordFacts
<1>2. /\ \A x, y \in S : <<x, y>> \in FirstLogOn(S) <=> OneLogAfterAnother(x, y)
      /\ \A x, y \in S : <<x, y>> \in BeforeOn(S) <=> Before(x, y)
  BY DEF FirstLogOn, BeforeOn
<1>3. /\ \A x \in S : ~OneLogAfterAnother(x, x) /\ ~Before(x, x)
  BY <1>1 DEF OneLogAfterAnother, Before, InLog
<1>4. ASSUME NEW x \in S, NEW y \in S, NEW z \in S, OneLogAfterAnother(x, y), OneLogAfterAnother(y, z)
      PROVE  OneLogAfterAnother(x, z)
  BY <1>1, <1>4 DEF OneLogAfterAnother, InLog
<1>5. ASSUME NEW x \in S, NEW y \in S, NEW z \in S, Before(x, y), Before(y, z)
      PROVE  Before(x, z)
  BY <1>1, <1>4, <1>5 DEF Before
<1>6. ASSUME NEW x \in S, NEW y \in S, x # y
      PROVE  OneLogAfterAnother(x, y) \/ OneLogAfterAnother(y, x)
  BY <1>1, <1>6 DEF OneLogAfterAnother, InLog
<1>7. ASSUME NEW x \in S, NEW y \in S, x # y
      PROVE  Before(x, y) \/ Before(y, x)
  BY <1>1, <1>6, <1>7 DEF Before
<1>8. StrictOrder(S, FirstLogOn(S))
  BY <1>2, <1>3, <1>4, <1>6 DEF StrictOrder
<1>9. StrictOrder(S, BeforeOn(S))
  BY <1>2, <1>3, <1>5, <1>7 DEF StrictOrder
<1> QED BY <1>8, <1>9

\* So does the order of one log on what is retained of it.
LEMMA InLogOrders ==
  ASSUME NEW f \in Selected, NEW C \in SUBSET ChunksIn(f)
  PROVE  StrictOrder(RetainedOf(f, C), InLogOn(RetainedOf(f, C)))
<1> DEFINE S == RetainedOf(f, C)
<1>1. /\ \A r \in S : r.id[1] \in Nat /\ r.id[2] \in Nat
      /\ \A r, s \in S : r.id[1] = s.id[1] /\ r.id[2] = s.id[2] => r = s
  <2>1. S \subseteq ReadOf(f, C)
    BY DEF RetainedOf
  <2> HIDE DEF S
  <2> QED BY <2>1, ReadFacts
<1>2. \A x, y \in S : <<x, y>> \in InLogOn(S) <=> InLog(x, y)
  BY DEF InLogOn
<1> HIDE DEF S
<1>3. \A x \in S : ~InLog(x, x)
  BY <1>1 DEF InLog
<1>4. ASSUME NEW x \in S, NEW y \in S, NEW z \in S, InLog(x, y), InLog(y, z)
      PROVE  InLog(x, z)
  BY <1>1, <1>4 DEF InLog
<1>5. ASSUME NEW x \in S, NEW y \in S, x # y
      PROVE  InLog(x, y) \/ InLog(y, x)
  BY <1>1, <1>5 DEF InLog
<1>6. StrictOrder(S, InLogOn(S))
  BY <1>2, <1>3, <1>4, <1>5 DEF StrictOrder
<1> QED BY <1>6 DEF S

\* Sorting gives the order of the records, whatever order the workers appended them in.
LEMMA SortedIsPlaced ==
  ASSUME NEW S \in SUBSET AllRecords, IsFiniteSet(S),
         NEW s \in Seq(S), IsInjective(s), Range(s) = S
  PROVE  Placed(InOrder(s), S, BeforeOn(S)) /\ Len(s) = Cardinality(S)
<1> DEFINE R == BeforeOn(S)
           k == Len(s)
           Comes(i) == {j \in 1..k : Before(s[j], s[i]) \/ (j <= i /\ ~Before(s[i], s[j]))}
           P(n, i) == Cardinality(Comes(i)) = n
           q == [n \in 1..k |-> s[CHOOSE i \in 1..k : P(n, i)]]
<1>1. /\ k \in Nat /\ DOMAIN s = 1..k /\ s \in [1..k -> S]
      /\ \A i, j \in 1..k : s[i] = s[j] => i = j
      /\ \A x \in S : \E i \in 1..k : s[i] = x
  <2>1. k \in Nat /\ DOMAIN s = 1..k /\ s \in [1..k -> S]
    OBVIOUS
  <2> QED BY <2>1 DEF IsInjective, Range
<1>2. k = Cardinality(S)
  <2>1. s \in Bijection(1..k, S)
    <3> HIDE DEF k
    <3> QED BY <1>1 DEF Bijection, Injection, Surjection, IsInjective
  <2>2. ExistsBijection(1..k, S)
    BY <2>1 DEF ExistsBijection
  <2>3. IsFiniteSet(1..k) /\ Cardinality(1..k) = k
    <3> HIDE DEF k
    <3> QED BY <1>1, FS_Interval
  <2> HIDE DEF k
  <2> QED BY <2>2, <2>3, FS_Bijection
<1>3. StrictOrder(S, R) /\ \A x, y \in S : <<x, y>> \in R <=> Before(x, y)
  BY AreOrders DEF BeforeOn
<1> HIDE DEF R
<1>4. ASSUME NEW i \in 1..k PROVE Cardinality(Comes(i)) = Cardinality(Below(S, R, s[i])) + 1
  <2> DEFINE J == {j \in 1..k : s[j] \in Below(S, R, s[i])}
             g == [j \in J |-> s[j]]
  <2>1. Comes(i) = J \cup {i}
    <3>1. ASSUME NEW j \in 1..k, j # i
          PROVE  Before(s[j], s[i]) \/ (j <= i /\ ~Before(s[i], s[j])) <=> Before(s[j], s[i])
      <4>1. s[i] \in S /\ s[j] \in S /\ s[i] # s[j]
        BY <1>1, <3>1
      <4>2. Before(s[j], s[i]) \/ Before(s[i], s[j])
        BY <1>3, <4>1 DEF StrictOrder
      <4> QED BY <4>2
    <3>2. i <= i /\ ~Before(s[i], s[i])
      <4>1. s[i] \in S /\ i \in Nat
        BY <1>1
      <4>2. <<s[i], s[i]>> \notin R
        BY <1>3, <4>1 DEF StrictOrder
      <4>3. ~Before(s[i], s[i])
        BY <1>3, <4>1, <4>2
      <4> QED BY <4>1, <4>3
    <3>3. \A j \in 1..k : Before(s[j], s[i]) <=> s[j] \in Below(S, R, s[i])
      BY <1>1, <1>3 DEF Below
    <3> HIDE DEF k
    <3> QED BY <3>1, <3>2, <3>3
  <2>2. i \notin J
    BY <1>1, <1>3 DEF Below, StrictOrder
  <2>3. IsFiniteSet(J)
    <3>1. J \in SUBSET (1..k) /\ IsFiniteSet(1..k)
      <4> HIDE DEF k
      <4> QED BY <1>1, FS_Interval
    <3> HIDE DEF J
    <3> QED BY <3>1, FS_Subset
  <2>4. g \in Bijection(J, Below(S, R, s[i]))
    <3>1. \A x \in Below(S, R, s[i]) : \E j \in J : g[j] = x
      BY <1>1 DEF Below
    <3>2. \A j \in J : g[j] \in Below(S, R, s[i])
      OBVIOUS
    <3>3. \A a, b \in J : g[a] = g[b] => a = b
      BY <1>1
    <3>4. g \in [J -> Below(S, R, s[i])]
      <4>1. \A j \in J : s[j] \in Below(S, R, s[i])
        OBVIOUS
      <4> HIDE DEF J
      <4> QED BY <4>1
    <3> HIDE DEF g, J
    <3> QED BY <3>1, <3>3, <3>4 DEF Bijection, Injection, Surjection, IsInjective
  <2>5. Cardinality(Below(S, R, s[i])) = Cardinality(J)
    <3>1. ExistsBijection(J, Below(S, R, s[i]))
      <4> HIDE DEF g, J
      <4> QED BY <2>4 DEF ExistsBijection
    <3> HIDE DEF J
    <3> QED BY <2>3, <3>1, FS_Bijection
  <2> HIDE DEF J, k
  <2>6. Cardinality(J \cup {i}) = Cardinality(J) + 1
    BY <2>2, <2>3, FS_AddElement
  <2> QED BY <2>1, <2>5, <2>6
<1>5. ASSUME NEW n \in 1..k PROVE \E i \in 1..k : P(n, i)
  <2>1. PICK x \in S : Cardinality(Below(S, R, x)) = n - 1
    <3> HIDE DEF k
    <3> QED BY <1>2, <1>3, Ranks
  <2>2. PICK i \in 1..k : s[i] = x
    BY <1>1
  <2> HIDE DEF k, Comes
  <2>3. n \in Nat
    BY <1>1
  <2> QED BY <1>4, <2>1, <2>2, <2>3
<1>6. ASSUME NEW n \in 1..k
      PROVE  q[n] \in S /\ Cardinality(Below(S, R, q[n])) = n - 1
  <2> DEFINE c == CHOOSE i \in 1..k : P(n, i)
  <2>1. c \in 1..k /\ P(n, c)
    <3> HIDE DEF P, k
    <3> QED BY <1>5
  <2>2. q[n] = s[c]
    <3> HIDE DEF P, k
    <3> QED OBVIOUS
  <2> HIDE DEF c, q, k, Comes
  <2>3. Cardinality(Below(S, R, s[c])) \in Nat
    <3>1. s[c] \in S
      BY <1>1, <2>1
    <3>2. Cardinality(Below(S, R, s[c])) \in 0..(k - 1)
      BY <1>2, <1>3, <3>1, Ranks
    <3> QED BY <1>1, <3>2
  <2> QED BY <1>1, <1>4, <2>1, <2>2, <2>3
<1>7. InOrder(s) = q
  <2>1. DOMAIN s = 1..k
    BY <1>1
  <2> HIDE DEF k
  <2> QED BY <2>1 DEF InOrder
<1>8. q \in [1..k -> S]
  <2>1. q = [n \in 1..k |-> q[n]]
    <3> HIDE DEF P, k
    <3> QED OBVIOUS
  <2> HIDE DEF q, k
  <2> QED BY <1>6, <2>1
<1> HIDE DEF q, k
<1>9. Placed(q, S, R)
  BY <1>2, <1>6, <1>8 DEF Placed
<1> QED BY <1>2, <1>7, <1>9 DEF R, k

-----------------------------------------------------------------------------
(* The invariant.                                                           *)

Places == {"notStarted", "receive", "parse", "lock", "merge", "exited"}
Counts == [Counted -> Nat]
Holding == [records : Seq(AllRecords), counts : Counts]
Batch == [file : Int, from : Int, to : Int]
Plan == [done : BOOLEAN, failed : BOOLEAN, chunks : Nat, counts : Counts]

Typed ==
  /\ main \in {"plan", "send", "closed", "done"}
  /\ lock \in Workers \cup {Free}
  /\ plans \in [Selected -> Plan]
  /\ worker \in [Workers -> [at : Places, batch : Batch, mine : Holding, seen : Holding]]
  /\ batches \in Seq(Batch)
  /\ records \in Seq(AllRecords)

\* A log has the chunks it was found with, or none where it would not open.
Planned ==
  \A f \in Selected :
    /\ plans[f].chunks \in {0, Len(Logs[f])}
    /\ plans[f].done => plans[f].chunks = IF plans[f].failed THEN 0 ELSE Len(Logs[f])
    /\ plans[f].failed => "plan" \in MayVanish
    /\ main # "plan" => plans[f].done
    /\ main = "plan" => plans[f].counts = NoCounts

\* Nothing is done before every log is enumerated.
NotStarted ==
  main = "plan" =>
    /\ batches = <<>> /\ records = <<>> /\ missed = {} /\ lock = Free
    /\ \A w \in Workers : worker[w] = Idle("notStarted")

\* A batch waits once, and is read once.
Queue ==
  /\ IsInjective(batches) /\ Range(batches) \subseteq Batches
  /\ Range(batches) \cap missed = {} /\ missed \subseteq Batches
  /\ main # "send" => batches = <<>>

InHand(w) == worker[w].at \in {"parse", "lock", "merge"}
OfBatch(b) == IF b \in missed THEN NoWork ELSE ParsedBatch(b)

HandHolds(w) ==
  /\ InHand(w) => worker[w].batch \in Batches /\ worker[w].batch \notin Range(batches)
  /\ ~InHand(w) => worker[w].batch = NoBatch
  /\ worker[w].at = "parse" => worker[w].batch \notin missed
  /\ worker[w].at \in {"lock", "merge"} => worker[w].mine = OfBatch(worker[w].batch)

Hands ==
  /\ \A w \in Workers : HandHolds(w)
  /\ \A v, w \in Workers : InHand(v) /\ InHand(w) /\ worker[v].batch = worker[w].batch => v = w

\* Who is between the two steps on what is shared holds the mutex, and what was read of it
\* is what is there.
Shares(w) ==
  /\ worker[w].at = "merge" <=> lock = w
  /\ worker[w].at = "merge" =>
       worker[w].seen = [records |-> records, counts |-> plans[worker[w].batch.file].counts]

Mutex == \A w \in Workers : Shares(w)

\* The batches still to merge, and those that have been read and merged.
Pooled == Range(batches) \cup {worker[w].batch : w \in Workers}
Merged == Batches \ (Pooled \cup missed)
RetainedIn(B) == UNION {RetainedOf(f, Held(B, f)) : f \in Selected}

\* What was counted and appended is what the merged batches hold.
Accounts == main # "plan" => \A f \in Selected : plans[f].counts = CountsOf(f, Held(Merged, f))
Gathered == main # "plan" => IsInjective(records) /\ Range(records) = RetainedIn(Merged)

Returned ==
  [files |-> [f \in Selected |-> [failed |-> plans[f].failed, chunks |-> plans[f].chunks,
                                  counts |-> plans[f].counts]],
   skipped |-> Paths \ Selected,
   total |-> Total([f \in Selected |-> plans[f].counts]),
   records |-> InOrder(records)]

Ended ==
  IF main = "done"
  THEN outcome = Returned /\ \A w \in Workers : worker[w].at = "exited"
  ELSE outcome = Pending

IInv == /\ Typed /\ Planned /\ NotStarted /\ Queue /\ Hands /\ Mutex
        /\ Accounts /\ Gathered /\ Ended

-----------------------------------------------------------------------------
(* The batches.                                                             *)

\* The batches: finitely many, of selected logs, with no chunk in two of them, and all a log's
\* chunks in its own.
LEMMA BatchFacts ==
  ASSUME Typed, Planned
  PROVE  /\ IsFiniteSet(Batches)
         /\ \A b \in Batches : /\ b.file \in Selected /\ b.file \in Nat /\ b.from \in Nat
                               /\ b \in Batch /\ b # NoBatch /\ Span(b) \subseteq ChunksIn(b.file)
         /\ \A b, c \in Batches : b.file = c.file /\ b # c =>
              b.from # c.from /\ Span(b) \cap Span(c) = {}
         /\ \A f \in Selected : Held(Batches, f) = 1..plans[f].chunks
<1> DEFINE of(f) == Cut(f, plans[f].chunks)
<1>1. ASSUME NEW f \in Selected
      PROVE  /\ f \in Nat /\ plans[f].chunks \in Nat /\ 1..plans[f].chunks \subseteq ChunksIn(f)
             /\ BatchesOf(f) = of(f)
  <2>1. f \in Nat /\ Len(Logs[f]) \in Nat
    BY ChunkFacts
  <2>2. plans[f].chunks \in {0, Len(Logs[f])}
    BY DEF Planned
  <2>3. 1..plans[f].chunks \subseteq ChunksIn(f)
    BY <2>1, <2>2 DEF ChunksIn
  <2>4. BatchesOf(f) = of(f)
    BY DEF BatchesOf, Cut
  <2> QED BY <2>1, <2>2, <2>3, <2>4
<1>2. ASSUME NEW f \in Selected
      PROVE  /\ IsFiniteSet(of(f))
             /\ \A b \in of(f) : /\ b.file = f /\ b.from \in Nat /\ b.to \in Nat
                                 /\ Span(b) \subseteq ChunksIn(f)
             /\ \A b, c \in of(f) : b # c => b.from # c.from /\ Span(b) \cap Span(c) = {}
             /\ \A b \in of(f) : Span(b) \subseteq 1..plans[f].chunks
             /\ \A i \in 1..plans[f].chunks : \E b \in of(f) : i \in Span(b)
  BY <1>1, CutFacts
<1>3. Batches = UNION {of(f) : f \in Selected}
  <2> HIDE DEF of
  <2> QED BY <1>1 DEF Batches
<1>4. ASSUME NEW f \in Selected, NEW b \in of(f) PROVE b \in Batch
  <2>1. f \in Int /\ b.from \in Int /\ b.to \in Int
    <3> HIDE DEF of
    <3> QED BY <1>1, <1>2
  <2>2. PICK x, y : b = [file |-> f, from |-> x, to |-> y]
    BY DEF Cut
  <2> QED BY <2>1, <2>2 DEF Batch
<1> HIDE DEF of
<1>5. IsFiniteSet(Batches)
  <2> DEFINE all == {of(f) : f \in Selected}
             g == [f \in Selected |-> of(f)]
  <2>1. g \in Surjection(Selected, all)
    BY DEF Surjection
  <2>2. IsFiniteSet(Selected)
    BY OrderedPaths
  <2>3. \A T \in all : IsFiniteSet(T)
    BY <1>2
  <2> HIDE DEF all, g
  <2>4. IsFiniteSet(UNION all)
    BY <2>1, <2>2, <2>3, FS_Surjection, FS_UNION
  <2> QED BY <1>3, <2>4 DEF all
<1>6. ASSUME NEW b \in Batches
      PROVE  /\ b.file \in Selected /\ b \in of(b.file) /\ b.file \in Nat /\ b.from \in Nat
             /\ b \in Batch /\ b # NoBatch /\ Span(b) \subseteq ChunksIn(b.file)
  <2>1. PICK f \in Selected : b \in of(f)
    BY <1>3
  <2>2. b.file = f /\ b.from \in Nat /\ Span(b) \subseteq ChunksIn(f) /\ b \in Batch /\ f \in Nat
    BY <1>1, <1>2, <1>4, <2>1
  <2>3. b # NoBatch
    BY <2>2 DEF NoBatch
  <2> QED BY <2>1, <2>2, <2>3
<1>7. \A b, c \in Batches : b.file = c.file /\ b # c =>
        b.from # c.from /\ Span(b) \cap Span(c) = {}
  BY <1>2, <1>6
<1>8. ASSUME NEW f \in Selected PROVE Held(Batches, f) = 1..plans[f].chunks
  <2>1. {b \in Batches : b.file = f} = of(f)
    BY <1>2, <1>3, <1>6
  <2> QED BY <1>2, <2>1 DEF Held
<1> QED BY <1>5, <1>6, <1>7, <1>8

\* The chunks two sets of batches hold are those each holds, and disjoint sets hold none in common.
LEMMA HeldFacts ==
  ASSUME Typed, Planned, NEW A \in SUBSET Batches, NEW B \in SUBSET Batches, NEW f \in Selected
  PROVE  /\ Held(A \cup B, f) = Held(A, f) \cup Held(B, f)
         /\ Held(A, f) \in SUBSET ChunksIn(f)
         /\ A \cap B = {} => Held(A, f) \cap Held(B, f) = {}
<1>1. Held(A \cup B, f) = Held(A, f) \cup Held(B, f)
  BY DEF Held
<1>2. Held(A, f) \in SUBSET ChunksIn(f)
  BY BatchFacts DEF Held
<1>3. ASSUME A \cap B = {}, NEW i \in Held(A, f), i \in Held(B, f) PROVE FALSE
  <2>1. PICK a \in A : a.file = f /\ i \in Span(a)
    BY DEF Held
  <2>2. PICK b \in B : b.file = f /\ i \in Span(b)
    BY <1>3 DEF Held
  <2>3. a \in Batches /\ b \in Batches /\ a # b
    BY <1>3
  <2>4. Span(a) \cap Span(b) = {}
    BY <2>1, <2>2, <2>3, BatchFacts
  <2> QED BY <2>1, <2>2, <2>4
<1> QED BY <1>1, <1>2, <1>3

\* A batch holds its own chunks.
LEMMA HeldOne ==
  ASSUME NEW b, NEW f
  PROVE  Held({b}, f) = IF b.file = f THEN Span(b) ELSE {}
BY DEF Held

\* No batches hold no chunk.
LEMMA HeldNone == ASSUME NEW f PROVE Held({}, f) = {}
BY DEF Held

\* The order batches are handed out in tells any two apart.
LEMMA LongestOrders ==
  ASSUME Typed, Planned
  PROVE  StrictOrder(Batches, LongestOn(Batches))
<1>1. /\ \A b \in Batches : b.file \in Nat /\ b.from \in Nat /\ b.file \in Selected
      /\ \A b, c \in Batches : b.file = c.file /\ b # c => b.from # c.from
  BY BatchFacts
<1>2. \A f \in Selected : plans[f].chunks \in Nat
  BY DEF Typed, Plan
<1>3. \A x, y \in Batches : <<x, y>> \in LongestOn(Batches) <=> LongestFirst(x, y)
  BY DEF LongestOn
<1>4. \A x \in Batches : ~LongestFirst(x, x)
  BY <1>1, <1>2 DEF LongestFirst
<1>5. ASSUME NEW x \in Batches, NEW y \in Batches, NEW z \in Batches,
             LongestFirst(x, y), LongestFirst(y, z)
      PROVE  LongestFirst(x, z)
  <2>1. /\ x.file \in Nat /\ y.file \in Nat /\ z.file \in Nat
        /\ x.from \in Nat /\ y.from \in Nat /\ z.from \in Nat
        /\ plans[x.file].chunks \in Nat /\ plans[y.file].chunks \in Nat
        /\ plans[z.file].chunks \in Nat
    BY <1>1, <1>2
  <2> QED BY <1>5, <2>1 DEF LongestFirst
<1>6. ASSUME NEW x \in Batches, NEW y \in Batches, x # y
      PROVE  LongestFirst(x, y) \/ LongestFirst(y, x)
  <2>1. /\ x.file \in Nat /\ y.file \in Nat
        /\ x.from \in Nat /\ y.from \in Nat
        /\ plans[x.file].chunks \in Nat /\ plans[y.file].chunks \in Nat
        /\ x.file = y.file => x.from # y.from
    BY <1>1, <1>2, <1>6
  <2> QED BY <2>1 DEF LongestFirst
<1> QED BY <1>3, <1>4, <1>5, <1>6 DEF StrictOrder

-----------------------------------------------------------------------------
(* Sequences.                                                               *)

\* An empty sequence holds nothing.
LEMMA RangeOfEmpty == Range(<<>>) = {} /\ IsInjective(<<>>)
BY DEF Range, IsInjective

\* A receive takes the head of the queue, and leaves the others.
LEMMA HeadGoes ==
  ASSUME NEW S, NEW s \in Seq(S), s # <<>>, IsInjective(s)
  PROVE  /\ Tail(s) \in Seq(S) /\ IsInjective(Tail(s))
         /\ Head(s) \in Range(s) /\ Range(Tail(s)) = Range(s) \ {Head(s)}
<1>1. /\ Len(s) \in Nat /\ Len(s) >= 1 /\ DOMAIN s = 1..Len(s) /\ Head(s) = s[1]
      /\ Tail(s) \in Seq(S) /\ Len(Tail(s)) = Len(s) - 1
      /\ DOMAIN Tail(s) = 1..(Len(s) - 1)
      /\ \A i \in 1..(Len(s) - 1) : Tail(s)[i] = s[i + 1]
  OBVIOUS
<1>2. \A i, j \in 1..Len(s) : s[i] = s[j] => i = j
  BY <1>1 DEF IsInjective
<1>3. IsInjective(Tail(s))
  BY <1>1, <1>2 DEF IsInjective
<1>4. Head(s) \in Range(s)
  BY <1>1 DEF Range
<1>5. ASSUME NEW x \in Range(Tail(s)) PROVE x \in Range(s) \ {Head(s)}
  <2>1. PICK i \in 1..(Len(s) - 1) : x = s[i + 1]
    BY <1>1 DEF Range
  <2>2. i + 1 \in 1..Len(s) /\ 1 \in 1..Len(s) /\ i + 1 # 1
    BY <1>1
  <2> QED BY <1>1, <1>2, <2>1, <2>2 DEF Range
<1>6. ASSUME NEW x \in Range(s), x # Head(s) PROVE x \in Range(Tail(s))
  <2>1. PICK i \in 1..Len(s) : x = s[i]
    BY <1>1 DEF Range
  <2>2. i - 1 \in 1..(Len(s) - 1) /\ (i - 1) + 1 = i
    BY <1>1, <1>6, <2>1
  <2>3. Tail(s)[i - 1] = x
    BY <1>1, <2>1, <2>2
  <2> QED BY <1>1, <2>2, <2>3 DEF Range
<1> QED BY <1>1, <1>3, <1>4, <1>5, <1>6

\* Sequences that share no element, appended, hold what both held, each once.
LEMMA Appended ==
  ASSUME NEW S, NEW s \in Seq(S), NEW t \in Seq(S), IsInjective(s), IsInjective(t),
         Range(s) \cap Range(t) = {}
  PROVE  IsInjective(s \o t) /\ Range(s \o t) = Range(s) \cup Range(t)
<1> DEFINE m == Len(s)
           n == Len(t)
<1>1. /\ m \in Nat /\ n \in Nat /\ DOMAIN s = 1..m /\ DOMAIN t = 1..n
      /\ DOMAIN (s \o t) = 1..(m + n)
      /\ \A i \in 1..(m + n) : (s \o t)[i] = IF i <= m THEN s[i] ELSE t[i - m]
  OBVIOUS
<1>2. /\ \A i, j \in 1..m : s[i] = s[j] => i = j
      /\ \A i, j \in 1..n : t[i] = t[j] => i = j
      /\ \A i \in 1..m, j \in 1..n : s[i] # t[j]
  <2>1. DOMAIN s = 1..m /\ DOMAIN t = 1..n
    BY <1>1
  <2> HIDE DEF m, n
  <2>2. \A i, j \in 1..m : s[i] = s[j] => i = j
    BY <2>1 DEF IsInjective
  <2>3. \A i, j \in 1..n : t[i] = t[j] => i = j
    BY <2>1 DEF IsInjective
  <2>4. ASSUME NEW i \in 1..m, NEW j \in 1..n PROVE s[i] # t[j]
    <3>1. s[i] \in Range(s) /\ t[j] \in Range(t)
      BY <2>1 DEF Range
    <3> QED BY <3>1
  <2> QED BY <2>2, <2>3, <2>4
<1> HIDE DEF m, n
<1>3. \A i \in 1..(m + n) : ~(i <= m) => i - m \in 1..n
  BY <1>1
<1>4. \A i \in 1..(m + n) : i <= m => i \in 1..m
  BY <1>1
<1>5. ASSUME NEW i \in 1..(m + n), NEW j \in 1..(m + n), (s \o t)[i] = (s \o t)[j]
      PROVE  i = j
  <2>1. CASE i <= m /\ j <= m
    BY <1>1, <1>2, <1>4, <1>5, <2>1
  <2>2. CASE ~(i <= m) /\ ~(j <= m)
    <3>1. i - m = j - m
      BY <1>1, <1>2, <1>3, <1>5, <2>2
    <3> QED BY <1>1, <3>1
  <2>3. CASE i <= m /\ ~(j <= m)
    BY <1>1, <1>2, <1>3, <1>4, <1>5, <2>3
  <2>4. CASE ~(i <= m) /\ j <= m
    BY <1>1, <1>2, <1>3, <1>4, <1>5, <2>4
  <2> QED BY <2>1, <2>2, <2>3, <2>4
<1>6. IsInjective(s \o t)
  BY <1>1, <1>5 DEF IsInjective
<1>7. ASSUME NEW x \in Range(s \o t) PROVE x \in Range(s) \cup Range(t)
  <2>1. PICK i \in 1..(m + n) : x = (s \o t)[i]
    BY <1>1 DEF Range
  <2>2. CASE i <= m
    BY <1>1, <1>4, <2>1, <2>2 DEF Range
  <2>3. CASE ~(i <= m)
    BY <1>1, <1>3, <2>1, <2>3 DEF Range
  <2> QED BY <2>2, <2>3
<1>8. ASSUME NEW x \in Range(s) PROVE x \in Range(s \o t)
  <2>1. PICK i \in 1..m : x = s[i]
    BY <1>1 DEF Range
  <2>2. i \in 1..(m + n) /\ i <= m
    BY <1>1
  <2>3. (s \o t)[i] = x
    BY <1>1, <2>1, <2>2
  <2> QED BY <1>1, <2>2, <2>3 DEF Range
<1>9. ASSUME NEW x \in Range(t) PROVE x \in Range(s \o t)
  <2>1. PICK i \in 1..n : x = t[i]
    BY <1>1 DEF Range
  <2>2. i + m \in 1..(m + n) /\ ~(i + m <= m) /\ (i + m) - m = i
    BY <1>1
  <2>3. (s \o t)[i + m] = x
    BY <1>1, <2>1, <2>2
  <2> QED BY <1>1, <2>2, <2>3 DEF Range
<1> QED BY <1>6, <1>7, <1>8, <1>9

-----------------------------------------------------------------------------
(* What a batch holds, and what is retained once it is merged.              *)

\* What is retained of a log is among the records, and is of that log.
LEMMA RetainedInAll ==
  ASSUME NEW f \in Selected, NEW C \in SUBSET ChunksIn(f)
  PROVE  /\ RetainedOf(f, C) \in SUBSET AllRecords
         /\ \A r \in RetainedOf(f, C) : r.file = f /\ r.id[1] \in C
<1>1. RetainedOf(f, C) \subseteq ReadOf(f, C)
  BY DEF RetainedOf
<1>2. ReadOf(f, C) \subseteq ReadOf(f, ChunksIn(f))
  BY DEF ReadOf, Parsed
<1>3. ReadOf(f, ChunksIn(f)) \subseteq AllRecords
  BY DEF AllRecords, ChunksIn
<1> QED BY <1>1, <1>2, <1>3, ReadFacts

\* What a worker holds once its batch is parsed is the batch's own records and counts.
LEMMA ParsedBatchHolds ==
  ASSUME Typed, Planned, NEW b \in Batches
  PROVE  /\ ParsedBatch(b) \in Holding
         /\ ParsedBatch(b).counts = CountsOf(b.file, Span(b))
         /\ IsInjective(ParsedBatch(b).records)
         /\ Range(ParsedBatch(b).records) = RetainedOf(b.file, Span(b))
<1> DEFINE f == b.file
           S == RetainedOf(f, Span(b))
           q == Ordered(S, InLog)
<1>1. f \in Selected /\ Span(b) \in SUBSET ChunksIn(f)
  BY BatchFacts
<1>2. ParsedBatch(b) = [records |-> q, counts |-> CountsOf(f, Span(b))]
  BY DEF ParsedBatch, Span
<1> HIDE DEF f
<1>3. IsFiniteSet(S) /\ S \in SUBSET AllRecords /\ StrictOrder(S, InLogOn(S))
  BY <1>1, PartsFinite, RetainedInAll, InLogOrders
<1>4. CountsOf(f, Span(b)) \in Counts
  BY <1>1, CountsAreNumbers DEF Counts
<1> HIDE DEF S
<1>5. Placed(q, S, InLogOn(S))
  BY <1>3, OrderedInLog
<1> HIDE DEF q
<1>6. q \in Seq(S) /\ IsInjective(q) /\ Range(q) = S
  BY <1>3, <1>5, PlacedCovers
<1>7. q \in Seq(AllRecords)
  BY <1>3, <1>6
<1>8. ParsedBatch(b) \in Holding
  BY <1>2, <1>4, <1>7 DEF Holding
<1> QED BY <1>2, <1>6, <1>8 DEF S, f

\* One batch more adds its own chunks and its own records, and no others.
LEMMA RetainedGrows ==
  ASSUME Typed, Planned, NEW M \in SUBSET Batches, NEW b \in Batches, b \notin M
  PROVE  /\ RetainedIn(M \cup {b}) = RetainedIn(M) \cup RetainedOf(b.file, Span(b))
         /\ RetainedIn(M) \cap RetainedOf(b.file, Span(b)) = {}
         /\ \A f \in Selected \ {b.file} : Held(M \cup {b}, f) = Held(M, f)
         /\ Held(M \cup {b}, b.file) = Held(M, b.file) \cup Span(b)
         /\ Held(M, b.file) \cap Span(b) = {}
<1> DEFINE g == b.file
<1>1. /\ g \in Selected /\ Span(b) \in SUBSET ChunksIn(g) /\ {b} \in SUBSET Batches
      /\ \A f \in Selected : Held(M, f) \in SUBSET ChunksIn(f)
  BY BatchFacts, HeldFacts
<1>2. \A f \in Selected : Held(M \cup {b}, f) = Held(M, f) \cup (IF g = f THEN Span(b) ELSE {})
  <2> SUFFICES ASSUME NEW f \in Selected
               PROVE  Held(M \cup {b}, f) = Held(M, f) \cup (IF g = f THEN Span(b) ELSE {})
    OBVIOUS
  <2>1. Held(M \cup {b}, f) = Held(M, f) \cup Held({b}, f)
    BY <1>1, HeldFacts
  <2>2. Held({b}, f) = IF g = f THEN Span(b) ELSE {}
    BY HeldOne
  <2> QED BY <2>1, <2>2
<1>3. Held(M, g) \cap Span(b) = {}
  <2>1. Held({b}, g) = Span(b)
    BY HeldOne
  <2>2. M \cap {b} = {}
    OBVIOUS
  <2> HIDE DEF g
  <2>3. Held(M, g) \cap Held({b}, g) = {}
    BY <1>1, <2>2, HeldFacts
  <2> QED BY <2>1, <2>3
<1> HIDE DEF g
<1>4. ASSUME NEW f \in Selected, NEW C \in SUBSET ChunksIn(f), NEW D \in SUBSET ChunksIn(f)
      PROVE  /\ RetainedOf(f, C \cup D) = RetainedOf(f, C) \cup RetainedOf(f, D)
             /\ C \cap D = {} => RetainedOf(f, C) \cap RetainedOf(f, D) = {}
  BY ReadSplits DEF RetainedOf
<1>5. /\ RetainedOf(g, Held(M \cup {b}, g)) = RetainedOf(g, Held(M, g)) \cup RetainedOf(g, Span(b))
      /\ RetainedOf(g, Held(M, g)) \cap RetainedOf(g, Span(b)) = {}
  <2>1. Held(M \cup {b}, g) = Held(M, g) \cup Span(b)
    BY <1>1, <1>2
  <2>2. Held(M, g) \in SUBSET ChunksIn(g) /\ Span(b) \in SUBSET ChunksIn(g) /\ g \in Selected
    BY <1>1
  <2>3. /\ RetainedOf(g, Held(M, g) \cup Span(b)) = RetainedOf(g, Held(M, g)) \cup RetainedOf(g, Span(b))
        /\ RetainedOf(g, Held(M, g)) \cap RetainedOf(g, Span(b)) = {}
    BY <1>3, <1>4, <2>2
  <2> QED BY <2>1, <2>3
<1>6. \A f \in Selected \ {g} : Held(M \cup {b}, f) = Held(M, f)
  BY <1>2
<1>7. RetainedIn(M \cup {b}) = RetainedIn(M) \cup RetainedOf(g, Span(b))
  <2>1. ASSUME NEW x \in RetainedIn(M \cup {b}) PROVE x \in RetainedIn(M) \cup RetainedOf(g, Span(b))
    <3>1. PICK f \in Selected : x \in RetainedOf(f, Held(M \cup {b}, f))
      BY <2>1 DEF RetainedIn
    <3>2. CASE f = g
      BY <1>1, <1>5, <3>1, <3>2 DEF RetainedIn
    <3>3. CASE f # g
      BY <1>6, <3>1, <3>3 DEF RetainedIn
    <3> QED BY <3>2, <3>3
  <2>2. ASSUME NEW x \in RetainedIn(M) PROVE x \in RetainedIn(M \cup {b})
    <3>1. PICK f \in Selected : x \in RetainedOf(f, Held(M, f))
      BY <2>2 DEF RetainedIn
    <3>2. x \in RetainedOf(f, Held(M \cup {b}, f))
      BY <1>5, <1>6, <3>1
    <3> QED BY <3>2 DEF RetainedIn
  <2>3. RetainedOf(g, Span(b)) \subseteq RetainedIn(M \cup {b})
    BY <1>1, <1>5 DEF RetainedIn
  <2> QED BY <2>1, <2>2, <2>3
<1>8. RetainedIn(M) \cap RetainedOf(g, Span(b)) = {}
  <2> SUFFICES ASSUME NEW x \in RetainedIn(M), x \in RetainedOf(g, Span(b)) PROVE FALSE
    OBVIOUS
  <2>1. PICK f \in Selected : x \in RetainedOf(f, Held(M, f))
    BY DEF RetainedIn
  <2>2. x.file = f /\ x.file = g
    BY <1>1, <2>1, RetainedInAll
  <2> QED BY <1>5, <2>1, <2>2
<1> QED BY <1>1, <1>2, <1>3, <1>6, <1>7, <1>8 DEF g

-----------------------------------------------------------------------------
(* Every step keeps the invariant.                                          *)

\* A worker with no batch.
LEMMA IdleFacts ==
  ASSUME NEW at \in Places
  PROVE  /\ Idle(at) \in [at : Places, batch : Batch, mine : Holding, seen : Holding]
         /\ Idle(at).at = at /\ Idle(at).batch = NoBatch /\ NoWork \in Holding
         /\ NoWork.records = <<>> /\ NoWork.counts = NoCounts
<1>1. NoCounts \in Counts
  BY DEF NoCounts, Counts
<1>2. NoWork \in Holding
  BY <1>1 DEF NoWork, Holding
<1>3. NoBatch \in Batch
  BY DEF NoBatch, Batch
<1> QED BY <1>2, <1>3 DEF Idle, NoWork

\* Nothing has been read, counted or returned when the parse starts.
LEMMA InitHolds == Init => IInv
<1> SUFFICES ASSUME Init PROVE IInv
  OBVIOUS
<1>1. \A w \in Workers : worker[w] = Idle("notStarted") /\ worker[w].at = "notStarted"
                         /\ worker[w].batch = NoBatch
  BY IdleFacts DEF Init, Places
<1>2. NoCounts \in Counts
  BY DEF NoCounts, Counts
<1>3. Typed
  <2>1. plans \in [Selected -> Plan]
    BY <1>2 DEF Init, NoPlan, Plan
  <2>2. worker \in [Workers -> [at : Places, batch : Batch, mine : Holding, seen : Holding]]
    BY IdleFacts DEF Init, Places
  <2> QED BY <2>1, <2>2 DEF Typed, Init
<1>4. Planned
  BY DEF Planned, Init, NoPlan
<1>5. NotStarted
  BY <1>1 DEF NotStarted, Init
<1>6. Queue
  BY RangeOfEmpty DEF Queue, Init
<1>7. Hands
  BY <1>1 DEF Hands, HandHolds, InHand
<1>8. Mutex
  BY <1>1 DEF Mutex, Shares, Init, Workers, Free
<1>9. Accounts /\ Gathered /\ Ended
  BY DEF Accounts, Gathered, Ended, Init
<1> QED BY <1>3, <1>4, <1>5, <1>6, <1>7, <1>8, <1>9 DEF IInv

\* Enumerating a file gives it its chunks, or none where it will not open.
LEMMA PlanFileKeeps ==
  ASSUME IInv, NEW f \in Selected, NEW opens \in BOOLEAN, PlanFile(f, opens)
  PROVE  IInv'
<1> USE DEF PlanFile
<1>1. Typed /\ Planned /\ NotStarted /\ Queue /\ Hands /\ Mutex /\ Ended
  BY DEF IInv
<1>2. /\ main = "plan" /\ main' = "plan" /\ batches = <<>> /\ missed = {} /\ lock = Free
      /\ \A w \in Workers : worker[w] = Idle("notStarted") /\ worker[w].at = "notStarted"
                            /\ worker[w].batch = NoBatch
      /\ UNCHANGED <<batches, worker, lock, records, outcome, missed>>
  BY <1>1, IdleFacts DEF NotStarted, Places
<1>3. \A g \in Selected : plans'[g] = IF g = f
        THEN [plans[f] EXCEPT !.done = TRUE, !.failed = ~opens,
                              !.chunks = IF opens THEN Len(Logs[f]) ELSE 0]
        ELSE plans[g]
  <2>1. plans \in [Selected -> Plan]
    BY <1>1 DEF Typed
  <2> QED BY <2>1
<1>4. Len(Logs[f]) \in Nat
  BY ChunkFacts
<1>5. Typed'
  <2>1. plans \in [Selected -> Plan]
    BY <1>1 DEF Typed
  <2>2. [plans[f] EXCEPT !.done = TRUE, !.failed = ~opens,
                         !.chunks = IF opens THEN Len(Logs[f]) ELSE 0] \in Plan
    BY <1>4, <2>1 DEF Plan
  <2>3. plans' = [g \in Selected |-> plans'[g]]
    BY <2>1
  <2>4. plans' \in [Selected -> Plan]
    BY <1>3, <2>1, <2>2, <2>3
  <2> QED BY <1>1, <1>2, <2>4 DEF Typed
<1>6. Planned'
  <2> SUFFICES ASSUME NEW g \in Selected
               PROVE  /\ plans'[g].chunks \in {0, Len(Logs[g])}
                      /\ plans'[g].done =>
                           plans'[g].chunks = IF plans'[g].failed THEN 0 ELSE Len(Logs[g])
                      /\ plans'[g].failed => "plan" \in MayVanish
                      /\ plans'[g].counts = NoCounts
    BY <1>2 DEF Planned
  <2>1. CASE g = f
    <3>1. plans[f] \in Plan /\ plans[f].counts = NoCounts
      BY <1>1, <1>2 DEF Typed, Planned
    <3>2. /\ plans'[f].done = TRUE /\ plans'[f].failed = ~opens
          /\ plans'[f].chunks = (IF opens THEN Len(Logs[f]) ELSE 0)
          /\ plans'[f].counts = NoCounts
      <4> DEFINE p == [plans[f] EXCEPT !.done = TRUE, !.failed = ~opens,
                              !.chunks = IF opens THEN Len(Logs[f]) ELSE 0]
      <4>1. /\ p.done = TRUE /\ p.failed = ~opens /\ p.counts = NoCounts
            /\ p.chunks = (IF opens THEN Len(Logs[f]) ELSE 0)
        BY <3>1 DEF Plan
      <4>2. plans'[f] = p
        BY <1>3
      <4> HIDE DEF p
      <4> QED BY <4>1, <4>2
    <3> QED BY <2>1, <3>2
  <2>2. CASE g # f
    <3>1. plans'[g] = plans[g]
      BY <1>3, <2>2
    <3> QED BY <1>1, <1>2, <3>1 DEF Planned
  <2> QED BY <2>1, <2>2
<1>7. NotStarted'
  BY <1>1, <1>2 DEF NotStarted
<1>8. Queue'
  BY <1>2, RangeOfEmpty DEF Queue
<1>9. Hands'
  BY <1>2 DEF Hands, HandHolds, InHand
<1>10. Mutex'
  BY <1>2 DEF Mutex, Shares, Workers, Free
<1>11. Accounts' /\ Gathered'
  BY <1>2 DEF Accounts, Gathered
<1>12. Ended'
  BY <1>1, <1>2 DEF Ended
<1> QED BY <1>5, <1>6, <1>7, <1>8, <1>9, <1>10, <1>11, <1>12 DEF IInv

\* Every batch is queued, and none is merged.
LEMMA StartKeeps == ASSUME IInv, Start PROVE IInv'
<1> DEFINE q == Ordered(Batches, LongestFirst)
<1>1. Typed /\ Planned /\ NotStarted /\ Ended
  BY DEF IInv
<1>2. /\ main = "plan" /\ main' = "send" /\ \A f \in Selected : plans[f].done
      /\ batches' = q /\ UNCHANGED <<plans, lock, records, outcome, missed>>
      /\ records = <<>> /\ missed = {} /\ lock = Free
  BY <1>1 DEF Start, NotStarted
<1>3. /\ worker' \in [Workers -> [at : Places, batch : Batch, mine : Holding, seen : Holding]]
      /\ \A w \in Workers : worker'[w].at \in {"receive", "exited"} /\ worker'[w].batch = NoBatch
  <2>1. \A w \in Workers : worker'[w] = Idle("receive") \/ worker'[w] = Idle("exited")
    BY DEF Start
  <2>2. worker' = [w \in Workers |-> worker'[w]]
    BY DEF Start
  <2>3. "receive" \in Places /\ "exited" \in Places
    BY DEF Places
  <2>4. \A w \in Workers :
          /\ worker'[w] \in [at : Places, batch : Batch, mine : Holding, seen : Holding]
          /\ worker'[w].at \in {"receive", "exited"} /\ worker'[w].batch = NoBatch
    BY <2>1, <2>3, IdleFacts
  <2> QED BY <2>2, <2>4
<1>4. q \in Seq(Batches) /\ IsInjective(q) /\ Range(q) = Batches /\ Batches \subseteq Batch
  <2>1. IsFiniteSet(Batches) /\ Batches \subseteq Batch
    BY <1>1, BatchFacts
  <2>2. StrictOrder(Batches, LongestOn(Batches))
    BY <1>1, LongestOrders
  <2>3. Placed(q, Batches, LongestOn(Batches))
    BY <2>1, <2>2, OrderedLongest
  <2> HIDE DEF q
  <2> QED BY <2>1, <2>2, <2>3, PlacedCovers
<1> HIDE DEF q
<1>5. Batches' = Batches
  BY <1>2 DEF Batches, BatchesOf
<1>6. Typed'
  <2>1. batches' \in Seq(Batch)
    BY <1>2, <1>4
  <2> QED BY <1>1, <1>2, <1>3, <2>1 DEF Typed
<1>7. Planned'
  BY <1>1, <1>2 DEF Planned
<1>8. NotStarted'
  BY <1>2 DEF NotStarted
<1>9. Queue'
  BY <1>2, <1>4, <1>5 DEF Queue
<1>10. Hands'
  BY <1>3 DEF Hands, HandHolds, InHand
<1>11. Mutex'
  BY <1>2, <1>3 DEF Mutex, Shares, Workers, Free
<1>12. Merged' = {}
  BY <1>2, <1>4, <1>5 DEF Merged, Pooled
<1>13. Accounts'
  <2>1. \A f \in Selected : plans[f].counts = NoCounts
    BY <1>1, <1>2 DEF Planned
  <2>2. \A f \in Selected : CountsOf(f, Held({}, f)) = NoCounts
    BY HeldNone, CountsOfNone
  <2>3. \A f \in Selected : plans'[f].counts = CountsOf(f, Held(Merged', f))
    BY <1>2, <1>12, <2>1, <2>2
  <2> QED BY <2>3 DEF Accounts
<1>14. Gathered'
  <2>1. RetainedIn({}) = {}
    <3>1. \A f \in Selected : RetainedOf(f, Held({}, f)) = {}
      BY HeldNone DEF RetainedOf, ReadOf, Parsed
    <3> QED BY <3>1 DEF RetainedIn
  <2>2. IsInjective(records') /\ Range(records') = RetainedIn(Merged')
    BY <1>2, <1>12, <2>1, RangeOfEmpty
  <2> QED BY <2>2 DEF Gathered
<1>15. Ended'
  BY <1>1, <1>2 DEF Ended
<1> QED BY <1>6, <1>7, <1>8, <1>9, <1>10, <1>11, <1>13, <1>14, <1>15 DEF IInv

Worker == [at : Places, batch : Batch, mine : Holding, seen : Holding]

\* A step of one worker leaves the others where they are.
LEMMA OneWorks ==
  ASSUME worker \in [Workers -> Worker], NEW w \in Workers, NEW new \in Worker,
         worker' = [worker EXCEPT ![w] = new]
  PROVE  /\ worker' \in [Workers -> Worker] /\ worker'[w] = new
         /\ \A v \in Workers \ {w} : worker'[v] = worker[v]
OBVIOUS

\* A worker that takes no step holds the batch it held.
LEMMA OtherHand ==
  ASSUME NEW v \in Workers, worker'[v] = worker[v], HandHolds(v), Batches' = Batches,
         InHand(v) => worker[v].batch \notin Range(batches'),
         InHand(v) => (worker[v].batch \in missed' <=> worker[v].batch \in missed)
  PROVE  HandHolds(v)' /\ (InHand(v)' <=> InHand(v)) /\ worker'[v].batch = worker[v].batch
<1>1. InHand(v)' <=> InHand(v)
  BY DEF InHand
<1>2. InHand(v) => OfBatch(worker[v].batch)' = OfBatch(worker[v].batch)
  BY DEF OfBatch, ParsedBatch
<1>3. worker[v].at \in {"parse", "lock", "merge"} => InHand(v)
  BY DEF InHand
<1> QED BY <1>1, <1>2, <1>3 DEF HandHolds

\* A worker that takes no step, and whose mutex nobody took or gave back, sees what it saw.
LEMMA OtherShares ==
  ASSUME NEW v \in Workers, worker'[v] = worker[v], Shares(v), lock' = v <=> lock = v,
         worker[v].at = "merge" => records' = records /\ plans' = plans
  PROVE  Shares(v)'
BY DEF Shares

\* A batch goes from the queue to one hand.
LEMMA ReceiveKeeps == ASSUME IInv, NEW w \in Workers, Receive(w) PROVE IInv'
<1> DEFINE b == Head(batches)
           new == [worker[w] EXCEPT !.at = "parse", !.batch = b]
<1>1. Typed /\ Planned /\ NotStarted /\ Queue /\ Hands /\ Mutex /\ Accounts /\ Gathered
      /\ Ended
  BY DEF IInv
<1>2. /\ main = "send" /\ batches # <<>> /\ worker[w].at = "receive"
      /\ worker' = [worker EXCEPT ![w] = new] /\ batches' = Tail(batches)
      /\ UNCHANGED <<main, plans, lock, records, outcome, missed>>
  BY DEF Receive
<1>3. /\ batches \in Seq(Batch) /\ IsInjective(batches)
      /\ worker \in [Workers -> Worker] /\ worker[w] \in Worker
  BY <1>1 DEF Typed, Queue, Worker
<1>4. /\ batches' \in Seq(Batch) /\ IsInjective(batches')
      /\ b \in Range(batches) /\ Range(batches') = Range(batches) \ {b}
  BY <1>2, <1>3, HeadGoes
<1>5. b \in Batches /\ b \in Batch /\ b \notin missed
  <2>1. b \in Batches /\ b \notin missed
    <3> HIDE DEF b
    <3> QED BY <1>1, <1>4 DEF Queue
  <2> QED BY <1>1, <2>1, BatchFacts
<1>6. new \in Worker /\ new.at = "parse" /\ new.batch = b
  <2> HIDE DEF b
  <2> QED BY <1>3, <1>5 DEF Worker, Places
<1> HIDE DEF new, b
<1>7. /\ worker' \in [Workers -> Worker] /\ worker'[w].at = "parse" /\ worker'[w].batch = b
      /\ \A v \in Workers \ {w} : worker'[v] = worker[v]
  BY <1>2, <1>3, <1>6, OneWorks
<1>8. /\ worker[w].batch = NoBatch /\ NoBatch \notin Batches
      /\ \A v \in Workers : InHand(v) => worker[v].batch \notin Range(batches)
  <2>1. \A x \in Batches : x # NoBatch
    BY <1>1, BatchFacts
  <2> QED BY <1>1, <1>2, <2>1 DEF Hands, HandHolds, InHand
<1>9. Batches' = Batches
  BY <1>2 DEF Batches, BatchesOf
<1>10. Typed'
  BY <1>1, <1>2, <1>4, <1>7 DEF Typed, Worker
<1>11. Planned' /\ NotStarted'
  BY <1>1, <1>2 DEF Planned, NotStarted
<1>12. Queue'
  BY <1>1, <1>2, <1>4, <1>9 DEF Queue
<1>13. Hands'
  <2>1. HandHolds(w)' /\ InHand(w)'
    BY <1>2, <1>4, <1>5, <1>7, <1>9 DEF HandHolds, InHand
  <2>2. ASSUME NEW v \in Workers, v # w
        PROVE  /\ HandHolds(v)' /\ (InHand(v)' <=> InHand(v)) /\ worker'[v].batch = worker[v].batch
               /\ InHand(v) => worker[v].batch # b
    <3>1. HandHolds(v) /\ worker'[v] = worker[v]
      BY <1>1, <1>7, <2>2 DEF Hands
    <3> QED BY <1>2, <1>4, <1>8, <1>9, <3>1, OtherHand
  <2>3. ASSUME NEW u \in Workers, NEW v \in Workers, InHand(u)', InHand(v)',
               worker'[u].batch = worker'[v].batch
        PROVE  u = v
    <3>1. CASE u # w /\ v # w
      BY <1>1, <2>2, <2>3, <3>1 DEF Hands
    <3>2. CASE u = w \/ v = w
      BY <1>7, <2>2, <2>3, <3>2
    <3> QED BY <3>1, <3>2
  <2> QED BY <2>1, <2>2, <2>3 DEF Hands
<1>14. Mutex'
  <2>1. Shares(w)'
    BY <1>1, <1>2, <1>7 DEF Mutex, Shares
  <2>2. ASSUME NEW v \in Workers, v # w PROVE Shares(v)'
    <3>1. Shares(v) /\ worker'[v] = worker[v]
      BY <1>1, <1>7, <2>2 DEF Mutex
    <3> QED BY <1>2, <3>1, OtherShares
  <2> QED BY <2>1, <2>2 DEF Mutex
<1>15. Merged' = Merged
  <2>1. \A x \in Batches : x \in Pooled' <=> x \in Pooled
    BY <1>4, <1>7, <1>8 DEF Pooled
  <2> QED BY <1>2, <1>9, <2>1 DEF Merged
<1>16. Accounts' /\ Gathered'
  BY <1>1, <1>2, <1>15 DEF Accounts, Gathered
<1>17. Ended'
  BY <1>1, <1>2 DEF Ended
<1> QED BY <1>10, <1>11, <1>12, <1>13, <1>14, <1>16, <1>17 DEF IInv

\* A batch is parsed, or missed, in the hand that holds it.
LEMMA ParseBatchKeeps ==
  ASSUME IInv, NEW w \in Workers, NEW opens \in BOOLEAN, ParseBatch(w, opens)
  PROVE  IInv'
<1> DEFINE b == worker[w].batch
           mine == IF opens THEN ParsedBatch(b) ELSE NoWork
           new == [worker[w] EXCEPT !.at = "lock", !.mine = mine]
<1>1. Typed /\ Planned /\ NotStarted /\ Queue /\ Hands /\ Mutex /\ Accounts /\ Gathered
      /\ Ended
  BY DEF IInv
<1>2. /\ worker[w].at = "parse" /\ (opens \/ "parse" \in MayVanish)
      /\ worker' = [worker EXCEPT ![w] = new]
      /\ missed' = IF opens THEN missed ELSE missed \cup {b}
      /\ UNCHANGED <<main, plans, batches, lock, records, outcome>>
  BY DEF ParseBatch
<1>3. worker \in [Workers -> Worker] /\ worker[w] \in Worker
  BY <1>1 DEF Typed, Worker
<1>4. /\ b \in Batches /\ b \notin Range(batches) /\ b \notin missed
      /\ main # "plan" /\ main # "done"
  <2>1. b \in Batches /\ b \notin Range(batches) /\ b \notin missed
    BY <1>1, <1>2 DEF Hands, HandHolds, InHand
  <2>2. Idle("notStarted").at = "notStarted"
    BY IdleFacts DEF Places
  <2>3. main # "plan"
    BY <1>1, <1>2, <2>2 DEF NotStarted
  <2>4. main # "done"
    BY <1>1, <1>2 DEF Ended
  <2> QED BY <2>1, <2>3, <2>4
<1>5. mine \in Holding
  <2>1. ParsedBatch(b) \in Holding
    <3> HIDE DEF b
    <3> QED BY <1>1, <1>4, ParsedBatchHolds
  <2>2. NoWork \in Holding
    BY IdleFacts DEF Places
  <2> HIDE DEF b
  <2> QED BY <2>1, <2>2
<1>6. new \in Worker /\ new.at = "lock" /\ new.batch = b /\ new.mine = mine
  <2> HIDE DEF mine
  <2> QED BY <1>3, <1>5 DEF Worker, Places
<1> HIDE DEF new, b
<1>7. /\ worker' \in [Workers -> Worker]
      /\ worker'[w].at = "lock" /\ worker'[w].batch = b /\ worker'[w].mine = mine
      /\ \A v \in Workers \ {w} : worker'[v] = worker[v]
  BY <1>2, <1>3, <1>6, OneWorks
<1>8. Batches' = Batches
  BY <1>2 DEF Batches, BatchesOf
<1>9. b = worker[w].batch
  BY DEF b
<1>10. Typed'
  BY <1>1, <1>2, <1>7 DEF Typed, Worker
<1>11. Planned' /\ NotStarted'
  BY <1>1, <1>2, <1>4 DEF Planned, NotStarted
<1>12. Queue'
  BY <1>1, <1>2, <1>4, <1>8 DEF Queue
<1>13. Hands'
  <2>1. OfBatch(worker[w].batch)' = mine
    BY <1>2, <1>4, <1>7 DEF OfBatch
  <2> HIDE DEF mine
  <2>2. HandHolds(w)' /\ InHand(w)' /\ InHand(w)
    BY <1>2, <1>4, <1>7, <1>8, <2>1 DEF HandHolds, InHand
  <2>3. ASSUME NEW v \in Workers, v # w
        PROVE  /\ HandHolds(v)' /\ (InHand(v)' <=> InHand(v)) /\ worker'[v].batch = worker[v].batch
    <3>1. HandHolds(v) /\ worker'[v] = worker[v]
      BY <1>1, <1>7, <2>3 DEF Hands
    <3>2. InHand(v) => worker[v].batch # b
      BY <1>1, <1>9, <2>2, <2>3 DEF Hands
    <3>3. InHand(v) => (worker[v].batch \in missed' <=> worker[v].batch \in missed)
      BY <1>2, <3>2
    <3>4. InHand(v) => worker[v].batch \notin Range(batches')
      BY <1>2, <3>1 DEF HandHolds
    <3> QED BY <1>8, <3>1, <3>3, <3>4, OtherHand
  <2>4. ASSUME NEW u \in Workers, NEW v \in Workers, InHand(u)', InHand(v)',
               worker'[u].batch = worker'[v].batch
        PROVE  u = v
    <3>1. \A x \in Workers : InHand(x)' => InHand(x) /\ worker'[x].batch = worker[x].batch
      BY <1>7, <1>9, <2>2, <2>3
    <3> QED BY <1>1, <2>4, <3>1 DEF Hands
  <2> QED BY <2>2, <2>3, <2>4 DEF Hands
<1>14. Mutex'
  <2>1. Shares(w)'
    BY <1>1, <1>2, <1>7 DEF Mutex, Shares
  <2>2. ASSUME NEW v \in Workers, v # w PROVE Shares(v)'
    <3>1. Shares(v) /\ worker'[v] = worker[v]
      BY <1>1, <1>7, <2>2 DEF Mutex
    <3> QED BY <1>2, <3>1, OtherShares
  <2> QED BY <2>1, <2>2 DEF Mutex
<1>15. Merged' = Merged
  <2>1. Pooled' = Pooled
    <3>1. \A x \in Workers : worker'[x].batch = worker[x].batch
      BY <1>7, <1>9
    <3> QED BY <1>2, <3>1 DEF Pooled
  <2>2. b \in Pooled
    BY <1>9 DEF Pooled
  <2> QED BY <1>2, <1>8, <2>1, <2>2 DEF Merged
<1>16. Accounts' /\ Gathered'
  BY <1>1, <1>2, <1>15 DEF Accounts, Gathered
<1>17. Ended'
  BY <1>1, <1>2, <1>4 DEF Ended
<1> QED BY <1>10, <1>11, <1>12, <1>13, <1>14, <1>16, <1>17 DEF IInv

\* Who takes the mutex reads the shared slice and the file's counts as they are.
LEMMA TakeKeeps == ASSUME IInv, NEW w \in Workers, Take(w) PROVE IInv'
<1> DEFINE b == worker[w].batch
           seen == [records |-> records, counts |-> plans[b.file].counts]
           new == [worker[w] EXCEPT !.at = "merge", !.seen = seen]
<1>1. Typed /\ Planned /\ NotStarted /\ Queue /\ Hands /\ Mutex /\ Accounts /\ Gathered
      /\ Ended
  BY DEF IInv
<1>2. /\ worker[w].at = "lock" /\ lock = Free /\ lock' = w
      /\ worker' = [worker EXCEPT ![w] = new]
      /\ UNCHANGED <<main, plans, batches, records, outcome, missed>>
  BY DEF Take
<1>3. worker \in [Workers -> Worker] /\ worker[w] \in Worker
  BY <1>1 DEF Typed, Worker
<1>4. b \in Batches /\ b.file \in Selected /\ main # "plan" /\ main # "done"
  <2>1. b \in Batches
    BY <1>1, <1>2 DEF Hands, HandHolds, InHand
  <2>2. Idle("notStarted").at = "notStarted"
    BY IdleFacts DEF Places
  <2>3. main # "plan"
    BY <1>1, <1>2, <2>2 DEF NotStarted
  <2>4. main # "done"
    BY <1>1, <1>2 DEF Ended
  <2> HIDE DEF b
  <2>5. b.file \in Selected
    BY <1>1, <2>1, BatchFacts
  <2> QED BY <2>1, <2>3, <2>4, <2>5
<1>5. seen \in Holding
  <2> HIDE DEF b
  <2>1. plans[b.file].counts \in Counts /\ records \in Seq(AllRecords)
    BY <1>1, <1>4 DEF Typed, Plan
  <2> QED BY <2>1 DEF Holding
<1>6. new \in Worker /\ new.at = "merge" /\ new.batch = b /\ new.seen = seen
      /\ new.mine = worker[w].mine
  <2> HIDE DEF seen
  <2> QED BY <1>3, <1>5 DEF Worker, Places
<1> HIDE DEF new
<1>7. /\ worker' \in [Workers -> Worker]
      /\ worker'[w].at = "merge" /\ worker'[w].batch = b /\ worker'[w].seen = seen
      /\ worker'[w].mine = worker[w].mine
      /\ \A v \in Workers \ {w} : worker'[v] = worker[v]
  BY <1>2, <1>3, <1>6, OneWorks
<1>8. worker'[w].seen = [records |-> records', counts |-> plans'[worker'[w].batch.file].counts]
  BY <1>2, <1>7
<1> HIDE DEF b, seen
<1>9. Batches' = Batches
  BY <1>2 DEF Batches, BatchesOf
<1>10. \A v \in Workers : worker'[v].batch = worker[v].batch
  BY <1>7 DEF b
<1>11. Typed'
  <2>1. worker' \in [Workers -> [at : Places, batch : Batch, mine : Holding, seen : Holding]]
    BY <1>7 DEF Worker
  <2> QED BY <1>1, <1>2, <2>1 DEF Typed
<1>12. Planned' /\ NotStarted'
  BY <1>1, <1>2, <1>4 DEF Planned, NotStarted
<1>13. Queue'
  BY <1>1, <1>2, <1>9 DEF Queue
<1>14. Hands'
  <2>1. OfBatch(worker[w].batch)' = OfBatch(worker[w].batch)
    BY <1>2, <1>10 DEF OfBatch, ParsedBatch
  <2>2. /\ worker[w].batch \in Batches /\ worker[w].batch \notin Range(batches)
        /\ worker[w].mine = OfBatch(worker[w].batch)
    BY <1>1, <1>2 DEF Hands, HandHolds, InHand
  <2>3. HandHolds(w)' /\ InHand(w)' /\ InHand(w)
    BY <1>2, <1>7, <1>9, <1>10, <2>1, <2>2 DEF HandHolds, InHand
  <2>4. ASSUME NEW v \in Workers, v # w PROVE HandHolds(v)' /\ (InHand(v)' <=> InHand(v))
    <3>1. HandHolds(v) /\ worker'[v] = worker[v]
      BY <1>1, <1>7, <2>4 DEF Hands
    <3>2. InHand(v) => worker[v].batch \notin Range(batches')
      BY <1>2, <3>1 DEF HandHolds
    <3> QED BY <1>2, <1>9, <3>1, <3>2, OtherHand
  <2> QED BY <1>1, <1>10, <2>3, <2>4 DEF Hands
<1>15. Mutex'
  <2>1. Shares(w)'
    BY <1>2, <1>7, <1>8 DEF Shares
  <2>2. ASSUME NEW v \in Workers, v # w PROVE Shares(v)'
    <3>1. Shares(v) /\ worker'[v] = worker[v]
      BY <1>1, <1>7, <2>2 DEF Mutex
    <3>2. lock # v
      BY <1>2 DEF Workers, Free
    <3> QED BY <1>2, <2>2, <3>1, <3>2, OtherShares
  <2> QED BY <2>1, <2>2 DEF Mutex
<1>16. Merged' = Merged
  <2>1. Pooled' = Pooled
    BY <1>2, <1>10 DEF Pooled
  <2> QED BY <1>2, <1>9, <2>1 DEF Merged
<1>17. Accounts' /\ Gathered'
  BY <1>1, <1>2, <1>16 DEF Accounts, Gathered
<1>18. Ended'
  BY <1>1, <1>2, <1>4 DEF Ended
<1> QED BY <1>11, <1>12, <1>13, <1>14, <1>15, <1>17, <1>18 DEF IInv

\* A worker returns with nothing in hand.
LEMMA ExitKeeps == ASSUME IInv, NEW w \in Workers, Exit(w) PROVE IInv'
<1>1. Typed /\ Planned /\ NotStarted /\ Queue /\ Hands /\ Mutex /\ Accounts /\ Gathered
      /\ Ended
  BY DEF IInv
<1>2. /\ main = "closed" /\ worker[w].at = "receive"
      /\ worker' = [worker EXCEPT ![w] = Idle("exited")]
      /\ UNCHANGED <<main, plans, batches, lock, records, outcome, missed>>
  BY DEF Exit
<1>3. worker \in [Workers -> Worker]
  BY <1>1 DEF Typed, Worker
<1>4. Idle("exited") \in Worker /\ Idle("exited").at = "exited" /\ Idle("exited").batch = NoBatch
  BY IdleFacts DEF Worker, Places
<1>5. /\ worker' \in [Workers -> Worker] /\ worker'[w].at = "exited" /\ worker'[w].batch = NoBatch
      /\ \A v \in Workers \ {w} : worker'[v] = worker[v]
  BY <1>2, <1>3, <1>4, OneWorks
<1>6. worker[w].batch = NoBatch
  BY <1>1, <1>2 DEF Hands, HandHolds, InHand
<1>7. Batches' = Batches
  BY <1>2 DEF Batches, BatchesOf
<1>8. \A v \in Workers : worker'[v].batch = worker[v].batch
  BY <1>5, <1>6
<1>9. Typed'
  <2>1. worker' \in [Workers -> [at : Places, batch : Batch, mine : Holding, seen : Holding]]
    BY <1>5 DEF Worker
  <2> QED BY <1>1, <1>2, <2>1 DEF Typed
<1>10. Planned' /\ NotStarted'
  BY <1>1, <1>2 DEF Planned, NotStarted
<1>11. Queue'
  BY <1>1, <1>2, <1>7 DEF Queue
<1>12. Hands'
  <2>1. HandHolds(w)' /\ ~InHand(w)' /\ ~InHand(w)
    BY <1>2, <1>5 DEF HandHolds, InHand
  <2>2. ASSUME NEW v \in Workers, v # w PROVE HandHolds(v)' /\ (InHand(v)' <=> InHand(v))
    <3>1. HandHolds(v) /\ worker'[v] = worker[v]
      BY <1>1, <1>5, <2>2 DEF Hands
    <3>2. InHand(v) => worker[v].batch \notin Range(batches')
      BY <1>2, <3>1 DEF HandHolds
    <3> QED BY <1>2, <1>7, <3>1, <3>2, OtherHand
  <2> QED BY <1>1, <1>8, <2>1, <2>2 DEF Hands
<1>13. Mutex'
  <2>1. Shares(w)'
    BY <1>1, <1>2, <1>5 DEF Mutex, Shares
  <2>2. ASSUME NEW v \in Workers, v # w PROVE Shares(v)'
    <3>1. Shares(v) /\ worker'[v] = worker[v]
      BY <1>1, <1>5, <2>2 DEF Mutex
    <3> QED BY <1>2, <3>1, OtherShares
  <2> QED BY <2>1, <2>2 DEF Mutex
<1>14. Merged' = Merged
  <2>1. Pooled' = Pooled
    BY <1>2, <1>8 DEF Pooled
  <2> QED BY <1>2, <1>7, <2>1 DEF Merged
<1>15. Accounts' /\ Gathered'
  BY <1>1, <1>2, <1>14 DEF Accounts, Gathered
<1>16. Ended'
  BY <1>1, <1>2 DEF Ended
<1> QED BY <1>9, <1>10, <1>11, <1>12, <1>13, <1>15, <1>16 DEF IInv

\* A step of the caller leaves the pool as it is.
LEMMA KeptAll ==
  ASSUME IInv, UNCHANGED <<plans, batches, worker, lock, records, missed>>,
         main' = "plan" <=> main = "plan", batches = <<>> \/ main' = main
  PROVE  /\ Planned' /\ NotStarted' /\ Queue' /\ Hands' /\ Mutex' /\ Accounts' /\ Gathered'
<1>1. Typed /\ Planned /\ NotStarted /\ Queue /\ Hands /\ Mutex /\ Accounts /\ Gathered
  BY DEF IInv
<1>2. Batches' = Batches
  BY DEF Batches, BatchesOf
<1>3. Planned' /\ NotStarted'
  BY <1>1 DEF Planned, NotStarted
<1>4. Queue'
  BY <1>1, <1>2 DEF Queue
<1>5. \A w \in Workers : InHand(w)' <=> InHand(w)
  BY DEF InHand
<1>6. Hands'
  <2>1. ASSUME NEW v \in Workers PROVE HandHolds(v)'
    <3>1. HandHolds(v) /\ worker'[v] = worker[v]
      BY <1>1 DEF Hands
    <3>2. InHand(v) => worker[v].batch \notin Range(batches')
      BY <3>1 DEF HandHolds
    <3> QED BY <1>2, <3>1, <3>2, OtherHand
  <2> QED BY <1>1, <1>5, <2>1 DEF Hands
<1>7. Mutex'
  BY <1>1 DEF Mutex, Shares
<1>8. Merged' = Merged
  <2>1. Pooled' = Pooled
    BY DEF Pooled
  <2> QED BY <1>2, <2>1 DEF Merged
<1>9. Accounts' /\ Gathered'
  BY <1>1, <1>8 DEF Accounts, Gathered
<1> QED BY <1>3, <1>4, <1>6, <1>7, <1>9

\* The channel is closed once every batch is handed out.
LEMMA CloseKeeps == ASSUME IInv, Close PROVE IInv'
<1>1. /\ main = "send" /\ main' = "closed" /\ batches = <<>>
      /\ UNCHANGED <<plans, batches, worker, lock, records, outcome, missed>>
  BY DEF Close
<1>2. Typed'
  BY <1>1 DEF IInv, Typed
<1>3. /\ Planned' /\ NotStarted' /\ Queue' /\ Hands' /\ Mutex' /\ Accounts' /\ Gathered'
  BY <1>1, KeptAll
<1>4. Ended'
  BY <1>1 DEF IInv, Ended
<1> QED BY <1>2, <1>3, <1>4 DEF IInv

\* What is returned is what the plans and the slice hold when every worker has returned.
LEMMA AssembleKeeps == ASSUME IInv, Assemble PROVE IInv'
<1>1. /\ main = "closed" /\ main' = "done" /\ \A w \in Workers : worker[w].at = "exited"
      /\ outcome' = Returned
      /\ UNCHANGED <<plans, batches, worker, lock, records, missed>>
  BY DEF Assemble, Returned
<1>2. Typed'
  BY <1>1 DEF IInv, Typed
<1>3. batches = <<>>
  BY <1>1 DEF IInv, Queue
<1>4. /\ Planned' /\ NotStarted' /\ Queue' /\ Hands' /\ Mutex' /\ Accounts' /\ Gathered'
  BY <1>1, <1>3, KeptAll
<1>5. Returned' = Returned
  BY <1>1 DEF Returned
<1>6. Ended'
  BY <1>1, <1>5 DEF Ended
<1> QED BY <1>2, <1>4, <1>6 DEF IInv

\* A step of something else changes nothing.
LEMMA StutterKeeps == ASSUME IInv, UNCHANGED vars PROVE IInv'
<1>1. UNCHANGED <<main, plans, batches, worker, lock, records, outcome, missed>>
  BY DEF vars
<1>2. Typed'
  BY <1>1 DEF IInv, Typed
<1>3. /\ Planned' /\ NotStarted' /\ Queue' /\ Hands' /\ Mutex' /\ Accounts' /\ Gathered'
  BY <1>1, KeptAll
<1>4. Returned' = Returned
  BY <1>1 DEF Returned
<1>5. Ended'
  BY <1>1, <1>4 DEF IInv, Ended
<1> QED BY <1>2, <1>3, <1>5 DEF IInv

\* A merge adds a batch to what has been counted and appended, and nothing another worker
\* merged is written over: between the read and the write the mutex is this worker's.
LEMMA MergeKeeps == ASSUME IInv, NEW w \in Workers, Merge(w) PROVE IInv'
<1> DEFINE b == worker[w].batch
           g == b.file
           mine == worker[w].mine
<1>1. Typed /\ Planned /\ NotStarted /\ Queue /\ Hands /\ Mutex /\ Accounts /\ Gathered
      /\ Ended
  BY DEF IInv
<1>2. /\ worker \in [Workers -> Worker] /\ worker[w] \in Worker /\ plans \in [Selected -> Plan]
      /\ records \in Seq(AllRecords)
  BY <1>1 DEF Typed, Worker
<1>3. /\ worker[w].at = "merge" /\ lock' = Free /\ UNCHANGED <<main, batches, outcome, missed>>
      /\ worker' = [worker EXCEPT ![w] = Idle("receive")]
  BY DEF Merge
<1>4. /\ records' = records \o mine.records
      /\ plans' = [plans EXCEPT ![g].counts = Plus(plans[g].counts, mine.counts)]
  <2>1. worker[w].seen = [records |-> records, counts |-> plans[g].counts]
    BY <1>1, <1>3 DEF Mutex, Shares
  <2>2. worker[w].seen.records = records /\ worker[w].seen.counts = plans[g].counts
    BY <2>1
  <2> QED BY <2>2 DEF Merge, Fold
<1>5. /\ b \in Batches /\ b \notin Range(batches) /\ mine = OfBatch(b) /\ mine \in Holding
      /\ main # "plan" /\ main # "done"
  <2>1. b \in Batches /\ b \notin Range(batches) /\ mine = OfBatch(b)
    BY <1>1, <1>3 DEF Hands, HandHolds, InHand
  <2>2. Idle("notStarted").at = "notStarted"
    BY IdleFacts DEF Places
  <2>3. main # "plan"
    BY <1>1, <1>3, <2>2 DEF NotStarted
  <2>4. main # "done"
    BY <1>1, <1>3 DEF Ended
  <2>5. mine \in Holding
    BY <1>2 DEF Worker
  <2> QED BY <2>1, <2>3, <2>4, <2>5
<1>6. b = worker[w].batch /\ g = b.file
  OBVIOUS
<1> HIDE DEF b, g, mine
<1>7. /\ g \in Selected /\ b # NoBatch /\ NoBatch \notin Batches /\ Span(b) \in SUBSET ChunksIn(g)
  <2>1. \A x \in Batches : x.file \in Selected /\ x # NoBatch /\ Span(x) \subseteq ChunksIn(x.file)
    BY <1>1, BatchFacts
  <2> QED BY <1>5, <1>6, <2>1
<1>8. /\ worker' \in [Workers -> Worker] /\ worker'[w].at = "receive" /\ worker'[w].batch = NoBatch
      /\ \A v \in Workers \ {w} : worker'[v] = worker[v]
  <2>1. /\ Idle("receive") \in Worker /\ Idle("receive").at = "receive"
        /\ Idle("receive").batch = NoBatch
    BY IdleFacts DEF Worker, Places
  <2> QED BY <1>2, <1>3, <2>1, OneWorks
<1>9. /\ mine.records \in Seq(AllRecords) /\ mine.counts \in Counts /\ plans[g].counts \in Counts
      /\ Plus(plans[g].counts, mine.counts) \in Counts
  <2>1. mine.records \in Seq(AllRecords) /\ mine.counts \in Counts
    BY <1>5 DEF Holding
  <2>2. plans[g].counts \in Counts
    BY <1>2, <1>7 DEF Plan
  <2> QED BY <2>1, <2>2, PlusFacts DEF Counts
<1>10. /\ plans' \in [Selected -> Plan]
       /\ plans'[g].counts = Plus(plans[g].counts, mine.counts)
       /\ \A f \in Selected \ {g} : plans'[f] = plans[f]
       /\ \A f \in Selected : /\ plans'[f].chunks = plans[f].chunks
                              /\ plans'[f].done = plans[f].done
                              /\ plans'[f].failed = plans[f].failed
  <2> DEFINE sum == Plus(plans[g].counts, mine.counts)
             p == [plans[g] EXCEPT !.counts = sum]
  <2>1. sum \in Counts /\ plans[g] \in Plan
    BY <1>2, <1>7, <1>9
  <2>2. plans' = [plans EXCEPT ![g] = p]
    BY <1>4
  <2> HIDE DEF sum
  <2>3. /\ p \in Plan /\ p.counts = sum /\ p.chunks = plans[g].chunks
        /\ p.done = plans[g].done /\ p.failed = plans[g].failed
    BY <2>1 DEF Plan
  <2> HIDE DEF p
  <2>4. plans' \in [Selected -> Plan] /\ plans'[g] = p
        /\ \A f \in Selected \ {g} : plans'[f] = plans[f]
    BY <1>2, <1>7, <2>2, <2>3
  <2> QED BY <2>3, <2>4 DEF sum
<1>11. Batches' = Batches
  <2>1. \A f \in Selected : BatchesOf(f)' = BatchesOf(f)
    BY <1>10 DEF BatchesOf
  <2> QED BY <2>1 DEF Batches
<1>12. Typed'
  <2>1. records' \in Seq(AllRecords)
    BY <1>2, <1>4, <1>9
  <2>2. worker' \in [Workers -> [at : Places, batch : Batch, mine : Holding, seen : Holding]]
    BY <1>8 DEF Worker
  <2> QED BY <1>1, <1>3, <1>10, <2>1, <2>2 DEF Typed
<1>13. Planned'
  BY <1>1, <1>3, <1>5, <1>10 DEF Planned
<1>14. NotStarted'
  BY <1>1, <1>3, <1>5 DEF NotStarted
<1>15. Queue'
  BY <1>1, <1>3, <1>11 DEF Queue
<1>16. \A v \in Workers \ {w} : InHand(v) => worker[v].batch # b
  <2>1. InHand(w)
    BY <1>3 DEF InHand
  <2> QED BY <1>1, <1>6, <2>1 DEF Hands
<1>17. Hands'
  <2>1. HandHolds(w)' /\ ~InHand(w)'
    BY <1>8 DEF HandHolds, InHand
  <2>2. ASSUME NEW v \in Workers, v # w
        PROVE  /\ HandHolds(v)' /\ (InHand(v)' <=> InHand(v)) /\ worker'[v].batch = worker[v].batch
    <3>1. HandHolds(v) /\ worker'[v] = worker[v]
      BY <1>1, <1>8, <2>2 DEF Hands
    <3>2. InHand(v) => worker[v].batch \notin Range(batches')
      BY <1>3, <3>1 DEF HandHolds
    <3> QED BY <1>3, <1>11, <3>1, <3>2, OtherHand
  <2> QED BY <1>1, <2>1, <2>2 DEF Hands
<1>18. Mutex'
  <2>1. lock = w
    BY <1>1, <1>3 DEF Mutex, Shares
  <2>2. Shares(w)'
    BY <1>3, <1>8 DEF Shares, Workers, Free
  <2>3. ASSUME NEW v \in Workers, v # w PROVE Shares(v)'
    <3>1. Shares(v) /\ worker'[v] = worker[v] /\ lock # v /\ lock' # v
      BY <1>1, <1>3, <1>8, <2>1, <2>3 DEF Mutex, Workers, Free
    <3>2. worker[v].at # "merge"
      BY <3>1 DEF Shares
    <3> QED BY <3>1, <3>2, OtherShares
  <2> QED BY <2>2, <2>3 DEF Mutex
<1>19. /\ b \notin Merged /\ Merged \in SUBSET Batches
       /\ Merged' = IF b \in missed THEN Merged ELSE Merged \cup {b}
  <2>1. b \in Pooled
    BY <1>6 DEF Pooled
  <2>2. ASSUME NEW x \in Batches PROVE x \in Pooled' <=> (x \in Pooled /\ x # b)
    <3>1. ASSUME NEW v \in Workers, v # w, worker[v].batch = x PROVE x # b
      <4>1. worker[v].batch # NoBatch
        BY <1>7, <3>1
      <4>2. InHand(v)
        BY <1>1, <4>1 DEF Hands, HandHolds
      <4> QED BY <1>16, <3>1, <4>2
    <3>2. x \in Range(batches) => x # b
      BY <1>5
    <3>3. x \in Pooled' <=> x \in Range(batches) \/ \E v \in Workers \ {w} : worker[v].batch = x
      BY <1>3, <1>7, <1>8 DEF Pooled
    <3> QED BY <1>6, <3>1, <3>2, <3>3 DEF Pooled
  <2>3. \A x \in Batches : x \in Merged' <=> x \in Merged \/ (x = b /\ b \notin missed)
    BY <1>3, <1>5, <1>11, <2>1, <2>2 DEF Merged
  <2>4. Merged' \subseteq Batches /\ Merged \subseteq Batches /\ b \notin Merged
    BY <1>11, <2>1 DEF Merged
  <2> QED BY <1>5, <2>3, <2>4
<1> HIDE DEF Merged
<1>20. CASE b \in missed
  <2>1. mine.records = <<>> /\ mine.counts = NoCounts
    BY <1>5, <1>20, IdleFacts DEF OfBatch, Places
  <2>2. records' = records
    BY <1>2, <1>4, <2>1
  <2>3. \A f \in Selected : plans'[f].counts = plans[f].counts
    <3>1. Plus(plans[g].counts, NoCounts) = plans[g].counts
      BY <1>9, PlusFacts DEF Counts
    <3> QED BY <1>10, <2>1, <3>1
  <2>4. Accounts' /\ Gathered'
    BY <1>1, <1>3, <1>19, <1>20, <2>2, <2>3 DEF Accounts, Gathered
  <2> QED BY <1>1, <1>3, <1>5, <1>12, <1>13, <1>14, <1>15, <1>17, <1>18, <2>4 DEF IInv, Ended
<1>21. CASE b \notin missed
  <2>1. /\ mine = ParsedBatch(b) /\ Merged' = Merged \cup {b}
    BY <1>5, <1>19, <1>21 DEF OfBatch
  <2>2. /\ mine.counts = CountsOf(g, Span(b)) /\ IsInjective(mine.records)
        /\ Range(mine.records) = RetainedOf(g, Span(b))
    BY <1>1, <1>5, <1>6, <2>1, ParsedBatchHolds
  <2>3. /\ RetainedIn(Merged \cup {b}) = RetainedIn(Merged) \cup RetainedOf(g, Span(b))
        /\ RetainedIn(Merged) \cap RetainedOf(g, Span(b)) = {}
        /\ \A f \in Selected \ {g} : Held(Merged \cup {b}, f) = Held(Merged, f)
        /\ Held(Merged \cup {b}, g) = Held(Merged, g) \cup Span(b)
        /\ Held(Merged, g) \cap Span(b) = {}
    BY <1>1, <1>5, <1>6, <1>19, RetainedGrows
  <2>4. \A f \in Selected : plans[f].counts = CountsOf(f, Held(Merged, f))
    BY <1>1, <1>5 DEF Accounts
  <2>5. Held(Merged, g) \in SUBSET ChunksIn(g)
    BY <1>1, <1>7, <1>19, HeldFacts
  <2>6. CountsOf(g, Held(Merged, g) \cup Span(b)) = Plus(plans[g].counts, mine.counts)
    BY <1>7, <2>2, <2>3, <2>4, <2>5, CountsAdd
  <2>7. Accounts'
    <3>1. \A f \in Selected : plans'[f].counts = CountsOf(f, Held(Merged', f))
      BY <1>10, <2>1, <2>3, <2>4, <2>6
    <3> QED BY <3>1 DEF Accounts
  <2>8. Gathered'
    <3>1. IsInjective(records) /\ Range(records) = RetainedIn(Merged)
      BY <1>1, <1>5 DEF Gathered
    <3>2. Range(records) \cap Range(mine.records) = {}
      BY <2>2, <2>3, <3>1
    <3>3. /\ IsInjective(records \o mine.records)
          /\ Range(records \o mine.records) = Range(records) \cup Range(mine.records)
      BY <1>2, <1>9, <2>2, <3>1, <3>2, Appended
    <3>4. IsInjective(records') /\ Range(records') = RetainedIn(Merged')
      BY <1>4, <2>1, <2>2, <2>3, <3>1, <3>3
    <3> QED BY <3>4 DEF Gathered
  <2> QED BY <1>1, <1>3, <1>5, <1>12, <1>13, <1>14, <1>15, <1>17, <1>18, <2>7, <2>8 DEF IInv, Ended
<1> QED BY <1>20, <1>21

\* Every step keeps the invariant.
LEMMA NextHolds == ASSUME IInv, [Next]_vars PROVE IInv'
<1>1. CASE Next
  <2>1. ASSUME NEW f \in Selected, NEW opens \in BOOLEAN, PlanFile(f, opens) PROVE IInv'
    BY <2>1, PlanFileKeeps
  <2>2. CASE Start
    BY <2>2, StartKeeps
  <2>3. CASE Close
    BY <2>3, CloseKeeps
  <2>4. CASE Assemble
    BY <2>4, AssembleKeeps
  <2>5. ASSUME NEW w \in Workers, Work(w) PROVE IInv'
    <3>1. ASSUME NEW opens \in BOOLEAN, ParseBatch(w, opens) PROVE IInv'
      BY <3>1, ParseBatchKeeps
    <3>2. CASE Receive(w)
      BY <3>2, ReceiveKeeps
    <3>3. CASE Take(w)
      BY <3>3, TakeKeeps
    <3>4. CASE Merge(w)
      BY <3>4, MergeKeeps
    <3>5. CASE Exit(w)
      BY <3>5, ExitKeeps
    <3> QED BY <2>5, <3>1, <3>2, <3>3, <3>4, <3>5 DEF Work
  <2> QED BY <1>1, <2>1, <2>2, <2>3, <2>4, <2>5 DEF Next, Caller
<1>2. CASE UNCHANGED vars
  BY <1>2, StutterKeeps
<1> QED BY <1>1, <1>2

\* At every moment a batch waits in the queue, is in one worker's hand, or has been merged, and
\* the counts and the slice are what the merged batches hold: the invariant of ParseTreeWith's pool.
THEOREM Inductive == Spec => []IInv
<1>1. Init => IInv
  BY InitHolds
<1>2. IInv /\ [Next]_vars => IInv'
  BY NextHolds
<1> QED BY <1>1, <1>2, PTL DEF Spec

-----------------------------------------------------------------------------
(* What the properties ask.                                                 *)

\* A sequence holds finitely many elements.
LEMMA RecordsFinite ==
  ASSUME NEW S, NEW s \in Seq(S) PROVE IsFiniteSet(Range(s))
<1>1. Len(s) \in Nat /\ DOMAIN s = 1..Len(s)
  OBVIOUS
<1>2. s \in Surjection(1..Len(s), Range(s))
  BY <1>1 DEF Surjection, Range
<1>3. IsFiniteSet(1..Len(s))
  BY <1>1, FS_Interval
<1> QED BY <1>2, <1>3, FS_Surjection

\* The records gathered, sorted.
LEMMA RetainedSorted ==
  ASSUME IInv, main # "plan"
  PROVE  /\ Range(records) \in SUBSET AllRecords /\ IsFiniteSet(Range(records))
         /\ records \in Seq(Range(records)) /\ IsInjective(records)
         /\ Range(records) = RetainedIn(Merged)
         /\ Len(InOrder(records)) = Cardinality(Range(records))
         /\ Placed(InOrder(records), Range(records), BeforeOn(Range(records)))
<1>1. records \in Seq(AllRecords) /\ IsInjective(records) /\ Range(records) = RetainedIn(Merged)
  BY DEF IInv, Typed, Gathered
<1> DEFINE S == Range(records)
<1>2. S \in SUBSET AllRecords /\ records \in Seq(S)
  BY <1>1 DEF Range
<1>3. IsFiniteSet(S)
  BY <1>1, RecordsFinite
<1>4. S = Range(records)
  OBVIOUS
<1> HIDE DEF S
<1>5. Placed(InOrder(records), S, BeforeOn(S)) /\ StrictOrder(S, BeforeOn(S))
  BY <1>1, <1>2, <1>3, <1>4, SortedIsPlaced, AreOrders
<1>6. Len(InOrder(records)) = Cardinality(S)
  BY <1>3, <1>5, PlacedCovers
<1> QED BY <1>1, <1>2, <1>3, <1>4, <1>5, <1>6

\* The invariant has the goroutines' places and the mutex's holder.
LEMMA HoldsTypes == IInv => TypeOK
<1> SUFFICES ASSUME IInv PROVE TypeOK
  OBVIOUS
<1>1. /\ main \in {"plan", "send", "closed", "done"} /\ lock \in Workers \cup {Free}
      /\ \A w \in Workers : worker[w].at \in Places
  BY DEF IInv, Typed
<1>2. \A w \in Workers : worker[w].at = "merge" <=> lock = w
  BY DEF IInv, Mutex, Shares
<1>3. ASSUME NEW f \in Selected PROVE plans[f].chunks \in 0..Len(Logs[f])
  <2>1. Len(Logs[f]) \in Nat
    BY ChunkFacts
  <2>2. plans[f].chunks \in {0, Len(Logs[f])}
    BY DEF IInv, Planned
  <2> QED BY <2>1, <2>2
<1> QED BY <1>1, <1>2, <1>3 DEF TypeOK, Places

\* The invariant balances what is returned.
LEMMA HoldsAccounts == IInv => AccountsBalance
<1> SUFFICES ASSUME IInv, outcome # Pending PROVE AccountsBalance
  BY DEF AccountsBalance
<1> DEFINE counts == [f \in Selected |-> plans[f].counts]
           kept == [f \in Selected |-> RetainedOf(f, Held(Merged, f))]
<1>1. main = "done" /\ outcome = Returned /\ Typed /\ Planned
  BY DEF IInv, Ended
<1>2. Merged \in SUBSET Batches
  BY DEF Merged
<1> HIDE DEF Merged
<1>3. \A f \in Selected : /\ plans[f].counts = CountsOf(f, Held(Merged, f))
                          /\ Held(Merged, f) \in SUBSET ChunksIn(f)
  BY <1>1, <1>2, HeldFacts DEF IInv, Accounts
<1>4. ASSUME NEW f \in Selected
      PROVE  /\ plans[f].counts \in [Counted -> Nat]
             /\ plans[f].counts.read = plans[f].counts.retained + plans[f].counts.excluded
             /\ IsFiniteSet(RetainedOf(f, Held(Merged, f)))
             /\ Cardinality(RetainedOf(f, Held(Merged, f))) = plans[f].counts.retained
  <2> DEFINE C == Held(Merged, f)
  <2>1. C \in SUBSET ChunksIn(f) /\ plans[f].counts = CountsOf(f, C)
    BY <1>3
  <2> HIDE DEF C
  <2>2. /\ CountsOf(f, C) \in [Counted -> Nat]
        /\ CountsOf(f, C).read = CountsOf(f, C).retained + CountsOf(f, C).excluded
        /\ IsFiniteSet(RetainedOf(f, C))
        /\ CountsOf(f, C).retained = Cardinality(RetainedOf(f, C))
    BY <2>1, CountsAreNumbers, CountsBalanceOf, PartsFinite, CountsShape
  <2> QED BY <2>1, <2>2 DEF C
<1>5. \A f, g \in Selected : f # g => kept[f] \cap kept[g] = {}
  <2> SUFFICES ASSUME NEW f \in Selected, NEW g \in Selected, f # g,
                      NEW r \in RetainedOf(f, Held(Merged, f)), r \in RetainedOf(g, Held(Merged, g))
               PROVE  FALSE
    OBVIOUS
  <2>1. r.file = f /\ r.file = g
    BY <1>3, RetainedInAll
  <2> QED BY <2>1
<1>6. \A f \in Selected : counts[f] = plans[f].counts /\ kept[f] = RetainedOf(f, Held(Merged, f))
  OBVIOUS
<1>7. counts \in [Selected -> [Counted -> Nat]]
  BY <1>4
<1>8. KeptOf(kept, Selected) = RetainedIn(Merged)
  BY DEF KeptOf, RetainedIn
<1>9. /\ outcome.total = Total(counts) /\ outcome.records = InOrder(records)
      /\ \A f \in Selected : outcome.files[f].counts = plans[f].counts
  BY <1>1 DEF Returned
<1> HIDE DEF counts, kept
<1>10. /\ Total(counts).read = Total(counts).retained + Total(counts).excluded
       /\ Total(counts).retained = Cardinality(KeptOf(kept, Selected))
  BY <1>4, <1>5, <1>6, <1>7, TotalAddsUp
<1>11. Len(InOrder(records)) = Total(counts).retained
  BY <1>1, <1>8, <1>10, RetainedSorted
<1> QED BY <1>4, <1>9, <1>10, <1>11 DEF AccountsBalance

\* What waits or is in hand is a batch, or nothing.
LEMMA WhatIsPooled ==
  ASSUME Typed, Planned, Queue, Hands
  PROVE  \A x \in Pooled : x \in Batches \/ (x = NoBatch /\ x \notin Batches)
<1>1. NoBatch \notin Batches
  BY BatchFacts
<1>2. \A w \in Workers : worker[w].batch \in Batches \/ worker[w].batch = NoBatch
  BY DEF Hands, HandHolds
<1> QED BY <1>1, <1>2 DEF Pooled, Queue

\* The chunks of the batches that would not open, and those of the others.
LEMMA UnopenedApart ==
  ASSUME Typed, Planned, Queue, Hands, main # "plan", NEW f \in Selected
  PROVE  /\ Unopened(f) = Held(missed, f)
         /\ Held(Batches \ missed, f) = Held(Batches, f) \ Unopened(f)
         /\ \A P \in SUBSET (Batches \ missed) : Held(P, f) \cap Unopened(f) = {}
<1>1. Unopened(f) = Held(missed, f)
  BY DEF Unopened, Held, Span
<1>2. missed \in SUBSET Batches /\ Batches \ missed \in SUBSET Batches
  BY DEF Queue
<1>3. /\ Held(missed, f) \cup Held(Batches \ missed, f) = Held(missed \cup (Batches \ missed), f)
      /\ Held(missed, f) \cap Held(Batches \ missed, f) = {}
  BY <1>2, HeldFacts
<1>4. missed \cup (Batches \ missed) = Batches
  BY <1>2
<1>5. \A P \in SUBSET (Batches \ missed) : Held(P, f) \subseteq Held(Batches \ missed, f)
  BY DEF Held
<1> QED BY <1>1, <1>3, <1>4, <1>5

\* The invariant accounts for the batches still to merge.
LEMMA HoldsInHand == IInv => NothingLostInHand
<1> SUFFICES ASSUME IInv, main \in {"send", "closed", "done"},
                    NEW f \in Selected, ~plans[f].failed
             PROVE  Plus(plans[f].counts, CountsOf(f, Held(Pooled, f) \ Unopened(f)))
                      = CountsOf(f, (1..Len(Logs[f])) \ Unopened(f))
  BY DEF NothingLostInHand, Held, Span, Pooled
<1> DEFINE P == (Pooled \cap Batches) \ missed
<1>1. Typed /\ Planned /\ Queue /\ Hands /\ main # "plan"
  BY DEF IInv
<1>2. Held(Pooled, f) \ Unopened(f) = Held(P, f)
  <2>1. \A x \in Pooled : x.file = f => x \in Batches
    <3>1. NoBatch.file = -1 /\ f \in Nat
      BY ChunkFacts DEF NoBatch
    <3> QED BY <1>1, <3>1, WhatIsPooled
  <2>2. Held(Pooled, f) = Held(P, f) \cup Held(Pooled \cap missed, f)
    BY <2>1, <1>1 DEF Held, Queue
  <2>3. Held(Pooled \cap missed, f) \subseteq Held(missed, f)
    BY DEF Held
  <2>4. P \in SUBSET (Batches \ missed)
    OBVIOUS
  <2>5. Held(missed, f) = Unopened(f) /\ Held(P, f) \cap Unopened(f) = {}
    BY <1>1, <2>4, UnopenedApart
  <2> QED BY <2>2, <2>3, <2>5
<1>3. /\ P \in SUBSET Batches /\ Merged \in SUBSET Batches
      /\ Merged \cup P = Batches \ missed /\ Merged \cap P = {}
  BY DEF Merged
<1> HIDE DEF P, Merged
<1>4. /\ Held(Merged, f) \cup Held(P, f) = Held(Batches \ missed, f)
      /\ Held(Merged, f) \cap Held(P, f) = {}
  BY <1>1, <1>3, HeldFacts
<1>5. Held(Batches \ missed, f) = (1..Len(Logs[f])) \ Unopened(f)
  <2>1. plans[f].chunks = Len(Logs[f])
    BY <1>1 DEF Planned
  <2>2. Held(Batches, f) = 1..Len(Logs[f])
    BY <1>1, <2>1, BatchFacts
  <2> QED BY <1>1, <2>2, UnopenedApart
<1>6. Held(Merged, f) \in SUBSET ChunksIn(f) /\ Held(P, f) \in SUBSET ChunksIn(f)
  BY <1>1, <1>3, HeldFacts
<1>7. plans[f].counts = CountsOf(f, Held(Merged, f))
  BY <1>1 DEF IInv, Accounts
<1>8. CountsOf(f, Held(Merged, f) \cup Held(P, f))
        = Plus(CountsOf(f, Held(Merged, f)), CountsOf(f, Held(P, f)))
  BY <1>4, <1>6, CountsAdd
<1> QED BY <1>2, <1>4, <1>5, <1>7, <1>8

\* However many workers there are, however the logs are cut and in whatever order the batches
\* finish, no count is lost between two workers or taken twice, and the counts of ParseTreeWith's
\* result balance, file by file, in total and against the records it returns.
THEOREM PoolCounts == Spec => []CountsBalance
<1>1. IInv => CountsBalance
  BY HoldsTypes, HoldsAccounts, HoldsInHand DEF CountsBalance
<1> QED BY <1>1, Inductive, PTL

\* Once every worker has returned, every batch has been merged but those that would not open.
LEMMA AllMergedButUnopened ==
  ASSUME IInv, main # "plan", batches = <<>>, \A w \in Workers : worker[w].at = "exited"
  PROVE  Merged = Batches \ missed
<1>1. Typed /\ Planned /\ Queue /\ Hands
  BY DEF IInv
<1>2. \A w \in Workers : worker[w].batch = NoBatch
  BY <1>1 DEF Hands, HandHolds, InHand
<1>3. Pooled \subseteq {NoBatch} /\ NoBatch \notin Batches
  BY <1>1, <1>2, RangeOfEmpty, BatchFacts DEF Pooled
<1> QED BY <1>3 DEF Merged

\* Whatever opens and whatever does not, what ParseTreeWith's result leaves unsaid of a file it
\* does not report as failed is exactly the batches parseBatch could not open the file for.
THEOREM PoolSilence == Spec => []UnreadIsUnopened
<1>1. IInv => UnreadIsUnopened
  <2> SUFFICES ASSUME IInv, outcome # Pending, NEW f \in Selected, ~outcome.files[f].failed
               PROVE  outcome.files[f].counts = CountsOf(f, (1..Len(Logs[f])) \ Unopened(f))
    BY DEF UnreadIsUnopened
  <2>1. main = "done" /\ outcome = Returned /\ \A w \in Workers : worker[w].at = "exited"
    BY DEF IInv, Ended
  <2>2. /\ outcome.files[f].counts = plans[f].counts /\ outcome.files[f].failed = plans[f].failed
    BY <2>1 DEF Returned
  <2>3. Typed /\ Planned /\ Queue /\ Hands /\ batches = <<>>
    BY <2>1 DEF IInv, Queue
  <2>4. plans[f].counts = CountsOf(f, Held(Batches \ missed, f))
    <3>1. Merged = Batches \ missed
      BY <2>1, <2>3, AllMergedButUnopened
    <3> QED BY <2>1, <3>1 DEF IInv, Accounts
  <2>5. plans[f].chunks = Len(Logs[f])
    BY <2>1, <2>2 DEF IInv, Planned
  <2>6. Held(Batches, f) = 1..Len(Logs[f])
    BY <2>1, <2>3, <2>5, BatchFacts
  <2>7. Held(Batches \ missed, f) = (1..Len(Logs[f])) \ Unopened(f)
    BY <2>1, <2>3, <2>6, UnopenedApart
  <2> QED BY <2>2, <2>4, <2>7
<1> QED BY <1>1, Inductive, PTL

-----------------------------------------------------------------------------
(* The refinement of SequentialParse.                                       *)

ChunksRead(u, f) == IF f \in u THEN 0 ELSE Len(Logs[f])
Opened(u, f) == (1..ChunksRead(u, f)) \ Unopened(f)
AllOpened(u) == UNION {RetainedOf(f, Opened(u, f)) : f \in Selected}
InSequence(u) ==
  [files |-> [f \in Selected |-> [failed |-> f \in u, chunks |-> ChunksRead(u, f),
                                  counts |-> CountsOf(f, Opened(u, f))]],
   skipped |-> Paths \ Selected,
   total |-> Total([f \in Selected |-> CountsOf(f, Opened(u, f))]),
   records |-> InOrder(Ordered(AllOpened(u), OneLogAfterAnother))]

\* SequentialParse is about the same logs.
LEMMA SameSelected == AsIfSequential!Selected = Selected
BY DEF AsIfSequential!Selected, Selected

\* SequentialParse counts as EventLogParse does.
LEMMA SameCounts ==
  ASSUME NEW f, NEW S
  PROVE  AsIfSequential!CountsOf(f, S) = CountsOf(f, S)
BY DEF AsIfSequential!CountsOf, CountsOf, AsIfSequential!ReadOf, ReadOf,
       AsIfSequential!Parsed, Parsed, AsIfSequential!Cardinality, Cardinality

\* It retains what EventLogParse retains.
LEMMA SameRetained ==
  ASSUME NEW f, NEW S
  PROVE  AsIfSequential!RetainedOf(f, S) = RetainedOf(f, S)
BY DEF AsIfSequential!RetainedOf, RetainedOf, AsIfSequential!ReadOf, ReadOf,
       AsIfSequential!Parsed, Parsed

\* It puts the logs one after another in the same order.
LEMMA SameOrdered ==
  ASSUME NEW S
  PROVE  AsIfSequential!Ordered(S, AsIfSequential!OneLogAfterAnother)
           = Ordered(S, OneLogAfterAnother)
BY DEF AsIfSequential!Ordered, Ordered, AsIfSequential!OneLogAfterAnother, OneLogAfterAnother,
       AsIfSequential!InLog, InLog, AsIfSequential!Cardinality, Cardinality

\* It sorts as EventLogParse does.
LEMMA SameInOrder ==
  ASSUME NEW s
  PROVE  AsIfSequential!InOrder(s) = InOrder(s)
BY DEF AsIfSequential!InOrder, InOrder, AsIfSequential!Before, Before,
       AsIfSequential!OneLogAfterAnother, OneLogAfterAnother, AsIfSequential!InLog, InLog,
       AsIfSequential!Cardinality, Cardinality

\* It sums the same logs' counts.
LEMMA SameTotal ==
  ASSUME NEW counts
  PROVE  AsIfSequential!Total(counts) = Total(counts)
BY DEF AsIfSequential!Total, Total, AsIfSequential!InPathOrder, InPathOrder,
       AsIfSequential!Plus, Plus, AsIfSequential!Counted, Counted, AsIfSequential!NoCounts, NoCounts,
       AsIfSequential!Ordered, Ordered, AsIfSequential!Selected, Selected,
       AsIfSequential!Cardinality, Cardinality

\* What SequentialParse returns, in the words of this module.
LEMMA SequentialIs ==
  ASSUME NEW u \in SUBSET Selected
  PROVE  AsIfSequential!Sequential(u) = InSequence(u)
<1> DEFINE chunks(f) == IF f \in u THEN 0 ELSE Len(Logs[f])
           read(f) == (1..chunks(f)) \ [g \in Selected |-> Unopened(g)][f]
           whole == UNION {AsIfSequential!RetainedOf(f, read(f)) : f \in AsIfSequential!Selected}
           counts == [f \in AsIfSequential!Selected |-> AsIfSequential!CountsOf(f, read(f))]
           its == [files |-> [f \in AsIfSequential!Selected |->
                                [failed |-> f \in u, chunks |-> chunks(f), counts |-> counts[f]]],
                   skipped |-> Paths \ AsIfSequential!Selected,
                   total |-> AsIfSequential!Total(counts),
                   records |-> AsIfSequential!InOrder(
                     AsIfSequential!Ordered(whole, AsIfSequential!OneLogAfterAnother))]
<1>1. AsIfSequential!Sequential(u) = its
  BY SameSelected DEF AsIfSequential!Sequential
<1>2. \A f \in Selected : chunks(f) = ChunksRead(u, f) /\ read(f) = Opened(u, f)
  BY DEF ChunksRead, Opened
<1> HIDE DEF chunks, read
<1>3. counts = [f \in Selected |-> CountsOf(f, Opened(u, f))]
  BY <1>2, SameSelected, SameCounts
<1>4. whole = AllOpened(u)
  <2>1. \A f \in Selected : AsIfSequential!RetainedOf(f, read(f)) = RetainedOf(f, Opened(u, f))
    BY <1>2, SameRetained
  <2> QED BY <2>1, SameSelected DEF AllOpened
<1> HIDE DEF whole, counts
<1>5. /\ AsIfSequential!Total(counts) = Total(counts)
      /\ AsIfSequential!Ordered(whole, AsIfSequential!OneLogAfterAnother)
           = Ordered(whole, OneLogAfterAnother)
  BY SameTotal, SameOrdered
<1>6. AsIfSequential!InOrder(Ordered(whole, OneLogAfterAnother))
        = InOrder(Ordered(whole, OneLogAfterAnother))
  BY SameInOrder
<1>7. \A f \in Selected : counts[f] = CountsOf(f, Opened(u, f))
  BY <1>3
<1>8. [f \in AsIfSequential!Selected |->
         [failed |-> f \in u, chunks |-> chunks(f), counts |-> counts[f]]]
        = InSequence(u).files
  BY <1>2, <1>7, SameSelected DEF InSequence
<1>9. Total(counts) = InSequence(u).total
  BY <1>3 DEF InSequence
<1>10. InOrder(Ordered(whole, OneLogAfterAnother)) = InSequence(u).records
  BY <1>4 DEF InSequence
<1>11. Paths \ AsIfSequential!Selected = InSequence(u).skipped
  BY SameSelected DEF InSequence
<1>12. InSequence(u) = [files |-> InSequence(u).files, skipped |-> InSequence(u).skipped,
                        total |-> InSequence(u).total, records |-> InSequence(u).records]
  BY DEF InSequence
<1> QED BY <1>1, <1>5, <1>6, <1>8, <1>9, <1>10, <1>11, <1>12

\* What the pool returns is what reading the logs one after another returns where the same
\* opens fail.
LEMMA AssembleReturns ==
  ASSUME IInv, Assemble
  PROVE  Returned = InSequence({f \in Selected : plans[f].failed})
<1> DEFINE u == {f \in Selected : plans[f].failed}
           S == AllOpened(u)
           p == Ordered(S, OneLogAfterAnother)
<1>1. /\ main # "plan" /\ batches = <<>> /\ Typed /\ Planned /\ Hands /\ Queue
      /\ \A f \in Selected : plans[f].done
      /\ \A w \in Workers : worker[w].at = "exited"
  BY DEF IInv, Assemble, Queue, Planned
<1>2. Merged = Batches \ missed
  BY <1>1, AllMergedButUnopened
<1>3. \A f \in Selected : /\ plans[f].chunks = ChunksRead(u, f)
                          /\ plans[f].failed = (f \in u)
  <2>1. \A f \in Selected : plans[f].failed \in BOOLEAN
    BY <1>1 DEF Typed, Plan
  <2> QED BY <1>1, <2>1 DEF Planned, ChunksRead
<1>4. /\ Range(records) \in SUBSET AllRecords /\ IsFiniteSet(Range(records))
      /\ Range(records) = RetainedIn(Merged)
      /\ Placed(InOrder(records), Range(records), BeforeOn(Range(records)))
  BY <1>1, RetainedSorted
<1> HIDE DEF u
<1>5. \A f \in Selected : Held(Merged, f) = Opened(u, f)
  <2>1. \A f \in Selected : Held(Batches, f) = 1..ChunksRead(u, f)
    BY <1>1, <1>3, BatchFacts
  <2>2. \A f \in Selected : Held(Batches \ missed, f) = Held(Batches, f) \ Unopened(f)
    BY <1>1, UnopenedApart
  <2> QED BY <1>2, <2>1, <2>2 DEF Opened
<1>6. /\ Range(records) = S
      /\ \A f \in Selected : plans[f].counts = CountsOf(f, Opened(u, f))
  <2>1. RetainedIn(Merged) = AllOpened(u)
    BY <1>5 DEF RetainedIn, AllOpened
  <2> QED BY <1>1, <1>4, <1>5, <2>1 DEF IInv, Accounts
<1>7. S \in SUBSET AllRecords /\ IsFiniteSet(S) /\ Placed(InOrder(records), S, BeforeOn(S))
  BY <1>4, <1>6
<1>8. p = Ordered(S, OneLogAfterAnother)
  OBVIOUS
<1> HIDE DEF S, p
<1>9. StrictOrder(S, FirstLogOn(S)) /\ StrictOrder(S, BeforeOn(S))
  BY <1>7, AreOrders
<1>10. Placed(p, S, FirstLogOn(S))
  BY <1>7, <1>8, <1>9, OrderedByLog
<1>11. p \in Seq(S) /\ IsInjective(p) /\ Range(p) = S
  BY <1>7, <1>9, <1>10, PlacedCovers
<1>12. Placed(InOrder(p), S, BeforeOn(S))
  BY <1>7, <1>11, SortedIsPlaced
<1>13. InOrder(records) = InOrder(p)
  BY <1>7, <1>9, <1>12, PlacedOnce
<1>14. InOrder(records) = InOrder(Ordered(AllOpened(u), OneLogAfterAnother))
  BY <1>8, <1>13 DEF S
<1>15. [f \in Selected |-> plans[f].counts] = [f \in Selected |-> CountsOf(f, Opened(u, f))]
  BY <1>6
<1>16. [f \in Selected |-> [failed |-> plans[f].failed, chunks |-> plans[f].chunks,
                            counts |-> plans[f].counts]]
        = [f \in Selected |-> [failed |-> f \in u, chunks |-> ChunksRead(u, f),
                               counts |-> CountsOf(f, Opened(u, f))]]
  BY <1>3, <1>6
<1>17. Returned = InSequence(u)
  BY <1>14, <1>15, <1>16 DEF Returned, InSequence
<1> QED BY <1>17 DEF u

\* The chunks that would not open change by what is missed alone.
LEMMA UnopenedStays ==
  ASSUME missed' = missed
  PROVE  \A f \in Selected : Unopened(f)' = Unopened(f)
BY DEF Unopened

\* A batch whose file does not open again is a part of that file that does not open again.
LEMMA MissVanishes ==
  ASSUME IInv, NEW w \in Workers, ParseBatch(w, FALSE)
  PROVE  AsIfSequential!Vanish
<1> DEFINE b == worker[w].batch
           f == b.file
<1>1. worker[w].at = "parse" /\ "parse" \in MayVanish /\ missed' = missed \cup {b}
      /\ UNCHANGED outcome
  BY DEF ParseBatch
<1>2. Typed /\ Planned /\ HandHolds(w) /\ main # "done"
  BY <1>1 DEF IInv, Hands, Ended
<1>3. outcome = Pending
  BY <1>2 DEF IInv, Ended
<1>4. b \in Batches
  BY <1>1, <1>2 DEF HandHolds, InHand
<1>5. f \in Selected /\ Span(b) \subseteq 1..Len(Logs[f])
  BY <1>2, <1>4, BatchFacts DEF ChunksIn
<1> HIDE DEF b
<1>6. \A g \in Selected :
        Unopened(g)' = IF g = f THEN Unopened(g) \cup Span(b) ELSE Unopened(g)
  <2> SUFFICES ASSUME NEW g \in Selected
               PROVE  Unopened(g)' = IF g = f THEN Unopened(g) \cup Span(b) ELSE Unopened(g)
    OBVIOUS
  <2>1. Unopened(g)' = UNION {c.from..c.to : c \in {d \in missed \cup {b} : d.file = g}}
    BY <1>1 DEF Unopened
  <2>2. CASE g = f
    <3>1. {d \in missed \cup {b} : d.file = g} = {d \in missed : d.file = g} \cup {b}
      BY <2>2
    <3> QED BY <2>1, <2>2, <3>1 DEF Unopened, Span
  <2>3. CASE g # f
    <3>1. {d \in missed \cup {b} : d.file = g} = {d \in missed : d.file = g}
      BY <2>3
    <3> QED BY <2>1, <2>3, <3>1 DEF Unopened
  <2> QED BY <2>2, <2>3
<1>7. [g \in Selected |-> Unopened(g)']
        = [[g \in Selected |-> Unopened(g)] EXCEPT ![f] = @ \cup Span(b)]
  BY <1>5, <1>6
<1>8. Span(b) \in SUBSET (1..Len(Logs[f])) /\ f \in AsIfSequential!Selected
  BY <1>5, SameSelected
<1> HIDE DEF f
<1> QED BY <1>1, <1>3, <1>7, <1>8 DEF AsIfSequential!Vanish, AsIfSequential!Pending, Pending

\* A step of the pool is a step of SequentialParse, or is not seen by it.
LEMMA StepReturns ==
  ASSUME IInv, [Next]_vars
  PROVE  [AsIfSequential!Next]_<<outcome, [f \in Selected |-> Unopened(f)]>>
<1>1. CASE UNCHANGED <<outcome, missed>>
  BY <1>1, UnopenedStays
<1>2. CASE Assemble
  <2> DEFINE u == {f \in Selected : plans[f].failed}
  <2>1. outcome = Pending /\ outcome' = Returned /\ missed' = missed
    BY <1>2 DEF IInv, Ended, Assemble, Returned
  <2>2. outcome' = AsIfSequential!Sequential(u)
    <3>1. u \in SUBSET Selected /\ Returned = InSequence(u)
      BY <1>2, AssembleReturns
    <3> HIDE DEF u
    <3> QED BY <2>1, <3>1, SequentialIs
  <2>3. u \in IF "plan" \in MayVanish THEN SUBSET AsIfSequential!Selected ELSE {{}}
    BY SameSelected DEF IInv, Planned
  <2>4. Returned # <<>>
    <3>1. "total" \in DOMAIN Returned
      BY DEF Returned
    <3>2. DOMAIN <<>> = {}
      OBVIOUS
    <3> QED BY <3>1, <3>2
  <2>5. [f \in Selected |-> Unopened(f)'] = [f \in Selected |-> Unopened(f)]
    BY <2>1, UnopenedStays
  <2> HIDE DEF u
  <2>6. AsIfSequential!Parse
    BY <2>1, <2>2, <2>3, <2>4, <2>5 DEF AsIfSequential!Parse, AsIfSequential!Pending, Pending
  <2> QED BY <2>6 DEF AsIfSequential!Next
<1>3. CASE \E w \in Workers : ParseBatch(w, FALSE)
  BY <1>3, MissVanishes DEF AsIfSequential!Next
<1>4. Next => \/ Assemble \/ UNCHANGED <<outcome, missed>>
              \/ \E w \in Workers : ParseBatch(w, FALSE)
  <2>1. Caller => Assemble \/ UNCHANGED <<outcome, missed>>
    BY DEF Caller, PlanFile, Start, Close
  <2>2. \A w \in Workers : ParseBatch(w, TRUE) => UNCHANGED <<outcome, missed>>
    BY DEF ParseBatch
  <2>3. \A w \in Workers : Receive(w) \/ Take(w) \/ Merge(w) \/ Exit(w)
          => UNCHANGED <<outcome, missed>>
    BY DEF Receive, Take, Merge, Exit
  <2> QED BY <2>1, <2>2, <2>3 DEF Next, Work
<1> QED BY <1>1, <1>2, <1>3, <1>4 DEF vars

\* Whatever opens and whatever does not, ParseTreeWith's pool does what reading the logs one
\* after another does where the same opens fail: a batch that does not open leaves out its own
\* chunks and nothing else, and what is returned is what the rest gives, once.
THEOREM AsSequential ==
  Spec => /\ AsIfSequential!Init
          /\ [][AsIfSequential!Next]_<<outcome, [f \in Selected |-> Unopened(f)]>>
<1>1. Init => AsIfSequential!Init
  <2> SUFFICES ASSUME Init PROVE AsIfSequential!Init
    OBVIOUS
  <2>1. \A f \in Selected : Unopened(f) = {}
    BY DEF Init, Unopened
  <2> QED BY <2>1, SameSelected DEF Init, AsIfSequential!Init, AsIfSequential!Pending, Pending
<1>2. IInv /\ [Next]_vars => [AsIfSequential!Next]_<<outcome, [f \in Selected |-> Unopened(f)]>>
  BY StepReturns
<1> QED BY <1>1, <1>2, Inductive, PTL DEF Spec
=============================================================================
