-------------------------- MODULE LeaderboardProofs --------------------------
(***************************************************************************)
(* Proofs about Leaderboard, for any number of submissions, evaluations    *)
(* and seconds: the index is a fair ranking, what the deduplication leaves *)
(* of contamination is in the log, every link leads to a page, and no      *)
(* deployment takes the site back.                                         *)
(***************************************************************************)
EXTENDS Leaderboard, RubricProofs, FiniteSetTheorems, WellFoundedInduction

-----------------------------------------------------------------------------
(* Numbers and paths *)

LEMMA LeastNumber ==
  ASSUME NEW S \in SUBSET Nat, S # {}
  PROVE  \E i \in S : \A j \in S : i <= j
<1> DEFINE R == OpToRel(<, Nat)
<1>1. IsWellFoundedOn(R, Nat)  BY NatLessThanWellFounded
<1>2. \A i, j \in Nat : <<j, i>> \in R <=> j < i  BY DEF OpToRel
<1> HIDE DEF R
<1>3. PICK i \in S : \A j \in S : <<j, i>> \notin R  BY <1>1, WFMin
<1>4. ASSUME NEW j \in S PROVE i <= j
  <2>1. i \in Nat /\ j \in Nat  OBVIOUS
  <2>2. ~(j < i)  BY <1>2, <1>3, <2>1
  <2>3. QED  BY <2>1, <2>2
<1>5. QED  BY <1>4

LEMMA GreatestNumber ==
  ASSUME NEW n \in Nat, NEW S \in SUBSET (0 .. n), S # {}
  PROVE  \E i \in S : \A j \in S : j <= i
<1> DEFINE T == {k \in Nat : n - k \in S}
<1>1. \A i \in S : n - i \in T /\ n - (n - i) = i  OBVIOUS
<1>2. T \in SUBSET Nat /\ T # {}  BY <1>1
<1>3. PICK k \in T : \A m \in T : k <= m
  <2> HIDE DEF T
  <2>1. QED  BY <1>2, LeastNumber
<1>4. ASSUME NEW j \in S PROVE j <= n - k
  <2>1. n - j \in T /\ j \in Nat  BY <1>1
  <2>2. k <= n - j  BY <1>3, <2>1
  <2>3. QED  BY <2>1, <2>2
<1>5. QED  BY <1>4

LEMMA PathType ==
  ASSUME NEW p \in Paths
  PROVE  /\ p.top \in Nat /\ p.dir \in Nat /\ p.dir \in 0 .. MaxClock + 1
<1>1. p.top \in Submissions /\ p.dir \in Times \cup {Flat}  BY DEF Paths
<1>2. p.dir \in 0 .. MaxClock \/ p.dir = MaxClock + 1  BY <1>1 DEF Times, Flat
<1>3. MaxClock \in Nat /\ Submissions \subseteq Nat  BY LeaderboardAssumption
<1>4. p.top \in Nat  BY <1>1, <1>3
<1>5. p.dir \in Nat /\ p.dir \in 0 .. MaxClock + 1  BY <1>2, <1>3
<1>6. QED  BY <1>4, <1>5

LEMMA SamePath ==
  ASSUME NEW p \in Paths, NEW q \in Paths, p.top = q.top, p.dir = q.dir
  PROVE  p = q
BY DEF Paths

(* Paths are sorted. *)
LEMMA SortsBeforeIsAnOrder ==
  /\ \A p \in Paths : ~ SortsBefore(p, p)
  /\ \A p, q \in Paths : p # q => SortsBefore(p, q) \/ SortsBefore(q, p)
  /\ \A p, q, s \in Paths : SortsBefore(p, q) /\ SortsBefore(q, s) => SortsBefore(p, s)
<1>1. ASSUME NEW p \in Paths PROVE ~ SortsBefore(p, p)
  BY PathType DEF SortsBefore
<1>2. ASSUME NEW p \in Paths, NEW q \in Paths, p # q
      PROVE  SortsBefore(p, q) \/ SortsBefore(q, p)
  <2>1. /\ p.top \in Nat /\ p.dir \in Nat /\ q.top \in Nat /\ q.dir \in Nat
        /\ ~(p.top = q.top /\ p.dir = q.dir)
    BY <1>2, PathType, SamePath
  <2>2. QED  BY <2>1 DEF SortsBefore
<1>3. ASSUME NEW p \in Paths, NEW q \in Paths, NEW s \in Paths,
             SortsBefore(p, q), SortsBefore(q, s)
      PROVE  SortsBefore(p, s)
  <2>1. /\ p.top \in Nat /\ p.dir \in Nat /\ q.top \in Nat /\ q.dir \in Nat
        /\ s.top \in Nat /\ s.dir \in Nat
    BY PathType
  <2>2. QED  BY <1>3, <2>1 DEF SortsBefore
<1>4. QED  BY <1>1, <1>2, <1>3

(* Of some paths one is first. *)
LEMMA FirstPath ==
  ASSUME NEW P \in SUBSET Paths, P # {}
  PROVE  \E p \in P : \A q \in P : ~ SortsBefore(q, p)
<1> DEFINE tops == {p.top : p \in P}
<1>1. tops \in SUBSET Nat /\ tops # {}  BY PathType
<1>2. PICK top \in tops : \A t \in tops : top <= t
  <2> HIDE DEF tops
  <2>1. QED  BY <1>1, LeastNumber
<1> DEFINE dirs == {p.dir : p \in {q \in P : q.top = top}}
<1>3. dirs \in SUBSET Nat /\ dirs # {}  BY <1>2, PathType
<1>4. PICK dir \in dirs : \A d \in dirs : dir <= d
  <2> HIDE DEF dirs
  <2>1. QED  BY <1>3, LeastNumber
<1>5. PICK p \in P : p.top = top /\ p.dir = dir  BY <1>4
<1>6. ASSUME NEW q \in P PROVE ~ SortsBefore(q, p)
  <2>1. p.top \in Nat /\ p.dir \in Nat /\ q.top \in Nat /\ q.dir \in Nat  BY PathType
  <2>2. p.top <= q.top  BY <1>2, <1>5
  <2>3. q.top = p.top => p.dir <= q.dir  BY <1>4, <1>5
  <2>4. QED  BY <2>1, <2>2, <2>3 DEF SortsBefore
<1>7. QED  BY <1>6

LEMMA PathsAreFinite == IsFiniteSet(Paths)
<1> DEFINE dirs == Times \cup {Flat}
           f == [p \in Paths |-> <<p.top, p.dir>>]
<1>1. IsFiniteSet(dirs)
  <2>1. dirs \subseteq 0 .. MaxClock + 1  BY LeaderboardAssumption DEF Times, Flat
  <2>2. IsFiniteSet(0 .. MaxClock + 1)
    <3>1. 0 \in Int /\ MaxClock + 1 \in Int  BY LeaderboardAssumption
    <3>2. QED  BY <3>1, FS_Interval
  <2>3. QED  BY <2>1, <2>2, FS_Subset
<1>2. IsFiniteSet(Submissions)  BY LeaderboardAssumption
<1> HIDE DEF dirs
<1>3. IsFiniteSet(Submissions \X dirs)  BY <1>1, <1>2, FS_Product
<1>4. f \in Injection(Paths, Submissions \X dirs)
  <2>1. Paths = [top : Submissions, dir : dirs]  BY DEF Paths, dirs
  <2>2. f \in [Paths -> Submissions \X dirs]  BY <2>1
  <2>3. ASSUME NEW p \in Paths, NEW q \in Paths, f[p] = f[q] PROVE p = q
    <3>1. p.top = q.top /\ p.dir = q.dir  BY <2>3
    <3>2. QED  BY <2>1, <3>1
  <2>4. QED  BY <2>2, <2>3 DEF Injection, IsInjective
<1> HIDE DEF f
<1>5. QED  BY <1>3, <1>4, FS_Injection

-----------------------------------------------------------------------------
(* Records *)

(* A verdict that says "out" comes with the score 0, and a cap of 0 with   *)
(* such a verdict.                                                         *)
Out == {"DISQUALIFIED", "CONTAMINATED", "FAILED"}

Sound(r) ==
  /\ r.verdict \in Out => r.final = 0
  /\ (\E k \in r.applied : k.cap = DQ_VALUE) => r.verdict \in Out

(* The files of a checkout. *)
Files(files) ==
  /\ DOMAIN files \subseteq Paths
  /\ \A p \in DOMAIN files :
       files[p] \in {Garbage, Broken} \/ (files[p] \in Report /\ Sound(files[p]))

(* What is needed of some records to rank their harnesses. *)
Listable(R) ==
  /\ IsFiniteSet(R)
  /\ \A r \in R : /\ r.path \in Paths /\ r.id \in Times /\ r.final \in Nat
                  /\ harness_name(r) \in Int
  /\ \A r, s \in R : r.path = s.path => r = s

LEMMA NamesAreNumbers ==
  ASSUME NEW p \in Paths, NEW report \in Report
  PROVE  harness_name(Record(p, report)) \in Int
<1> DEFINE r == Record(p, report)
<1>1. r.name = report.name /\ r.path = p /\ r.id = report.id  BY DEF Record
<1>2. report.name \in Submissions \cup {NoName}  BY DEF Report
<1>3. p.top \in Nat /\ p.dir \in Nat  BY PathType
<1>4. report.name # NoName => report.name \in Nat
  BY <1>2, LeaderboardAssumption
<1>5. DirName(p.dir) \in Int  BY <1>3, LeaderboardAssumption DEF DirName
<1>6. harness_name(r) = IF report.name # NoName THEN report.name
                        ELSE IF p.dir \in {report.id, Flat} THEN p.top ELSE DirName(p.dir)
  BY <1>1 DEF harness_name
<1> HIDE DEF r
<1>7. harness_name(r) \in Int
  <2>1. CASE report.name # NoName  BY <1>4, <1>6, <2>1
  <2>2. CASE report.name = NoName  BY <1>3, <1>5, <1>6, <2>2
  <2>3. QED  BY <2>1, <2>2
<1>8. QED  BY <1>7 DEF r

(* A record is that of the file at its path. *)
LEMMA RecordOf ==
  ASSUME NEW files, Files(files), NEW r \in Records(files)
  PROVE  /\ r.path \in DOMAIN files /\ r.path \in Paths
         /\ files[r.path] \in Report /\ Sound(files[r.path])
         /\ r = Record(r.path, files[r.path])
<1>1. PICK p \in DOMAIN files : files[p] \notin {Garbage, Broken} /\ r = Record(p, files[p])
  BY DEF Records
<1>2. r.path = p  BY <1>1 DEF Record
<1>3. QED  BY <1>1, <1>2 DEF Files

LEMMA RecordType ==
  ASSUME NEW files, Files(files), NEW r \in Records(files)
  PROVE  /\ r.id \in Times /\ r.final \in Nat /\ harness_name(r) \in Int
         /\ Sound(r)
<1>1. /\ r.path \in Paths /\ files[r.path] \in Report /\ Sound(files[r.path])
      /\ r = Record(r.path, files[r.path])
  BY RecordOf
<1> DEFINE report == files[r.path]
<1>2. report.id \in Times /\ report.final \in 0 .. FullScore  BY <1>1 DEF Report
<1>3. report.final \in Nat
  <2>1. FullScore \in Nat  BY DEF FullScore, Point, QuarterPoints
  <2> HIDE DEF report
  <2>2. QED  BY <1>2, <2>1
<1>4. /\ r.id = report.id /\ r.final = report.final /\ r.verdict = report.verdict
      /\ r.applied = report.applied
  BY <1>1 DEF Record
<1>5. harness_name(r) \in Int  BY <1>1, NamesAreNumbers
<1>6. QED  BY <1>1, <1>2, <1>3, <1>4, <1>5 DEF Sound

LEMMA RecordsAreListable ==
  ASSUME NEW files, Files(files)
  PROVE  Listable(Records(files))
<1> DEFINE R == Records(files)
           f == [r \in R |-> r.path]
<1>1. \A r, s \in R : r.path = s.path => r = s  BY RecordOf
<1>2. f \in Injection(R, Paths)
  <2>1. f \in [R -> Paths]  BY RecordOf
  <2>2. QED  BY <1>1, <2>1 DEF Injection, IsInjective
<1> HIDE DEF f
<1>3. IsFiniteSet(R)  BY <1>2, PathsAreFinite, FS_Injection
<1>4. QED  BY <1>1, <1>3, RecordOf, RecordType DEF Listable

LEMMA LoadedAreListable ==
  ASSUME NEW files, Files(files)
  PROVE  /\ load_reports(files) \subseteq Records(files)
         /\ Listable(load_reports(files))
<1>1. load_reports(files) \subseteq Records(files)  BY DEF load_reports
<1>2. Listable(Records(files))  BY RecordsAreListable
<1>3. IsFiniteSet(load_reports(files))
  BY <1>1, <1>2, FS_Subset DEF Listable
<1>4. QED  BY <1>1, <1>2, <1>3 DEF Listable

(* Of the records of one evaluation the first in path order is loaded. *)
LEMMA FirstIsLoaded ==
  ASSUME NEW files, Files(files), NEW r \in Records(files)
  PROVE  \E s \in load_reports(files) :
           /\ harness_key(s) = harness_key(r) /\ s.id = r.id
           /\ s = r \/ SortsBefore(s.path, r.path)
<1> DEFINE copies == {s \in Records(files) : harness_key(s) = harness_key(r) /\ s.id = r.id}
           P == {s.path : s \in copies}
<1>1. P \in SUBSET Paths /\ P # {}  BY RecordOf
<1>2. PICK p \in P : \A q \in P : ~ SortsBefore(q, p)
  <2> HIDE DEF P
  <2>1. QED  BY <1>1, FirstPath
<1>3. PICK s \in copies : s.path = p  BY <1>2
<1>4. ASSUME NEW t \in Records(files), harness_key(t) = harness_key(s), t.id = s.id
      PROVE  ~ SortsBefore(t.path, s.path)
  <2>1. t \in copies  BY <1>3, <1>4
  <2>2. t.path \in P  BY <2>1
  <2>3. QED  BY <1>2, <1>3, <2>2
<1>5. s \in load_reports(files)  BY <1>3, <1>4 DEF load_reports, SameEvaluation
<1>6. s = r \/ SortsBefore(s.path, r.path)
  <2>1. ~ SortsBefore(r.path, s.path)  BY <1>3, <1>4
  <2>2. s \in Records(files) /\ s.path \in Paths /\ r.path \in Paths  BY <1>3, RecordOf
  <2>3. s.path = r.path => s = r  BY <2>2, RecordOf
  <2>4. QED  BY <2>1, <2>2, <2>3, SortsBeforeIsAnOrder
<1>7. QED  BY <1>3, <1>5, <1>6

(* What is not dropped for another judgement is loaded, itself or a copy. *)
LEMMA CopyIsLoaded ==
  ASSUME NEW files, Files(files), NEW r \in Records(files),
         ~ DroppedForAnother(r, Records(files))
  PROVE  \E v \in load_reports(files) : IsCopyOf(v, r)
<1>1. PICK v \in load_reports(files) :
        /\ harness_key(v) = harness_key(r) /\ v.id = r.id
        /\ v = r \/ SortsBefore(v.path, r.path)
  BY FirstIsLoaded
<1>2. CASE v = r
  <2>1. r = Record(r.path, files[r.path])  BY RecordOf
  <2>2. r = [r EXCEPT !.path = r.path]  BY <2>1 DEF Record
  <2>3. QED  BY <1>1, <1>2, <2>2 DEF IsCopyOf
<1>3. CASE SortsBefore(v.path, r.path)
  <2>1. v \in Records(files)  BY <1>1, LoadedAreListable
  <2>2. QED  BY <1>1, <1>3, <2>1 DEF DroppedForAnother, SameEvaluation
<1>4. QED  BY <1>1, <1>2, <1>3

(* A copy is a record of the same report. *)
LEMMA CopyFacts ==
  ASSUME NEW files, Files(files), NEW r \in Records(files), NEW v, IsCopyOf(v, r)
  PROVE  v.verdict = r.verdict /\ v.applied = r.applied
<1>1. r = Record(r.path, files[r.path])  BY RecordOf
<1>2. v = [Record(r.path, files[r.path]) EXCEPT !.path = v.path]  BY <1>1 DEF IsCopyOf
<1>3. /\ v.verdict = Record(r.path, files[r.path]).verdict
      /\ v.applied = Record(r.path, files[r.path]).applied
  BY <1>2 DEF Record
<1>4. QED  BY <1>1, <1>3

-----------------------------------------------------------------------------
(* Histories *)

(* The newest evaluation is one of the harness, and no other is newer; the *)
(* first path is that of one of its evaluations.                           *)
LEMMA HistoryFacts ==
  ASSUME NEW R, Listable(R), NEW h \in Histories(R)
  PROVE  /\ h = History(R, h.key)
         /\ h.evaluations = EvaluationsOf(R, h.key)
         /\ h.latest \in R /\ harness_key(h.latest) = h.key
         /\ \A r \in R : harness_key(r) = h.key => r.id <= h.latest.id
         /\ h.latest.final \in Nat /\ h.key[1] \in Int
         /\ \E r \in R : harness_key(r) = h.key /\ r.path = h.first
<1>1. PICK r0 \in R : h = History(R, harness_key(r0))  BY DEF Histories
<1> DEFINE key == harness_key(r0)
           own == EvaluationsOf(R, key)
<1>2. h.key = key /\ h.evaluations = own /\ h.latest = LatestOf(R, key) /\ h.first = FirstOf(R, key)
  BY <1>1 DEF History
<1>3. h = History(R, h.key)  BY <1>1, <1>2
<1>4. r0 \in own  BY DEF EvaluationsOf
<1>5. /\ h.latest \in R /\ harness_key(h.latest) = key
      /\ \A r \in R : harness_key(r) = key => r.id <= h.latest.id
  <2> DEFINE ids == {r.id : r \in own}
  <2>1. ids \in SUBSET (0 .. MaxClock) /\ ids # {}
    BY <1>4 DEF Listable, EvaluationsOf, Times
  <2>2. MaxClock \in Nat  BY LeaderboardAssumption
  <2>3. PICK i \in ids : \A j \in ids : j <= i
    <3> HIDE DEF ids
    <3>1. QED  BY <2>1, <2>2, GreatestNumber
  <2>4. PICK r \in own : r.id = i  BY <2>3
  <2>5. \A s \in R : harness_key(s) = key => s.id <= r.id
    BY <2>3, <2>4 DEF EvaluationsOf
  <2>6. r \in R /\ harness_key(r) = key  BY <2>4 DEF EvaluationsOf
  <2> HIDE DEF key
  <2>7. QED  BY <1>2, <2>5, <2>6 DEF LatestOf
<1>6. \E r \in R : harness_key(r) = key /\ r.path = h.first
  <2> DEFINE P == {r.path : r \in own}
  <2>1. P \in SUBSET Paths /\ P # {}  BY <1>4 DEF Listable, EvaluationsOf
  <2>2. \E p \in P : \A q \in P : ~ SortsBefore(q, p)
    <3> HIDE DEF P
    <3>1. QED  BY <2>1, FirstPath
  <2>3. \E p \in P : \A r \in own : ~ SortsBefore(r.path, p)  BY <2>2
  <2>4. FirstOf(R, key) \in P  BY <2>3 DEF FirstOf
  <2>5. QED  BY <1>2, <2>4 DEF EvaluationsOf
<1>7. h.latest.final \in Nat  BY <1>5 DEF Listable
<1>8. h.key[1] \in Int
  <2>1. key[1] = harness_name(r0)  BY DEF harness_key
  <2>2. QED  BY <1>2, <2>1 DEF Listable
<1>9. QED  BY <1>2, <1>3, <1>5, <1>6, <1>7, <1>8

LEMMA HistoryOfRecord ==
  ASSUME NEW R, NEW r \in R
  PROVE  \E h \in Histories(R) : h.key = harness_key(r)
<1>1. History(R, harness_key(r)) \in Histories(R)  BY DEF Histories
<1>2. QED  BY <1>1 DEF History

LEMMA OneHistoryPerKey ==
  ASSUME NEW R, Listable(R), NEW g \in Histories(R), NEW h \in Histories(R), g.key = h.key
  PROVE  g = h
BY HistoryFacts

LEMMA HistoriesAreFinite ==
  ASSUME NEW R, IsFiniteSet(R)
  PROVE  IsFiniteSet(Histories(R))
<1> DEFINE f == [r \in R |-> History(R, harness_key(r))]
<1>1. f \in Surjection(R, Histories(R))
  <2>1. f \in [R -> Histories(R)]  BY DEF Histories
  <2>2. \A h \in Histories(R) : \E r \in R : f[r] = h  BY DEF Histories
  <2>3. QED  BY <2>1, <2>2 DEF Surjection
<1> HIDE DEF f
<1>2. QED  BY <1>1, FS_Surjection

(* The order of the histories is strict and total. *)
StrictOrder(S) ==
  /\ \A g \in S : ~ RanksAbove(g, g)
  /\ \A g, h \in S : g # h => RanksAbove(g, h) \/ RanksAbove(h, g)
  /\ \A g, h, k \in S : RanksAbove(g, h) /\ RanksAbove(h, k) => RanksAbove(g, k)

LEMMA HistoriesAreOrdered ==
  ASSUME NEW R, Listable(R)
  PROVE  StrictOrder(Histories(R))
<1> DEFINE S == Histories(R)
<1>1. \A h \in S : h.latest.final \in Nat /\ h.key[1] \in Int /\ h.first \in Paths
  BY HistoryFacts DEF Listable
<1>2. \A g, h \in S : g.first = h.first => g = h
  <2> SUFFICES ASSUME NEW g \in S, NEW h \in S, g.first = h.first PROVE g = h  OBVIOUS
  <2>1. PICK r \in R : harness_key(r) = g.key /\ r.path = g.first  BY HistoryFacts
  <2>2. PICK s \in R : harness_key(s) = h.key /\ s.path = h.first  BY HistoryFacts
  <2>3. r = s  BY <2>1, <2>2 DEF Listable
  <2>4. QED  BY <2>1, <2>2, <2>3, OneHistoryPerKey
<1> HIDE DEF S
<1>3. ASSUME NEW g \in S PROVE ~ RanksAbove(g, g)
  BY <1>1, SortsBeforeIsAnOrder DEF RanksAbove
<1>4. ASSUME NEW g \in S, NEW h \in S, g # h PROVE RanksAbove(g, h) \/ RanksAbove(h, g)
  <2>1. SortsBefore(g.first, h.first) \/ SortsBefore(h.first, g.first)
    BY <1>1, <1>2, <1>4, SortsBeforeIsAnOrder
  <2>2. /\ g.latest.final \in Nat /\ g.key[1] \in Int
        /\ h.latest.final \in Nat /\ h.key[1] \in Int
    BY <1>1
  <2>3. QED  BY <2>1, <2>2 DEF RanksAbove
<1>5. ASSUME NEW g \in S, NEW h \in S, NEW k \in S, RanksAbove(g, h), RanksAbove(h, k)
      PROVE  RanksAbove(g, k)
  <2>1. /\ g.latest.final \in Nat /\ g.key[1] \in Int
        /\ h.latest.final \in Nat /\ h.key[1] \in Int
        /\ k.latest.final \in Nat /\ k.key[1] \in Int
    BY <1>1
  <2>2. SortsBefore(g.first, h.first) /\ SortsBefore(h.first, k.first)
          => SortsBefore(g.first, k.first)
    BY <1>1, SortsBeforeIsAnOrder
  <2>3. QED  BY <1>5, <2>1, <2>2 DEF RanksAbove
<1>6. QED  BY <1>3, <1>4, <1>5 DEF StrictOrder, S

-----------------------------------------------------------------------------
(* The ranking *)

(* A history has the more above it, the lower it ranks. *)
LEMMA MoreAbove ==
  ASSUME NEW S, IsFiniteSet(S), StrictOrder(S)
  PROVE  /\ \A h \in S : /\ Cardinality(Above(S, h)) \in Nat
                         /\ Cardinality(Above(S, h)) < Cardinality(S)
         /\ \A g, h \in S : RanksAbove(g, h) =>
              Cardinality(Above(S, g)) < Cardinality(Above(S, h))
<1>1. \A h \in S : Above(S, h) \in SUBSET S /\ h \notin Above(S, h)
  BY DEF Above, StrictOrder
<1>2. \A h \in S : IsFiniteSet(Above(S, h)) /\ Cardinality(Above(S, h)) \in Nat
  BY <1>1, FS_Subset, FS_CardinalityType
<1>3. Cardinality(S) \in Nat  BY FS_CardinalityType
<1>4. ASSUME NEW h \in S PROVE Cardinality(Above(S, h)) < Cardinality(S)
  <2>1. Above(S, h) # S  BY <1>1
  <2>2. /\ Cardinality(Above(S, h)) <= Cardinality(S)
        /\ Cardinality(Above(S, h)) # Cardinality(S)
    BY <1>1, <2>1, FS_Subset
  <2>3. QED  BY <1>2, <1>3, <2>2
<1>5. ASSUME NEW g \in S, NEW h \in S, RanksAbove(g, h)
      PROVE  Cardinality(Above(S, g)) < Cardinality(Above(S, h))
  <2>1. Above(S, g) \in SUBSET Above(S, h)  BY <1>5 DEF Above, StrictOrder
  <2>2. g \in Above(S, h) /\ g \notin Above(S, g)  BY <1>1, <1>5 DEF Above
  <2>3. Above(S, g) # Above(S, h)  BY <2>2
  <2>4. /\ Cardinality(Above(S, g)) <= Cardinality(Above(S, h))
        /\ Cardinality(Above(S, g)) # Cardinality(Above(S, h))
    BY <1>2, <2>1, <2>3, FS_Subset
  <2>5. QED  BY <1>2, <2>4
<1>6. QED  BY <1>2, <1>4, <1>5

(* Every place of the list is some history's: as many places as histories, *)
(* and no two of these in one place.                                       *)
LEMMA EveryPlaceIsTaken ==
  ASSUME NEW S, IsFiniteSet(S), StrictOrder(S), NEW i \in 1 .. Cardinality(S)
  PROVE  \E h \in S : Cardinality(Above(S, h)) = i - 1
<1> DEFINE n == Cardinality(S)
           places == 0 .. n - 1
           f == [h \in S |-> Cardinality(Above(S, h))]
<1>1. n \in Nat /\ n >= 1
  <2>1. n \in Nat  BY FS_CardinalityType
  <2>2. QED  BY <2>1
<1>2. IsFiniteSet(places) /\ Cardinality(places) = n
  <2>1. 0 \in Int /\ n - 1 \in Int /\ ~(0 > n - 1) /\ n - 1 - 0 + 1 = n  BY <1>1
  <2> HIDE DEF n
  <2>2. QED  BY <2>1, FS_Interval
<1>3. f \in [S -> places]
  <2>1. \A h \in S : f[h] \in Nat /\ f[h] < n  BY MoreAbove
  <2>2. \A h \in S : f[h] \in places
    <3> HIDE DEF f, n
    <3>1. QED  BY <1>1, <2>1
  <2>3. QED  BY <2>2
<1>4. ASSUME NEW g \in S, NEW h \in S, g # h PROVE f[g] # f[h]
  <2>1. RanksAbove(g, h) \/ RanksAbove(h, g)  BY <1>4 DEF StrictOrder
  <2>2. f[g] \in Nat /\ f[h] \in Nat /\ (f[g] < f[h] \/ f[h] < f[g])
    BY <2>1, MoreAbove
  <2>3. QED  BY <2>2
<1>5. f \in Injection(S, places)  BY <1>3, <1>4 DEF Injection, IsInjective
<1> HIDE DEF places, n
<1>6. f \in Surjection(S, places)
  <2> HIDE DEF f
  <2>1. Cardinality(S) = Cardinality(places)  BY <1>2 DEF n
  <2>2. QED  BY <1>2, <1>5, <2>1, FS_Injection
<1>7. i - 1 \in places  BY <1>1 DEF places, n
<1>8. PICK h \in S : f[h] = i - 1  BY <1>6, <1>7 DEF Surjection
<1>9. QED  BY <1>8

(* The index has every history once, and in order. *)
Ranked(rows, S) ==
  /\ DOMAIN rows = 1 .. Cardinality(S) /\ Cardinality(S) \in Nat
  /\ \A i \in DOMAIN rows : rows[i] \in S
  /\ \A h \in S : \E i \in DOMAIN rows : rows[i] = h
  /\ \A i, j \in DOMAIN rows : i < j => RanksAbove(rows[i], rows[j])
  /\ \A i, j \in DOMAIN rows : rows[i] = rows[j] => i = j

LEMMA AggregateRanks ==
  ASSUME NEW R, Listable(R)
  PROVE  Ranked(aggregate(R), Histories(R))
<1> DEFINE S == Histories(R)
           rows == aggregate(R)
<1>1. IsFiniteSet(S) /\ StrictOrder(S)
  BY HistoriesAreFinite, HistoriesAreOrdered DEF Listable
<1>2. Cardinality(S) \in Nat  BY <1>1, FS_CardinalityType
<1>3. /\ DOMAIN rows = 1 .. Cardinality(S)
      /\ \A i \in 1 .. Cardinality(S) :
           rows[i] = CHOOSE h \in S : Cardinality(Above(S, h)) = i - 1
  BY DEF aggregate
<1> HIDE DEF S, rows
<1>4. \A i \in DOMAIN rows : rows[i] \in S /\ Cardinality(Above(S, rows[i])) = i - 1
  <2> SUFFICES ASSUME NEW i \in DOMAIN rows
               PROVE  rows[i] \in S /\ Cardinality(Above(S, rows[i])) = i - 1
    OBVIOUS
  <2>1. \E h \in S : Cardinality(Above(S, h)) = i - 1  BY <1>1, <1>3, EveryPlaceIsTaken
  <2>2. QED  BY <1>3, <2>1
<1>5. ASSUME NEW g \in S, NEW h \in S, Cardinality(Above(S, g)) = Cardinality(Above(S, h))
      PROVE  g = h
  <2>1. Cardinality(Above(S, g)) \in Nat  BY <1>1, MoreAbove
  <2>2. ~ RanksAbove(g, h) /\ ~ RanksAbove(h, g)
    <3>1. ASSUME RanksAbove(g, h) PROVE FALSE
      <4>1. Cardinality(Above(S, g)) < Cardinality(Above(S, h))  BY <1>1, <3>1, MoreAbove
      <4>2. QED  BY <1>5, <2>1, <4>1
    <3>2. ASSUME RanksAbove(h, g) PROVE FALSE
      <4>1. Cardinality(Above(S, h)) < Cardinality(Above(S, g))  BY <1>1, <3>2, MoreAbove
      <4>2. QED  BY <1>5, <2>1, <4>1
    <3>3. QED  BY <3>1, <3>2
  <2>3. QED  BY <1>1, <2>2 DEF StrictOrder
<1>6. ASSUME NEW h \in S PROVE \E i \in DOMAIN rows : rows[i] = h
  <2>1. PICK k \in Nat : k = Cardinality(Above(S, h)) /\ k < Cardinality(S)
    BY <1>1, MoreAbove
  <2>2. k + 1 \in DOMAIN rows /\ (k + 1) - 1 = k  BY <1>2, <1>3, <2>1
  <2>3. Cardinality(Above(S, rows[k + 1])) = k /\ rows[k + 1] \in S  BY <1>4, <2>2
  <2>4. rows[k + 1] = h  BY <1>5, <2>1, <2>3
  <2>5. QED  BY <2>2, <2>4
<1>7. ASSUME NEW i \in DOMAIN rows, NEW j \in DOMAIN rows, i < j
      PROVE  RanksAbove(rows[i], rows[j])
  <2>1. i \in Nat /\ j \in Nat  BY <1>2, <1>3
  <2>2. rows[i] # rows[j]  BY <1>4, <1>7, <2>1
  <2>3. ~ RanksAbove(rows[j], rows[i])
    <3>1. ASSUME RanksAbove(rows[j], rows[i]) PROVE FALSE
      <4>1. Cardinality(Above(S, rows[j])) < Cardinality(Above(S, rows[i]))
        BY <1>1, <1>4, <3>1, MoreAbove
      <4>2. QED  BY <1>4, <1>7, <2>1, <4>1
    <3>2. QED  BY <3>1
  <2>4. QED  BY <1>1, <1>4, <2>2, <2>3 DEF StrictOrder
<1>8. ASSUME NEW i \in DOMAIN rows, NEW j \in DOMAIN rows, rows[i] = rows[j] PROVE i = j
  <2>1. i \in Nat /\ j \in Nat  BY <1>2, <1>3
  <2>2. i - 1 = j - 1  BY <1>4, <1>8
  <2>3. QED  BY <2>1, <2>2
<1>9. QED  BY <1>2, <1>3, <1>4, <1>6, <1>7, <1>8 DEF Ranked, S, rows

-----------------------------------------------------------------------------
(* The rendered site *)

LEMMA IndexRows ==
  ASSUME NEW files, Files(files)
  PROVE  LET histories == aggregate(load_reports(files))
             rows      == render_site(files).index
         IN  /\ Ranked(histories, Histories(load_reports(files)))
             /\ DOMAIN rows = DOMAIN histories
             /\ \A i \in DOMAIN rows :
                  /\ rows[i].key = histories[i].key
                  /\ rows[i].latest = histories[i].latest
                  /\ rows[i].href = DetailPage(histories, histories[i].latest.id)
<1>1. Ranked(aggregate(load_reports(files)), Histories(load_reports(files)))
  BY LoadedAreListable, AggregateRanks
<1>2. QED  BY <1>1 DEF render_site

(* A row shows a history of the checkout. *)
LEMMA RowFacts ==
  ASSUME NEW files, Files(files), NEW i \in DOMAIN render_site(files).index
  PROVE  LET row == render_site(files).index[i]
         IN  /\ row.latest \in load_reports(files) /\ harness_key(row.latest) = row.key
             /\ \A r \in load_reports(files) : harness_key(r) = row.key => r.id <= row.latest.id
<1> DEFINE histories == aggregate(load_reports(files))
           row == render_site(files).index[i]
<1>1. /\ histories[i] \in Histories(load_reports(files))
      /\ row.key = histories[i].key /\ row.latest = histories[i].latest
  BY IndexRows DEF Ranked
<1> HIDE DEF histories, row
<1>2. QED  BY <1>1, LoadedAreListable, HistoryFacts DEF row

LEMMA RowOfRecord ==
  ASSUME NEW files, Files(files), NEW r \in Records(files)
  PROVE  LET rows == render_site(files).index
         IN  \E i \in DOMAIN rows : rows[i].key = harness_key(r) /\ r.id <= rows[i].latest.id
<1> DEFINE histories == aggregate(load_reports(files))
           rows == render_site(files).index
<1>1. PICK s \in load_reports(files) : harness_key(s) = harness_key(r) /\ s.id = r.id
  BY FirstIsLoaded
<1>2. PICK h \in Histories(load_reports(files)) : h.key = harness_key(s)
  BY HistoryOfRecord
<1>3. PICK i \in DOMAIN rows : histories[i] = h /\ rows[i].key = histories[i].key
  BY IndexRows DEF Ranked
<1>4. rows[i].key = harness_key(r)  BY <1>1, <1>2, <1>3
<1> HIDE DEF histories
<1>5. s.id <= rows[i].latest.id  BY <1>1, <1>4, RowFacts
<1>6. QED  BY <1>1, <1>4, <1>5

LEMMA RowsOfOneKey ==
  ASSUME NEW files, Files(files),
         NEW i \in DOMAIN render_site(files).index, NEW j \in DOMAIN render_site(files).index,
         render_site(files).index[i].key = render_site(files).index[j].key
  PROVE  i = j
<1> DEFINE histories == aggregate(load_reports(files))
<1>1. /\ Ranked(histories, Histories(load_reports(files)))
      /\ i \in DOMAIN histories /\ j \in DOMAIN histories
      /\ histories[i].key = histories[j].key
  BY IndexRows
<1> HIDE DEF histories
<1>2. /\ histories[i] \in Histories(load_reports(files))
      /\ histories[j] \in Histories(load_reports(files))
  BY <1>1 DEF Ranked
<1>3. histories[i] = histories[j]  BY <1>1, <1>2, LoadedAreListable, OneHistoryPerKey
<1>4. QED  BY <1>1, <1>3 DEF Ranked

LEMMA FairIfFiles == ASSUME Files(site.files) PROVE IndexIsFair
<1> DEFINE rows == render_site(site.files).index
           records == Records(site.files)
<1>1. ASSUME NEW r \in records
      PROVE  Cardinality({i \in DOMAIN rows : rows[i].key = harness_key(r)}) = 1
  <2>1. PICK i \in DOMAIN rows : rows[i].key = harness_key(r)  BY RowOfRecord
  <2>2. \A j \in DOMAIN rows : rows[j].key = harness_key(r) => j = i
    BY <2>1, RowsOfOneKey
  <2>3. {j \in DOMAIN rows : rows[j].key = harness_key(r)} = {i}  BY <2>1, <2>2
  <2>4. QED  BY <2>3, FS_Singleton
<1>2. ASSUME NEW i \in DOMAIN rows, NEW r \in records, harness_key(r) = rows[i].key
      PROVE  r.id <= rows[i].latest.id
  <2>1. PICK j \in DOMAIN rows : rows[j].key = harness_key(r) /\ r.id <= rows[j].latest.id
    BY RowOfRecord
  <2>2. j = i  BY <1>2, <2>1, RowsOfOneKey
  <2>3. QED  BY <2>1, <2>2
<1>3. ASSUME NEW i \in DOMAIN rows, NEW j \in DOMAIN rows, i < j,
             rows[i].latest.verdict \in {"DISQUALIFIED", "CONTAMINATED", "FAILED"}
      PROVE  rows[j].latest.final = 0
  <2> DEFINE histories == aggregate(load_reports(site.files))
  <2>1. /\ Ranked(histories, Histories(load_reports(site.files)))
        /\ i \in DOMAIN histories /\ j \in DOMAIN histories
        /\ rows[i].latest = histories[i].latest /\ rows[j].latest = histories[j].latest
    BY IndexRows
  <2> HIDE DEF histories
  <2>2. RanksAbove(histories[i], histories[j])  BY <1>3, <2>1 DEF Ranked
  <2>3. rows[i].latest \in records /\ rows[j].latest \in records
    BY RowFacts, LoadedAreListable
  <2> HIDE DEF records
  <2>4. /\ rows[i].latest.final \in Nat /\ rows[j].latest.final \in Nat
        /\ Sound(rows[i].latest)
    BY <2>3, RecordType DEF records
  <2>5. rows[i].latest.final = 0  BY <1>3, <2>4 DEF Sound, Out
  <2>6. rows[j].latest.final <= rows[i].latest.final
    BY <2>1, <2>2, <2>4 DEF RanksAbove
  <2>7. QED  BY <2>4, <2>5, <2>6
<1>4. QED  BY <1>1, <1>2, <1>3 DEF IndexIsFair

(* A contaminated evaluation that is loaded is in the log. *)
LEMMA LoadedIsLogged ==
  ASSUME NEW files, Files(files), NEW r \in load_reports(files), is_contaminated(r)
  PROVE  r \in render_site(files).events
<1> DEFINE loaded == load_reports(files)
           histories == aggregate(loaded)
<1>1. PICK h \in Histories(loaded) : h.key = harness_key(r)  BY HistoryOfRecord
<1>2. r \in h.evaluations  BY <1>1, LoadedAreListable, HistoryFacts DEF EvaluationsOf
<1>3. PICK i \in DOMAIN histories : histories[i] = h  BY <1>1, IndexRows DEF Ranked
<1>4. render_site(files).events = contamination_events(histories)  BY DEF render_site
<1> HIDE DEF histories
<1>5. QED  BY <1>2, <1>3, <1>4 DEF contamination_events

LEMMA VisibleIfFiles == ASSUME Files(site.files) PROVE ContaminationStaysVisible
<1> DEFINE records == Records(site.files)
           events == render_site(site.files).events
<1>1. SUFFICES ASSUME NEW r \in records,
                      \/ r.verdict \in {"CONTAMINATED", "DISQUALIFIED"}
                      \/ Mentions(r.applied, SaysDisqualified \cup SaysContamin),
                      ~ DroppedForAnother(r, records)
               PROVE  \E v \in events : IsCopyOf(v, r)
  BY DEF ContaminationStaysVisible
<1>2. PICK v \in load_reports(site.files) : IsCopyOf(v, r)  BY <1>1, CopyIsLoaded
<1>3. v.verdict = r.verdict /\ v.applied = r.applied  BY <1>2, CopyFacts
<1>4. is_contaminated(v)
  BY <1>1, <1>3 DEF is_contaminated, Mentions, SaysLeakOrDQ
<1>5. QED  BY <1>2, <1>4, LoadedIsLogged

LEMMA UnloggedIfFiles == ASSUME Files(site.files) PROVE UnloggedForTwoReasonsOnly
<1> DEFINE records == Records(site.files)
           events == render_site(site.files).events
<1>1. SUFFICES ASSUME NEW r \in records, \E k \in r.applied : k.cap = DQ_VALUE,
                      r.verdict # "FAILED", ~ DroppedForAnother(r, records)
               PROVE  \E v \in events : IsCopyOf(v, r)
  BY DEF UnloggedForTwoReasonsOnly
<1>2. PICK v \in load_reports(site.files) : IsCopyOf(v, r)  BY <1>1, CopyIsLoaded
<1>3. v.verdict = r.verdict  BY <1>2, CopyFacts
<1>4. Sound(r)  BY RecordType
<1>5. is_contaminated(v)  BY <1>1, <1>3, <1>4 DEF Sound, Out, is_contaminated
<1>6. QED  BY <1>2, <1>5, LoadedIsLogged

LEMMA SplitIfFiles == ASSUME Files(site.files) PROVE RowsSplitByDirectoryOnly
<1> DEFINE rows == render_site(site.files).index
<1> SUFFICES ASSUME NEW i \in DOMAIN rows, NEW j \in DOMAIN rows,
                    rows[i].latest.path.top = rows[j].latest.path.top,
                    rows[i].latest.name = rows[j].latest.name,
                    rows[i].latest.version = rows[j].latest.version,
                    ProperlyNamed(rows[i].latest), ProperlyNamed(rows[j].latest)
             PROVE  i = j
  BY DEF RowsSplitByDirectoryOnly
<1>1. /\ harness_key(rows[i].latest) = rows[i].key
      /\ harness_key(rows[j].latest) = rows[j].key
  BY RowFacts
<1> DEFINE r == rows[i].latest
           s == rows[j].latest
<1>2. harness_key(r) = harness_key(s)
  <2> HIDE DEF r, s
  <2> SUFFICES ASSUME r.path.top = s.path.top, r.name = s.name, r.version = s.version,
                      ProperlyNamed(r), ProperlyNamed(s)
               PROVE  harness_key(r) = harness_key(s)
    BY DEF r, s
  <2>1. /\ harness_name(r) = IF r.name # NoName THEN r.name ELSE r.path.top
        /\ harness_name(s) = IF s.name # NoName THEN s.name ELSE s.path.top
    BY DEF harness_name, ProperlyNamed
  <2>2. QED  BY <2>1 DEF harness_key
<1>3. rows[i].key = rows[j].key  BY <1>1, <1>2
<1>4. QED  BY <1>3, RowsOfOneKey

(* A link leads to the page of an evaluation that was made in the same     *)
(* second as the one the row shows.                                        *)
LEMMA LinksIfFiles ==
  ASSUME NEW files, Files(files), NEW i \in DOMAIN render_site(files).index
  PROVE  LET row == render_site(files).index[i]
         IN  \E r \in load_reports(files) :
               r.id = row.latest.id /\ row.href = <<harness_name(r), r.id>>
<1> DEFINE loaded == load_reports(files)
           histories == aggregate(loaded)
           id == histories[i].latest.id
           withId == {k \in DOMAIN histories : \E r \in histories[k].evaluations : r.id = id}
<1>1. /\ Ranked(histories, Histories(loaded)) /\ i \in DOMAIN histories
      /\ render_site(files).index[i].href = DetailPage(histories, id)
      /\ render_site(files).index[i].latest.id = id
  BY IndexRows
<1>2. Listable(loaded)  BY LoadedAreListable
<1> HIDE DEF histories, loaded
<1>3. i \in withId
  <2>1. histories[i] \in Histories(loaded)  BY <1>1 DEF Ranked
  <2>2. histories[i].latest \in histories[i].evaluations
    BY <1>2, <2>1, HistoryFacts DEF EvaluationsOf
  <2>3. QED  BY <1>1, <2>2
<1>4. \E k \in withId : \A j \in withId : j <= k
  <2>1. Cardinality(Histories(loaded)) \in Nat
        /\ withId \in SUBSET (0 .. Cardinality(Histories(loaded)))
    BY <1>1 DEF Ranked
  <2> HIDE DEF withId
  <2>2. QED  BY <1>3, <2>1, GreatestNumber
<1>5. PICK k \in withId : DetailPage(histories, id) = Slug(histories[k], id)
  <2> DEFINE last == CHOOSE k \in withId : \A j \in withId : j <= k
  <2>1. last \in withId  BY <1>4
  <2>2. DetailPage(histories, id) = Slug(histories[last], id)  BY DEF DetailPage
  <2>3. QED  BY <2>1, <2>2
<1>6. PICK r \in histories[k].evaluations : r.id = id  BY <1>5
<1>7. histories[k] \in Histories(loaded)  BY <1>1, <1>5 DEF Ranked
<1>8. r \in loaded /\ harness_key(r) = histories[k].key
  BY <1>2, <1>6, <1>7, HistoryFacts DEF EvaluationsOf
<1>9. histories[k].key[1] = harness_name(r)  BY <1>8 DEF harness_key
<1>10. QED  BY <1>1, <1>5, <1>6, <1>8, <1>9 DEF Slug, loaded

LEMMA StrayIfFiles == ASSUME Files(site.files) PROVE LinksStrayWithinASecondOnly
<1> DEFINE rows == render_site(site.files).index
<1> SUFFICES ASSUME NEW i \in DOMAIN rows,
                    \A r \in load_reports(site.files) :
                      r.id = rows[i].latest.id => harness_key(r) = rows[i].key
             PROVE  rows[i].href = <<rows[i].key[1], rows[i].latest.id>>
  BY DEF LinksStrayWithinASecondOnly
<1>1. PICK r \in load_reports(site.files) :
        r.id = rows[i].latest.id /\ rows[i].href = <<harness_name(r), r.id>>
  BY LinksIfFiles
<1>2. harness_key(r) = rows[i].key  BY <1>1
<1> HIDE DEF rows
<1>3. rows[i].key[1] = harness_name(r)  BY <1>2 DEF harness_key
<1>4. QED  BY <1>1, <1>3

-----------------------------------------------------------------------------
(* The inductive invariant *)

IsReport(file) == file \notin {Garbage, Broken}

(* Later files: no report has gone, and none at its path is older. *)
Onward(files, later) ==
  \A p \in DOMAIN files : IsReport(files[p]) =>
    p \in DOMAIN later /\ IsReport(later[p]) /\ files[p].id <= later[p].id

Types ==
  /\ clock \in Times
  /\ evaluations \in 0 .. MaxEvaluations
  /\ commit \in Nat
  /\ runs \in [Submissions -> Report \cup {None}]
  /\ failed \in 0 .. commit

(* No report is from the future, and none that was published is newer than *)
(* the one in runs/, which can so be published over it.                    *)
Reports ==
  /\ \A s \in Submissions : runs[s] # None => Sound(runs[s]) /\ runs[s].id <= clock
  /\ \A p \in DOMAIN tree : IsReport(tree[p]) =>
       runs[p.top] # None /\ tree[p].id <= runs[p.top].id

(* What one may find at a commit that is not after `later`. *)
Checkout(run, c, later) ==
  /\ run.commit \in 0 .. c
  /\ Files(run.files)
  /\ Onward(run.files, later)

(* site, running, pending and main stand in the order of their commits,    *)
(* and at most one run is under way.                                       *)
Queue ==
  /\ Files(tree)
  /\ Checkout(site, commit, tree)
  /\ pending # None => /\ Checkout(pending, commit, tree)
                       /\ Checkout(site, pending.commit, pending.files)
  /\ \A run \in running :
       /\ Checkout(run, commit, tree)
       /\ Checkout(site, run.commit, run.files)
       /\ pending # None => Checkout(run, pending.commit, pending.files)
       /\ running = {run}

Inv == Types /\ Reports /\ Queue

LEMMA OnwardIsTransitive ==
  ASSUME NEW f, NEW g, NEW h, Files(f), Files(g), Files(h), Onward(f, g), Onward(g, h)
  PROVE  Onward(f, h)
<1> SUFFICES ASSUME NEW p \in DOMAIN f, IsReport(f[p])
             PROVE  p \in DOMAIN h /\ IsReport(h[p]) /\ f[p].id <= h[p].id
  BY DEF Onward
<1>1. p \in DOMAIN g /\ IsReport(g[p]) /\ f[p].id <= g[p].id  BY DEF Onward
<1>2. p \in DOMAIN h /\ IsReport(h[p]) /\ g[p].id <= h[p].id  BY <1>1 DEF Onward
<1>3. f[p].id \in Times /\ g[p].id \in Times /\ h[p].id \in Times
  BY <1>1, <1>2 DEF Files, IsReport, Report
<1>4. QED  BY <1>1, <1>2, <1>3 DEF Times

LEMMA OnwardIsReflexive ==
  ASSUME NEW f, Files(f)
  PROVE  Onward(f, f)
<1> SUFFICES ASSUME NEW p \in DOMAIN f, IsReport(f[p]) PROVE f[p].id <= f[p].id
  BY DEF Onward
<1>1. f[p].id \in Times  BY DEF Files, IsReport, Report
<1>2. QED  BY <1>1 DEF Times

(* A checkout stays one when main moves on. *)
LEMMA CheckoutStays ==
  ASSUME NEW run, NEW c \in Nat, NEW files, Files(files), Checkout(run, c, files),
         NEW d \in Nat, c <= d, NEW later, Files(later), Onward(files, later)
  PROVE  Checkout(run, d, later)
BY OnwardIsTransitive DEF Checkout

LEMMA InitInv == Init => Inv
<1> SUFFICES ASSUME Init PROVE Inv  OBVIOUS
<1>1. Types  BY LeaderboardAssumption DEF Init, Types, Times
<1>2. /\ DOMAIN tree \subseteq Paths
      /\ \A p \in DOMAIN tree : tree[p] \in {Garbage, Broken}
  BY LeaderboardAssumption DEF Init
<1>3. Reports  BY <1>2 DEF Init, Reports, IsReport
<1>4. Files(tree)  BY <1>2 DEF Files
<1>5. Checkout(site, commit, tree)
  BY DEF Init, NoSite, Checkout, Files, Onward
<1>6. Queue  BY <1>4, <1>5 DEF Init, Queue
<1>7. QED  BY <1>1, <1>3, <1>6 DEF Inv

(* Steps that leave main, the queue and the site alone. *)
LEMMA QueueStays ==
  ASSUME Queue, UNCHANGED <<tree, commit, pending, running, site>>
  PROVE  Queue'
BY DEF Queue, Checkout, Files, Onward

LEMMA TickKeepsInv == ASSUME Inv, Tick PROVE Inv'
<1>1. Types'
  <2>1. clock' \in Times
    BY LeaderboardAssumption DEF Inv, Types, Tick, Times
  <2>2. QED  BY <2>1 DEF Inv, Types, Tick
<1>2. Reports'
  <2>1. ASSUME NEW s \in Submissions, runs[s] # None PROVE runs[s].id <= clock + 1
    <3>1. runs[s] \in Report  BY <2>1 DEF Inv, Types
    <3>2. runs[s].id \in Times /\ clock \in Times /\ runs[s].id <= clock
      BY <2>1, <3>1 DEF Inv, Types, Reports, Report
    <3>3. QED  BY <3>2 DEF Times
  <2>2. QED  BY <2>1 DEF Inv, Reports, Tick
<1>3. Queue'  BY QueueStays DEF Inv, Tick
<1>4. QED  BY <1>1, <1>2, <1>3 DEF Inv

(* What Judge writes. *)
LEMMA OutcomeIsSound ==
  ASSUME NEW s \in Submissions, NEW m \in Manifests[s], NEW o \in Outcomes, NEW t \in Times
  PROVE  LET final  == FinalScore(o.weighted, o.caps)
             report == [name |-> m.name, version |-> m.version, id |-> t,
                        weighted |-> o.weighted, final |-> final,
                        applied |-> BindingCaps(o.weighted, o.caps),
                        verdict |-> verdict_from(final, o.caps)]
         IN  report \in Report /\ Sound(report)
<1>1. o.weighted \in 0 .. FullScore /\ o.caps \in SUBSET Cap  BY LeaderboardAssumption
<1>2. m.name \in Submissions \cup {NoName} /\ m.version \in Nat
  BY LeaderboardAssumption
<1> DEFINE final == FinalScore(o.weighted, o.caps)
           applied == BindingCaps(o.weighted, o.caps)
           verdict == verdict_from(final, o.caps)
<1>3. final \in 0 .. FullScore /\ \A k \in o.caps : final <= k.cap
  BY <1>1, FinalScoreIsBounded
<1>4. applied \in SUBSET Cap  BY <1>1 DEF BindingCaps
<1>5. verdict \in Verdicts  BY VerdictMeaning
<1>6. ASSUME verdict \in Out PROVE final = 0
  <2>1. FullScore \in Nat /\ DQ_VALUE = 0
    BY DEF FullScore, Point, QuarterPoints, DQ_VALUE
  <2>2. CASE Mentions(o.caps, SaysGrave)
    <3>1. PICK k \in o.caps : k.reason \in SaysGrave  BY <2>2 DEF Mentions
    <3>2. k.cap = 0  BY <2>1, <3>1, GraveCapsAreZero
    <3>3. final <= 0  BY <1>3, <3>2
    <3> HIDE DEF final
    <3>4. QED  BY <1>3, <2>1, <3>3
  <2>3. CASE ~ Mentions(o.caps, SaysGrave)
    <3>1. /\ ~ Mentions(o.caps, SaysDisqualified) /\ ~ Mentions(o.caps, SaysContamin)
          /\ ~ Mentions(o.caps, SaysMissing)
      BY <2>3 DEF Mentions, SaysGrave
    <3> HIDE DEF final
    <3>2. final = DQ_VALUE  BY <1>6, <3>1 DEF verdict_from, Out
    <3>3. QED  BY <2>1, <3>2
  <2>4. QED  BY <2>2, <2>3
<1>7. ASSUME NEW k \in applied, k.cap = DQ_VALUE PROVE verdict \in Out
  <2>1. k \in o.caps /\ DQ_VALUE = 0  BY DEF BindingCaps, DQ_VALUE
  <2>2. final <= 0  BY <1>3, <1>7, <2>1
  <2>3. FullScore \in Nat  BY DEF FullScore, Point, QuarterPoints
  <2> HIDE DEF final
  <2>4. final = DQ_VALUE  BY <1>3, <2>1, <2>2, <2>3
  <2>5. QED  BY <2>4 DEF verdict_from, Out
<1> HIDE DEF final, applied, verdict
<1> DEFINE report == [name |-> m.name, version |-> m.version, id |-> t,
                      weighted |-> o.weighted, final |-> final,
                      applied |-> applied, verdict |-> verdict]
<1>8. report \in Report  BY <1>1, <1>2, <1>3, <1>4, <1>5 DEF Report
<1>9. Sound(report)  BY <1>6, <1>7 DEF Sound
<1>10. QED  BY <1>8, <1>9 DEF final, applied, verdict

LEMMA JudgeKeepsInv == ASSUME Inv, NEW s \in Submissions, Judge(s) PROVE Inv'
<1>1. PICK report \in Report : /\ Sound(report) /\ report.id = clock
                               /\ runs' = [runs EXCEPT ![s] = report]
  <2>1. PICK m \in Manifests[s], o \in Outcomes :
          runs' = [runs EXCEPT ![s] =
            [name |-> m.name, version |-> m.version, id |-> clock,
             weighted |-> o.weighted, final |-> FinalScore(o.weighted, o.caps),
             applied |-> BindingCaps(o.weighted, o.caps),
             verdict |-> verdict_from(FinalScore(o.weighted, o.caps), o.caps)]]
    BY DEF Judge
  <2>2. clock \in Times  BY DEF Inv, Types
  <2> DEFINE report == [name |-> m.name, version |-> m.version, id |-> clock,
             weighted |-> o.weighted, final |-> FinalScore(o.weighted, o.caps),
             applied |-> BindingCaps(o.weighted, o.caps),
             verdict |-> verdict_from(FinalScore(o.weighted, o.caps), o.caps)]
  <2>3. report \in Report /\ Sound(report)  BY <2>2, OutcomeIsSound
  <2>4. report.id = clock /\ runs' = [runs EXCEPT ![s] = report]  BY <2>1
  <2> HIDE DEF report
  <2>5. QED  BY <2>3, <2>4
<1>2. UNCHANGED <<clock, tree, commit, pending, running, failed, site>>  BY DEF Judge
<1>3. clock \in Times /\ runs \in [Submissions -> Report \cup {None}]  BY DEF Inv, Types
<1>4. Types'
  <2>1. runs' \in [Submissions -> Report \cup {None}]  BY <1>1, <1>3
  <2>2. evaluations' \in 0 .. MaxEvaluations
    BY LeaderboardAssumption DEF Inv, Types, Judge
  <2>3. QED  BY <1>2, <2>1, <2>2 DEF Inv, Types
<1>5. report # None  BY MarksAreNoReports
<1>6. Reports'
  <2>1. \A x \in Submissions : runs'[x] = IF x = s THEN report ELSE runs[x]
    BY <1>1, <1>3
  <2>2. ASSUME NEW x \in Submissions, runs'[x] # None
        PROVE  Sound(runs'[x]) /\ runs'[x].id <= clock
    <3>1. CASE x = s  BY <1>1, <1>3, <2>1, <3>1 DEF Times
    <3>2. CASE x # s  BY <2>1, <2>2, <3>2 DEF Inv, Reports
    <3>3. QED  BY <3>1, <3>2
  <2>3. ASSUME NEW p \in DOMAIN tree, IsReport(tree[p])
        PROVE  runs'[p.top] # None /\ tree[p].id <= runs'[p.top].id
    <3>1. runs[p.top] # None /\ tree[p].id <= runs[p.top].id  BY <2>3 DEF Inv, Reports
    <3>2. p.top \in Submissions /\ tree[p] \in Report
      BY <2>3 DEF Inv, Queue, Files, Paths, IsReport
    <3>3. CASE p.top = s
      <4>1. runs'[p.top] = report  BY <2>1, <3>2, <3>3
      <4>2. runs[p.top] \in Report /\ runs[p.top].id <= clock
        BY <1>3, <3>1, <3>2 DEF Inv, Reports
      <4>3. tree[p].id \in Times /\ runs[p.top].id \in Times  BY <3>2, <4>2 DEF Report
      <4>4. QED  BY <1>1, <1>3, <1>5, <3>1, <4>1, <4>2, <4>3 DEF Times
    <3>4. CASE p.top # s  BY <2>1, <3>1, <3>2, <3>4
    <3>5. QED  BY <3>3, <3>4
  <2>4. QED  BY <1>2, <2>2, <2>3 DEF Reports
<1>7. Queue'  BY <1>2, QueueStays DEF Inv
<1>8. QED  BY <1>4, <1>6, <1>7 DEF Inv

LEMMA PushKeepsInv ==
  ASSUME Inv, NEW files, Files(files), Onward(tree, files),
         \A p \in DOMAIN files : IsReport(files[p]) =>
           runs[p.top] # None /\ files[p].id <= runs[p.top].id,
         Push(files)
  PROVE  Inv'
<1>1. /\ tree' = files /\ commit' = commit + 1
      /\ pending' = [commit |-> commit', files |-> files]
      /\ UNCHANGED <<clock, evaluations, runs, running, failed, site>>
  BY DEF Push
<1>2. commit \in Nat /\ commit + 1 \in Nat /\ commit <= commit + 1  BY DEF Inv, Types
<1>3. Types'  BY <1>1, <1>2 DEF Inv, Types
<1>4. Reports'  BY <1>1 DEF Inv, Reports
<1>5. Files(tree) /\ Checkout(site, commit, tree)  BY DEF Inv, Queue
<1>6. Checkout(site, commit + 1, files)  BY <1>2, <1>5, CheckoutStays
<1>7. Onward(files, files)  BY OnwardIsReflexive
<1> DEFINE new == [commit |-> commit + 1, files |-> files]
<1>8. Checkout(new, commit + 1, files)
  <2>1. new.commit = commit + 1 /\ new.files = files  OBVIOUS
  <2> HIDE DEF new
  <2>2. QED  BY <1>2, <1>7, <2>1 DEF Checkout
<1>9. pending' = new /\ new.commit = commit + 1 /\ new.files = files  BY <1>1
<1> HIDE DEF new
<1>10. ASSUME NEW run \in running
       PROVE  /\ Checkout(run, commit + 1, files)
              /\ Checkout(site, run.commit, run.files)
              /\ running = {run}
  <2>1. Checkout(run, commit, tree) /\ Checkout(site, run.commit, run.files) /\ running = {run}
    BY DEF Inv, Queue
  <2>2. QED  BY <1>2, <1>5, <2>1, CheckoutStays
<1>11. Queue'  BY <1>1, <1>6, <1>8, <1>9, <1>10 DEF Queue, Checkout, Files, Onward
<1>12. QED  BY <1>3, <1>4, <1>11 DEF Inv

LEMMA PublishKeepsInv == ASSUME Inv, NEW s \in Submissions, Publish(s) PROVE Inv'
<1> DEFINE report == runs[s]
           Files1(path) == [q \in DOMAIN tree \cup {path} |-> IF q = path THEN report ELSE tree[q]]
<1>1. PICK dir \in {report.id, clock} : Push(Files1([top |-> s, dir |-> dir]))
  BY DEF Publish
<1>2. /\ report \in Report /\ Sound(report) /\ report # None
  BY DEF Publish, Inv, Types, Reports
<1>3. report.id \in Times /\ clock \in Times  BY <1>2 DEF Report, Inv, Types
<1>4. PICK path \in Paths : path.top = s /\ Push(Files1(path))
  <2> DEFINE path == [top |-> s, dir |-> dir]
  <2>1. path \in Paths  BY <1>3 DEF Paths
  <2>2. path.top = s  OBVIOUS
  <2>3. QED  BY <1>1, <2>1, <2>2
<1> DEFINE files == Files1(path)
<1>5. /\ DOMAIN files = DOMAIN tree \cup {path} /\ files[path] = report
      /\ \A p \in DOMAIN tree : p # path => files[p] = tree[p]
  OBVIOUS
<1>6. Push(files)  BY <1>4
<1> HIDE DEF Files1, report, files
<1>7. IsReport(report)  BY <1>2, MarksAreNoReports DEF IsReport
<1>8. Files(tree)  BY DEF Inv, Queue
<1>9. Files(files)  BY <1>2, <1>5, <1>8 DEF Files
<1>10. ASSUME NEW p \in DOMAIN tree, IsReport(tree[p])
       PROVE  IsReport(files[p]) /\ tree[p].id <= files[p].id
  <2>1. CASE p = path
    <3>1. tree[p].id <= report.id  BY <1>4, <1>10, <2>1 DEF Inv, Reports, report
    <3>2. QED  BY <1>5, <1>7, <2>1, <3>1
  <2>2. CASE p # path
    <3>1. Onward(tree, tree)  BY <1>8, OnwardIsReflexive
    <3>2. QED  BY <1>5, <1>10, <2>2, <3>1 DEF Onward
  <2>3. QED  BY <2>1, <2>2
<1>11. Onward(tree, files)  BY <1>5, <1>10 DEF Onward
<1>12. ASSUME NEW p \in DOMAIN files, IsReport(files[p])
       PROVE  runs[p.top] # None /\ files[p].id <= runs[p.top].id
  <2>1. CASE p = path
    <3>1. report.id <= report.id  BY <1>3 DEF Times
    <3>2. QED  BY <1>2, <1>4, <1>5, <2>1, <3>1 DEF report
  <2>2. CASE p # path  BY <1>5, <1>12, <2>2 DEF Inv, Reports
  <2>3. QED  BY <2>1, <2>2
<1>13. QED  BY <1>6, <1>9, <1>11, <1>12, PushKeepsInv

LEMMA RemoveStrayKeepsInv == ASSUME Inv, RemoveStray PROVE Inv'
<1>1. PICK p \in DOMAIN tree : /\ tree[p] \in {Garbage, Broken}
                               /\ Push([q \in DOMAIN tree \ {p} |-> tree[q]])
  BY DEF RemoveStray
<1> DEFINE files == [q \in DOMAIN tree \ {p} |-> tree[q]]
<1>2. /\ DOMAIN files = DOMAIN tree \ {p}
      /\ \A q \in DOMAIN files : files[q] = tree[q]
  OBVIOUS
<1>3. Push(files)  BY <1>1
<1> HIDE DEF files
<1>4. Files(tree)  BY DEF Inv, Queue
<1>5. Files(files)  BY <1>2, <1>4 DEF Files
<1>6. Onward(tree, tree)  BY <1>4, OnwardIsReflexive
<1>7. Onward(tree, files)  BY <1>1, <1>2, <1>6 DEF Onward, IsReport
<1>8. \A q \in DOMAIN files : IsReport(files[q]) =>
        runs[q.top] # None /\ files[q].id <= runs[q.top].id
  BY <1>2 DEF Inv, Reports
<1>9. QED  BY <1>3, <1>5, <1>7, <1>8, PushKeepsInv

LEMMA DispatchKeepsInv == ASSUME Inv, Dispatch PROVE Inv'
<1>1. /\ pending' = [commit |-> commit, files |-> tree]
      /\ UNCHANGED <<clock, evaluations, runs, tree, commit, running, failed, site>>
  BY DEF Dispatch
<1>2. Types' /\ Reports'  BY <1>1 DEF Inv, Types, Reports
<1>3. Files(tree) /\ Onward(tree, tree) /\ commit \in 0 .. commit
  BY OnwardIsReflexive DEF Inv, Queue, Types
<1> DEFINE new == [commit |-> commit, files |-> tree]
<1>4. pending' = new /\ new.commit = commit /\ new.files = tree  BY <1>1
<1> HIDE DEF new
<1>5. Checkout(new, commit, tree)  BY <1>3, <1>4 DEF Checkout
<1>6. Queue'  BY <1>1, <1>4, <1>5 DEF Inv, Queue, Checkout, Files, Onward
<1>7. QED  BY <1>2, <1>6 DEF Inv

LEMMA StartRunKeepsInv == ASSUME Inv, StartRun PROVE Inv'
<1>1. /\ pending # None /\ running = {} /\ running' = {pending} /\ pending' = None
      /\ UNCHANGED <<clock, evaluations, runs, tree, commit, failed, site>>
  BY DEF StartRun
<1>2. Types' /\ Reports'  BY <1>1 DEF Inv, Types, Reports
<1>3. Queue'  BY <1>1 DEF Inv, Queue, Checkout, Files, Onward
<1>4. QED  BY <1>2, <1>3 DEF Inv

(* A run that ends leaves the group empty. *)
LEMMA RunEnds ==
  ASSUME Inv, NEW run \in running, running' = running \ {run}
  PROVE  /\ running' = {}
         /\ Checkout(run, commit, tree)
         /\ pending # None => Checkout(run, pending.commit, pending.files)
BY DEF Inv, Queue

LEMMA DeployKeepsInv == ASSUME Inv, Deploy PROVE Inv'
<1>1. PICK run \in running :
        /\ site' = run /\ running' = running \ {run}
        /\ UNCHANGED <<clock, evaluations, runs, tree, commit, pending, failed>>
  BY DEF Deploy
<1>2. Types' /\ Reports'  BY <1>1 DEF Inv, Types, Reports
<1>3. Queue'  BY <1>1, RunEnds DEF Inv, Queue, Checkout, Files, Onward
<1>4. QED  BY <1>2, <1>3 DEF Inv

LEMMA RunFailsKeepsInv == ASSUME Inv, RunFails PROVE Inv'
<1>1. PICK run \in running :
        /\ failed' = run.commit /\ running' = running \ {run}
        /\ UNCHANGED <<clock, evaluations, runs, tree, commit, pending, site>>
  BY DEF RunFails
<1>2. run.commit \in 0 .. commit  BY <1>1, RunEnds DEF Checkout
<1>3. Types' /\ Reports'  BY <1>1, <1>2 DEF Inv, Types, Reports
<1>4. Queue'  BY <1>1, RunEnds DEF Inv, Queue, Checkout, Files, Onward
<1>5. QED  BY <1>3, <1>4 DEF Inv

LEMMA NextKeepsInv == Inv /\ [Next]_vars => Inv'
<1> SUFFICES ASSUME Inv, [Next]_vars PROVE Inv'  OBVIOUS
<1>1. CASE UNCHANGED vars
  <2>1. UNCHANGED <<clock, evaluations, runs, tree, commit, pending, running, failed, site>>
    BY <1>1 DEF vars
  <2>2. Types' /\ Reports'  BY <2>1 DEF Inv, Types, Reports
  <2>3. Queue'  BY <2>1, QueueStays DEF Inv
  <2>4. QED  BY <2>2, <2>3 DEF Inv
<1>2. QED
  BY <1>1, TickKeepsInv, JudgeKeepsInv, PublishKeepsInv, RemoveStrayKeepsInv,
     DispatchKeepsInv, StartRunKeepsInv, DeployKeepsInv, RunFailsKeepsInv DEF Next, Workflow

LEMMA Invariance == Spec => []Inv
BY InitInv, NextKeepsInv, PTL DEF Spec

-----------------------------------------------------------------------------
(* The theorems *)

(* Every variable keeps its type, the site is of a commit there was, and   *)
(* its links lead to pages that were written (render.py:54-88).            *)
THEOREM TypeTheorem == Spec => []TypeOK
<1>1. ASSUME NEW files, Files(files) PROVE IsTree(files)
  BY <1>1 DEF Files, IsTree
<1>2. ASSUME NEW run, NEW later, Checkout(run, commit, later) PROVE IsRun(run)
  BY <1>1, <1>2 DEF Checkout, IsRun
<1>3. ASSUME Inv PROVE TypeOK
  <2>1. /\ clock \in Times /\ evaluations \in 0 .. MaxEvaluations
        /\ \A s \in Submissions : runs[s] \in Report \cup {None}
        /\ commit \in Nat /\ failed \in 0 .. commit
    BY <1>3 DEF Inv, Types
  <2>2. IsTree(tree)  BY <1>1, <1>3 DEF Inv, Queue
  <2>3. IsRun(site) /\ (pending = None \/ IsRun(pending)) /\ \A run \in running : IsRun(run)
    BY <1>2, <1>3 DEF Inv, Queue
  <2>4. Files(site.files)  BY <1>3 DEF Inv, Queue, Checkout
  <2>5. QED  BY <2>1, <2>2, <2>3, <2>4, LinksIfFiles DEF TypeOK
<1>4. QED  BY <1>3, Invariance, PTL

(* The index is a fair ranking of the harnesses of its checkout            *)
(* (aggregate.py:142-162).                                                 *)
THEOREM FairTheorem == Spec => []IndexIsFair
<1>1. Inv => IndexIsFair  BY FairIfFiles DEF Inv, Queue, Checkout
<1>2. QED  BY <1>1, Invariance, PTL

(* Every report of the checkout that tells of contamination is in the      *)
(* anti-cheat log (aggregate.py:165-187), under its path or that of a copy,*)
(* unless load_reports drops it for another judgement of the same          *)
(* second (aggregate.py:134-136), which is what happens in the             *)
(* counterexample to ContaminationIsLogged.                                *)
THEOREM VisibleTheorem == Spec => []ContaminationStaysVisible
<1>1. Inv => ContaminationStaysVisible  BY VisibleIfFiles DEF Inv, Queue, Checkout
<1>2. QED  BY <1>1, Invariance, PTL

(* Of all reports of the checkout, before they are deduplicated, one with  *)
(* a cap that disqualifies goes unlogged for two reasons only: the verdict *)
(* FAILED (aggregate.py:93-101, rubric.py:82-103), and another judgement   *)
(* of its second for which it is dropped (aggregate.py:134-136).           *)
THEOREM UnloggedTheorem == Spec => []UnloggedForTwoReasonsOnly
<1>1. Inv => UnloggedForTwoReasonsOnly  BY UnloggedIfFiles DEF Inv, Queue, Checkout
<1>2. QED  BY <1>1, Invariance, PTL

(* Only unnamed reports in directories of another time split a harness     *)
(* into several rows (aggregate.py:39-46).                                 *)
THEOREM SplitTheorem == Spec => []RowsSplitByDirectoryOnly
<1>1. Inv => RowsSplitByDirectoryOnly  BY SplitIfFiles DEF Inv, Queue, Checkout
<1>2. QED  BY <1>1, Invariance, PTL

(* Only an evaluation of another harness in the same second leads a link   *)
(* astray (render.py:61-65).                                               *)
THEOREM StrayTheorem == Spec => []LinksStrayWithinASecondOnly
<1>1. Inv => LinksStrayWithinASecondOnly  BY StrayIfFiles DEF Inv, Queue, Checkout
<1>2. QED  BY <1>1, Invariance, PTL

(* No deployment takes the site back: not to an earlier commit, no path to *)
(* an earlier evaluation, no row to an earlier one while the report it     *)
(* shows is still there (leaderboard.yml:25-27, aggregate.py:142-162).     *)
THEOREM ForwardTheorem == Spec => NeverGoesBack
<1>1. ASSUME Inv, Inv', [Next]_vars PROVE [GoesForward]_site
  <2> SUFFICES ASSUME site' # site PROVE GoesForward  OBVIOUS
  <2>1. site' \in running
    BY <1>1 DEF Next, Workflow, Tick, Judge, Publish, Push, RemoveStray, Dispatch,
                StartRun, Deploy, RunFails, vars
  <2>2. Checkout(site, site'.commit, site'.files) /\ Files(site.files) /\ Files(site'.files)
    BY <1>1, <2>1 DEF Inv, Queue, Checkout
  <2>3. site'.commit >= site.commit
    <3>1. site.commit \in Nat /\ site'.commit \in Int /\ site.commit \in 0 .. site'.commit
      BY <1>1, <2>1, <2>2 DEF Inv, Queue, Checkout
    <3>2. QED  BY <3>1
  <2>4. Onward(site.files, site'.files)  BY <2>2 DEF Checkout
  <2>5. \A i \in DOMAIN render_site(site.files).index :
          harness_key(render_site(site.files).index[i].latest) = render_site(site.files).index[i].key
    BY <2>2, RowFacts
  <2>6. QED  BY <2>2, <2>3, <2>4, <2>5, RowOfRecord DEF GoesForward, Onward, IsReport
<1>2. QED  BY <1>1, Invariance, PTL DEF Spec, NeverGoesBack
=============================================================================
