---------------------------- MODULE SearchProofs ----------------------------
(***************************************************************************)
(* Proofs about ArxivSearch, for any papers, queries and revisions, any    *)
(* page size and limits, and pages that fail or come short at will.  The   *)
(* inductive invariant says where a query is: as long as its pages were    *)
(* whole and its feed stood still, it has yielded what it wants of the     *)
(* first `start` papers of the feed, all of it is harvested, and `emitted` *)
(* is how many they are.                                                   *)
(***************************************************************************)
EXTENDS ArxivSearch, FiniteSetTheorems, TLAPS

Types ==
  /\ arxiv \in [Papers -> Nat] /\ \A p \in Papers : arxiv[p] \in DOMAIN Released[p]
  /\ pc \in {"start", "refused", "search", "no_results", "found", "crashed"}
  /\ cutoff \in Nat /\ max_total \in MaxTotals /\ max_results \in MaxResults \cup {0}
  /\ results \subseteq Corpus!ArxivResult /\ IsFiniteSet(results)
  /\ query \in 1 .. Len(Queries) + 1
  /\ start \in 0 .. Cardinality(Papers) /\ attempt \in 0 .. 5 /\ emitted \in 0 .. max_results
  /\ intact \in BOOLEAN /\ due \subseteq Papers

(* A run starts empty-handed; while it searches, it has not enough yet and *)
(* the page under way has not failed for good.                             *)
Phase ==
  /\ pc = "start" => /\ results = {} /\ query = 1 /\ start = 0 /\ emitted = 0
                     /\ attempt = 0 /\ due = {}
  /\ pc = "search" => attempt <= 4 /\ Cardinality(results) < Corpus!AtMost(max_total)

(* What the current query has read, and what it wants of that. *)
Behind == Wanted(First(Feed(Queries[query]), start))

Progress ==
  /\ start = 0 => emitted = 0
  /\ Searching /\ intact =>
       Behind \subseteq PapersOf(results) /\ emitted = Cardinality(Behind)

Inv == Types /\ Phase /\ Progress /\ OneVersionEach /\ SearchIsComplete

-----------------------------------------------------------------------------
(* The order of a feed *)

(* arXiv lists the papers in one order: by date, then by id. *)
LEMMA OlderIsAnOrder ==
  /\ \A p \in Papers : ~Older(p, p)
  /\ \A p, q \in Papers : p = q \/ Older(p, q) \/ Older(q, p)
  /\ \A p, q, r \in Papers : Older(p, q) /\ Older(q, r) => Older(p, r)
<1>1. \A p \in Papers : p \in Nat /\ Released[p][1] \in Nat
  <2>1. TAKE p \in Papers
  <2>2. Released[p] \in Seq(Nat) /\ Released[p] # <<>>  BY SearchAssumption
  <2>3. QED  BY <2>2, SearchAssumption
<1>2. QED  BY <1>1 DEF Older

LEMMA PapersCount == Cardinality(Papers) \in Nat /\ 0 \in 0 .. Cardinality(Papers)
<1>1. Cardinality(Papers) \in Nat  BY FS_CardinalityType, SearchAssumption
<1>2. QED  BY <1>1

(* The papers ahead of one in a feed are fewer than the feed has, and the  *)
(* fewer the older it is.                                                  *)
LEMMA AheadFacts ==
  ASSUME NEW S \in SUBSET Papers
  PROVE  /\ IsFiniteSet(S) /\ Cardinality(S) \in Nat
         /\ \A p \in S : Ahead(S, p) \in Nat /\ Ahead(S, p) < Cardinality(S)
         /\ \A p, q \in S : Older(p, q) => Ahead(S, p) < Ahead(S, q)
         /\ \A p, q \in S : Ahead(S, p) < Ahead(S, q) => Older(p, q)
<1> DEFINE Front(p) == {q \in S : Older(q, p)}
<1>1. IsFiniteSet(S) /\ Cardinality(S) \in Nat
  BY FS_Subset, FS_CardinalityType, SearchAssumption
<1>2. \A p \in S : /\ Front(p) \in SUBSET S /\ p \notin Front(p)
                   /\ IsFiniteSet(Front(p)) /\ Cardinality(Front(p)) \in Nat
  <2>1. \A p \in S : Front(p) \in SUBSET S /\ p \notin Front(p)  BY OlderIsAnOrder
  <2>2. QED  BY <1>1, <2>1, FS_Subset, FS_CardinalityType
<1>3. ASSUME NEW p \in S PROVE Cardinality(Front(p)) < Cardinality(S)
  <2>1. Front(p) # S  BY <1>2
  <2> HIDE DEF Front
  <2>2. Cardinality(Front(p)) <= Cardinality(S) /\ Cardinality(Front(p)) # Cardinality(S)
    BY <1>1, <1>2, <2>1, FS_Subset
  <2>3. QED  BY <1>1, <1>2, <2>2
<1>4. ASSUME NEW p \in S, NEW q \in S, Older(p, q)
      PROVE  Cardinality(Front(p)) < Cardinality(Front(q))
  <2>1. Front(p) \in SUBSET Front(q)  BY <1>4, OlderIsAnOrder
  <2>2. Front(p) # Front(q)
    <3>1. p \in Front(q)  BY <1>4
    <3>2. QED  BY <1>2, <3>1
  <2> HIDE DEF Front
  <2>3. /\ Cardinality(Front(p)) <= Cardinality(Front(q))
        /\ Cardinality(Front(p)) # Cardinality(Front(q))
    BY <1>2, <2>1, <2>2, FS_Subset
  <2>4. QED  BY <1>2, <2>3
<1>5. \A p \in S : Ahead(S, p) = Cardinality(Front(p))  BY DEF Ahead
<1> HIDE DEF Front
<1>6. ASSUME NEW p \in S, NEW q \in S, Ahead(S, p) < Ahead(S, q) PROVE Older(p, q)
  <2>1. CASE p = q  BY <1>2, <1>5, <1>6, <2>1
  <2>2. CASE Older(q, p)
    <3>1. Cardinality(Front(q)) < Cardinality(Front(p))  BY <1>4, <2>2
    <3>2. QED  BY <1>2, <1>5, <1>6, <3>1
  <2>3. QED  BY <2>1, <2>2, OlderIsAnOrder
<1>7. QED  BY <1>1, <1>2, <1>3, <1>4, <1>5, <1>6

(* No two papers of a feed have the same place, and no place is empty.     *)
LEMMA PlacesDiffer ==
  ASSUME NEW S \in SUBSET Papers, NEW p \in S, NEW q \in S, Ahead(S, p) = Ahead(S, q)
  PROVE  p = q
<1>1. Ahead(S, p) \in Nat /\ Ahead(S, q) \in Nat  BY AheadFacts
<1>2. ~(Ahead(S, p) < Ahead(S, q)) /\ ~(Ahead(S, q) < Ahead(S, p))  BY <1>1
<1>3. ~Older(p, q) /\ ~Older(q, p)  BY <1>2, AheadFacts
<1>4. QED  BY <1>3, OlderIsAnOrder

LEMMA PlacesAreTaken ==
  ASSUME NEW S \in SUBSET Papers, NEW n \in Nat, n < Cardinality(S)
  PROVE  \E p \in S : Ahead(S, p) = n
<1> DEFINE places == 0 .. Cardinality(S) - 1
           f == [p \in S |-> Ahead(S, p)]
<1>1. IsFiniteSet(S) /\ Cardinality(S) \in Nat  BY AheadFacts
<1>2. IsFiniteSet(places) /\ Cardinality(places) = Cardinality(S)
  <2> DEFINE m == Cardinality(S)
  <2>1. 0 \in Int /\ m - 1 \in Int /\ ~(0 > m - 1) /\ m - 1 - 0 + 1 = m  BY <1>1
  <2> HIDE DEF m
  <2>2. QED  BY <2>1, FS_Interval DEF m
<1>3. f \in Injection(S, places)
  <2>1. \A p \in S : f[p] \in places
    <3>1. \A p \in S : Ahead(S, p) \in Nat /\ Ahead(S, p) < Cardinality(S)  BY AheadFacts
    <3>2. QED  BY <1>1, <3>1
  <2>2. f \in [S -> places]  BY <2>1
  <2>3. \A p, q \in S : f[p] = f[q] => p = q  BY PlacesDiffer
  <2>4. QED  BY <2>2, <2>3 DEF Injection, IsInjective
<1>4. n \in places  BY <1>1
<1> HIDE DEF places, f
<1>5. f \in Surjection(S, places)  BY <1>1, <1>2, <1>3, FS_Injection
<1>6. PICK p \in S : f[p] = n  BY <1>4, <1>5 DEF Surjection
<1>7. QED  BY <1>6 DEF f

(* A slice of a feed is no longer than asked for, and as long if papers    *)
(* come after it.                                                          *)
LEMMA SliceSize ==
  ASSUME NEW S \in SUBSET Papers, NEW from \in Nat, NEW length \in Nat
  PROVE  /\ Slice(S, from, length) \in SUBSET S
         /\ IsFiniteSet(Slice(S, from, length))
         /\ Cardinality(Slice(S, from, length)) \in 0 .. length
         /\ (\E p \in S : Ahead(S, p) >= from + length)
               => Cardinality(Slice(S, from, length)) = length
<1> DEFINE slice == Slice(S, from, length)
           places == from .. from + length - 1
           f == [p \in slice |-> Ahead(S, p)]
<1>1. slice \in SUBSET S /\ \A p \in slice : Ahead(S, p) \in places  BY DEF Slice
<1>2. IsFiniteSet(slice) /\ Cardinality(slice) \in Nat
  BY <1>1, AheadFacts, FS_Subset, FS_CardinalityType
<1>3. IsFiniteSet(places) /\ Cardinality(places) = length
  <2>1. /\ from \in Int /\ from + length - 1 \in Int
        /\ (IF from > from + length - 1 THEN 0 ELSE from + length - 1 - from + 1) = length
    OBVIOUS
  <2>2. QED  BY <2>1, FS_Interval
<1>4. f \in Injection(slice, places)
  <2>1. f \in [slice -> places]  BY <1>1
  <2>2. \A p, q \in slice : f[p] = f[q] => p = q  BY <1>1, PlacesDiffer
  <2>3. QED  BY <2>1, <2>2 DEF Injection, IsInjective
<1>5. Cardinality(slice) <= length
  <2> HIDE DEF f, places, slice
  <2>1. Cardinality(slice) <= Cardinality(places)  BY <1>3, <1>4, FS_Injection
  <2>2. QED  BY <1>3, <2>1
<1>6. ASSUME NEW p \in S, Ahead(S, p) >= from + length PROVE Cardinality(slice) = length
  <2>1. \A n \in places : \E q \in slice : f[q] = n
    <3>1. TAKE n \in places
    <3>2. Ahead(S, p) \in Nat /\ Cardinality(S) \in Nat /\ Ahead(S, p) < Cardinality(S)
      BY AheadFacts
    <3>3. n \in Nat /\ n < Cardinality(S)  BY <1>6, <3>2
    <3>4. PICK q \in S : Ahead(S, q) = n  BY <3>3, PlacesAreTaken
    <3>5. q \in slice  BY <3>4 DEF Slice
    <3>6. QED  BY <3>4, <3>5
  <2>2. f \in Surjection(slice, places)  BY <1>4, <2>1 DEF Surjection, Injection
  <2> HIDE DEF f, places, slice
  <2>3. Cardinality(slice) = Cardinality(places)  BY <1>3, <1>4, <2>2, FS_Injection
  <2>4. QED  BY <1>3, <2>3
<1>7. Cardinality(slice) \in 0 .. length  BY <1>2, <1>5
<1>8. QED  BY <1>1, <1>2, <1>6, <1>7

(* The first papers of a feed are a slice of it. *)
LEMMA FirstIsSlice ==
  ASSUME NEW S \in SUBSET Papers, NEW n \in Nat
  PROVE  First(S, n) = Slice(S, 0, n)
<1>1. \A p \in S : Ahead(S, p) \in Nat  BY AheadFacts
<1>2. \A p \in S : Ahead(S, p) < n <=> Ahead(S, p) \in 0 .. 0 + n - 1  BY <1>1
<1>3. QED  BY <1>2 DEF First, Slice

LEMMA FirstSize ==
  ASSUME NEW S \in SUBSET Papers, NEW n \in Nat
  PROVE  /\ First(S, n) \in SUBSET S /\ IsFiniteSet(First(S, n))
         /\ Cardinality(First(S, n)) \in 0 .. n
         /\ Cardinality(First(S, n)) # n => First(S, n) = S
<1>1. /\ First(S, n) \in SUBSET S /\ IsFiniteSet(First(S, n))
      /\ Cardinality(First(S, n)) \in 0 .. n
  <2>1. 0 \in Nat  OBVIOUS
  <2>2. /\ Slice(S, 0, n) \in SUBSET S /\ IsFiniteSet(Slice(S, 0, n))
        /\ Cardinality(Slice(S, 0, n)) \in 0 .. n
    BY <2>1, SliceSize
  <2>3. QED  BY <2>2, FirstIsSlice
<1>2. ASSUME Cardinality(First(S, n)) # n PROVE First(S, n) = S
  <2>1. \A p \in S : ~(Ahead(S, p) >= 0 + n)  BY <1>2, FirstIsSlice, SliceSize
  <2>2. \A p \in S : Ahead(S, p) \in Nat  BY AheadFacts
  <2>3. \A p \in S : Ahead(S, p) < n  BY <2>1, <2>2
  <2>4. QED  BY <2>3 DEF First
<1>3. QED  BY <1>1, <1>2

(* A page is what comes after what was read: together they are the first   *)
(* papers of the feed, with no gap and no paper twice.                     *)
LEMMA NextPage ==
  ASSUME NEW S \in SUBSET Papers, NEW n \in Nat, NEW length \in Nat
  PROVE  /\ First(S, n + length) = First(S, n) \cup Slice(S, n, length)
         /\ First(S, n) \cap Slice(S, n, length) = {}
<1>1. \A p \in S : Ahead(S, p) \in Nat  BY AheadFacts
<1>2. \A p \in S : /\ Ahead(S, p) < n + length <=>
                       Ahead(S, p) < n \/ Ahead(S, p) \in n .. n + length - 1
                   /\ ~(Ahead(S, p) < n /\ Ahead(S, p) \in n .. n + length - 1)
  BY <1>1
<1>3. QED  BY <1>2 DEF First, Slice

-----------------------------------------------------------------------------
(* What a page adds *)

LEMMA WantedFacts ==
  ASSUME NEW S \in SUBSET Papers, NEW T \in SUBSET Papers
  PROVE  /\ Wanted(S) \in SUBSET S /\ IsFiniteSet(Wanted(S))
         /\ Cardinality(Wanted(S)) \in Nat /\ Cardinality(Wanted(S)) <= Cardinality(S)
         /\ Wanted(S \cup T) = Wanted(S) \cup Wanted(T)
         /\ S \cap T = {} =>
              Cardinality(Wanted(S \cup T)) = Cardinality(Wanted(S)) + Cardinality(Wanted(T))
<1>1. Wanted(S) \in SUBSET S /\ Wanted(T) \in SUBSET T  BY DEF Wanted
<1>2. /\ IsFiniteSet(Wanted(S)) /\ Cardinality(Wanted(S)) \in Nat
      /\ IsFiniteSet(Wanted(T)) /\ Cardinality(Wanted(T)) \in Nat
      /\ Cardinality(Wanted(S)) <= Cardinality(S)
  BY <1>1, AheadFacts, FS_Subset, FS_CardinalityType
<1>3. Wanted(S \cup T) = Wanted(S) \cup Wanted(T)  BY DEF Wanted
<1>4. ASSUME S \cap T = {}
      PROVE  Cardinality(Wanted(S \cup T)) = Cardinality(Wanted(S)) + Cardinality(Wanted(T))
  <2>1. Wanted(S) \cap Wanted(T) = {}  BY <1>1, <1>4
  <2>2. Cardinality(Wanted(S) \cup Wanted(T))
          = Cardinality(Wanted(S)) + Cardinality(Wanted(T)) - Cardinality({})
    BY <1>2, <2>1, FS_Union
  <2>3. Cardinality({}) = 0  BY FS_EmptySet
  <2>4. Cardinality(Wanted(S) \cup Wanted(T)) = Cardinality(Wanted(S)) + Cardinality(Wanted(T))
    BY <1>2, <2>2, <2>3
  <2>5. QED  BY <1>3, <2>4
<1>5. QED  BY <1>1, <1>2, <1>3, <1>4

(* Some papers, each at the version arXiv serves: as many versions. *)
LEMMA ServedFacts ==
  ASSUME Types, NEW S \in SUBSET Papers
  PROVE  LET found == {Served(p) : p \in S} IN
         /\ found \in SUBSET Corpus!ArxivResult /\ PapersOf(found) = S
         /\ IsFiniteSet(found) /\ Cardinality(found) = Cardinality(S)
         /\ \A r \in found : r = Served(r.paper)
<1> DEFINE found == {Served(p) : p \in S}
           f == [p \in S |-> Served(p)]
<1>1. IsFiniteSet(S)  BY AheadFacts
<1>2. \A p \in S : Served(p).paper = p /\ Served(p) \in Corpus!ArxivResult
  <2>1. TAKE p \in S
  <2>2. Served(p) \in [paper : {p}, version : DOMAIN Released[p]]  BY DEF Types, Served
  <2>3. Served(p) \in Corpus!ArxivResult  BY <2>2 DEF Corpus!ArxivResult
  <2>4. Served(p).paper = p  BY DEF Served
  <2>5. QED  BY <2>3, <2>4
<1>3. PapersOf(found) = S  BY <1>2 DEF PapersOf
<1>4. \A r \in found : r = Served(r.paper)  BY <1>2
<1>5. f \in Surjection(S, found)  BY DEF Surjection
<1>6. f \in Injection(S, found)
  <2>1. \A p, q \in S : f[p] = f[q] => p = q
    <3>1. TAKE p, q \in S
    <3>2. f[p].paper = p /\ f[q].paper = q  BY <1>2
    <3>3. QED  BY <3>2
  <2>2. QED  BY <1>5, <2>1 DEF Injection, IsInjective, Surjection
<1>7. IsFiniteSet(found) /\ Cardinality(found) = Cardinality(S)
  <2> HIDE DEF found, f
  <2>1. QED  BY <1>1, <1>5, <1>6, FS_Surjection
<1>8. QED  BY <1>2, <1>3, <1>4, <1>7

LEMMA MaxResultsType == ASSUME Types PROVE max_results \in Nat
<1>1. max_results \in MaxResults \cup {0}  BY DEF Types
<1>2. QED  BY <1>1, SearchAssumption

LEMMA AtMostFacts ==
  ASSUME Types
  PROVE  /\ Corpus!AtMost(max_total) \in Nat /\ Corpus!AtMost(max_total) > 0
         /\ Cardinality(results) \in Nat
         /\ \A n \in Nat : n > 0 => (n >= Corpus!AtMost(max_total) <=> n >= max_total)
<1>1. max_total \in Nat  BY SearchAssumption DEF Types
<1>2. Cardinality(results) \in Nat  BY FS_CardinalityType DEF Types
<1>3. QED  BY <1>1, <1>2 DEF Corpus!AtMost

(* harvest_unique adds papers it did not have, at the version arXiv        *)
(* serves, up to the limit of the run, and all of them if it stays below.  *)
LEMMA SeenFacts ==
  ASSUME Types, Cardinality(results) < Corpus!AtMost(max_total), NEW Y \in SUBSET Papers
  PROVE  \E S \in SUBSET (Y \ PapersOf(results)) :
           LET found == {Served(p) : p \in S} IN
           /\ Seen(Y) = results \cup found /\ found \in SUBSET Corpus!ArxivResult
           /\ PapersOf(found) = S /\ \A r \in found : r = Served(r.paper)
           /\ IsFiniteSet(Seen(Y))
           /\ Cardinality(Seen(Y)) \in 0 .. Corpus!AtMost(max_total)
           /\ Cardinality(Seen(Y)) = Cardinality(results) + Cardinality(S)
           /\ Cardinality(Seen(Y)) < Corpus!AtMost(max_total) => Y \subseteq PapersOf(Seen(Y))
<1> DEFINE new == Y \ PapersOf(results)
           S == First(new, Room)
           found == {Served(p) : p \in S}
<1>1. new \in SUBSET Papers /\ Room \in Nat
      /\ Room = Corpus!AtMost(max_total) - Cardinality(results)
  BY AtMostFacts DEF Room
<1>2. /\ S \in SUBSET new /\ IsFiniteSet(S) /\ Cardinality(S) \in 0 .. Room
      /\ Cardinality(S) # Room => S = new
  BY <1>1, FirstSize
<1>3. Seen(Y) = results \cup found  BY DEF Seen
<1>4. /\ found \in SUBSET Corpus!ArxivResult /\ PapersOf(found) = S
      /\ IsFiniteSet(found) /\ Cardinality(found) = Cardinality(S)
      /\ \A r \in found : r = Served(r.paper)
  <2>1. S \in SUBSET Papers  BY <1>1, <1>2
  <2> HIDE DEF S
  <2>2. QED  BY <2>1, ServedFacts
<1> HIDE DEF found, S
<1>5. results \cap found = {}
  <2>1. \A r \in results : r.paper \in PapersOf(results)  BY DEF PapersOf
  <2>2. \A r \in found : r.paper \in S  BY <1>4 DEF PapersOf
  <2>3. QED  BY <1>2, <2>1, <2>2
<1>6. /\ IsFiniteSet(Seen(Y))
      /\ Cardinality(Seen(Y)) = Cardinality(results) + Cardinality(S)
  <2>1. IsFiniteSet(results)  BY DEF Types
  <2>2. /\ IsFiniteSet(results \cup found)
        /\ Cardinality(results \cup found)
             = Cardinality(results) + Cardinality(found) - Cardinality({})
    BY <1>4, <1>5, <2>1, FS_Union
  <2>3. Cardinality({}) = 0  BY FS_EmptySet
  <2>4. QED  BY <1>1, <1>2, <1>3, <1>4, <2>2, <2>3, AtMostFacts
<1>7. Cardinality(Seen(Y)) \in 0 .. Corpus!AtMost(max_total)
  BY <1>1, <1>2, <1>6, AtMostFacts
<1>8. ASSUME Cardinality(Seen(Y)) < Corpus!AtMost(max_total)
      PROVE  Y \subseteq PapersOf(Seen(Y))
  <2>1. S = new  BY <1>1, <1>2, <1>6, <1>8, AtMostFacts
  <2>2. PapersOf(Seen(Y)) = PapersOf(results) \cup PapersOf(found)  BY <1>3 DEF PapersOf
  <2>3. QED  BY <1>4, <2>1, <2>2
<1>9. /\ S \in SUBSET (Y \ PapersOf(results))
      /\ Seen(Y) = results \cup found /\ found \in SUBSET Corpus!ArxivResult
      /\ PapersOf(found) = S /\ \A r \in found : r = Served(r.paper)
      /\ IsFiniteSet(Seen(Y))
      /\ Cardinality(Seen(Y)) \in 0 .. Corpus!AtMost(max_total)
      /\ Cardinality(Seen(Y)) = Cardinality(results) + Cardinality(S)
      /\ Cardinality(Seen(Y)) < Corpus!AtMost(max_total) => Y \subseteq PapersOf(Seen(Y))
  BY <1>2, <1>3, <1>4, <1>6, <1>7, <1>8
<1>10. QED  BY <1>9 DEF found

-----------------------------------------------------------------------------
(* Paging *)

Asked == Slice(Feed(Queries[query]), start, Window)

LEMMA PageFacts ==
  ASSUME Types, Searching, emitted < max_results, NEW entries \in SUBSET Asked
  PROVE  /\ Feed(Queries[query]) \in SUBSET Papers
         /\ Asked \in SUBSET Papers /\ Wanted(entries) \in SUBSET Papers
         /\ Window \in Nat \ {0}
         /\ Cardinality(entries) \in 0 .. Window
         /\ Cardinality(Wanted(entries)) \in Nat
         /\ emitted + Cardinality(Wanted(entries)) \in 0 .. max_results
<1>1. Feed(Queries[query]) \in SUBSET Papers  BY DEF Feed
<1>2. /\ max_results \in Nat /\ emitted \in Nat /\ start \in Nat
      /\ Window \in Nat \ {0} /\ Window <= max_results - emitted
  <2>1. max_results \in Nat /\ emitted \in Nat /\ page_size \in Nat \ {0} /\ start \in Nat
    BY SearchAssumption DEF Types
  <2>2. QED  BY <2>1 DEF Window, Minimum
<1>3. /\ Asked \in SUBSET Feed(Queries[query]) /\ IsFiniteSet(Asked)
      /\ Cardinality(Asked) \in 0 .. Window
  BY <1>1, <1>2, SliceSize DEF Asked
<1>4. entries \in SUBSET Papers /\ Cardinality(entries) <= Cardinality(Asked)
  BY <1>1, <1>3, FS_Subset
<1>5. /\ Wanted(entries) \in SUBSET entries /\ Cardinality(Wanted(entries)) \in Nat
      /\ Cardinality(entries) \in Nat
      /\ Cardinality(Wanted(entries)) <= Cardinality(entries)
  BY <1>4, WantedFacts, AheadFacts
<1>6. QED  BY <1>1, <1>2, <1>3, <1>4, <1>5

(* A full page ends within the feed. *)
LEMMA FullPage ==
  ASSUME Types, Searching, emitted < max_results, NEW entries \in SUBSET Asked,
         ~(Cardinality(entries) < Window)
  PROVE  start + Window <= Cardinality(Papers)
<1> DEFINE F == Feed(Queries[query])
<1>1. /\ F \in SUBSET Papers /\ Window \in Nat \ {0}
      /\ Cardinality(entries) \in 0 .. Window /\ start \in Nat /\ Cardinality(Papers) \in Nat
  BY PageFacts, PapersCount DEF Types
<1>2. Asked \in SUBSET F /\ IsFiniteSet(Asked) /\ Cardinality(Asked) \in 0 .. Window
  <2> HIDE DEF F
  <2>1. QED  BY <1>1, SliceSize DEF Asked, F
<1>3. Cardinality(Asked) = Window
  <2>1. Cardinality(entries) <= Cardinality(Asked)  BY <1>2, FS_Subset
  <2>2. QED  BY <1>1, <1>2, <2>1
<1>4. SUFFICES ASSUME ~(start + Window <= Cardinality(Papers)) PROVE FALSE
  OBVIOUS
<1> DEFINE n == Cardinality(F) - start
<1>5. Cardinality(F) \in Nat /\ Cardinality(F) < start + Window
  <2>1. Cardinality(F) <= Cardinality(Papers) /\ Cardinality(F) \in Nat
    BY <1>1, AheadFacts, FS_Subset, SearchAssumption
  <2> HIDE DEF F
  <2>2. QED  BY <1>1, <1>4, <2>1
<1>6. \A p \in Asked : Ahead(F, p) \in start .. start + n - 1
  <2>1. TAKE p \in Asked
  <2>2. p \in F /\ Ahead(F, p) \in start .. start + Window - 1  BY DEF Asked, Slice
  <2>3. Ahead(F, p) \in Nat /\ Ahead(F, p) < Cardinality(F)  BY <1>1, <2>2, AheadFacts
  <2> HIDE DEF F
  <2>4. QED  BY <1>1, <1>5, <2>2, <2>3
<1>7. n \in Nat /\ n < Window
  <2>1. Asked # {}  BY <1>1, <1>2, <1>3, FS_EmptySet
  <2>2. PICK p \in Asked : Ahead(F, p) \in start .. start + n - 1  BY <1>6, <2>1
  <2> HIDE DEF F
  <2>3. QED  BY <1>1, <1>5, <2>2
<1>8. Asked = Slice(F, start, n)
  <2>1. Asked \in SUBSET Slice(F, start, n)  BY <1>2, <1>6 DEF Slice
  <2>2. Slice(F, start, n) \in SUBSET Asked
    <3>1. start .. start + n - 1 \subseteq start .. start + Window - 1
      <4> HIDE DEF n
      <4>1. QED  BY <1>1, <1>7
    <3>2. QED  BY <3>1 DEF Slice, Asked
  <2>3. QED  BY <2>1, <2>2
<1>9. Cardinality(Slice(F, start, n)) <= n
  <2> HIDE DEF F, n
  <2>1. Cardinality(Slice(F, start, n)) \in 0 .. n  BY <1>1, <1>7, SliceSize
  <2>2. QED  BY <1>7, <2>1
<1>10. QED
  <2> HIDE DEF F, n
  <2>1. QED  BY <1>1, <1>3, <1>7, <1>8, <1>9

(* After a whole page the query has yielded what it wants of the papers    *)
(* up to the end of that page.                                             *)
LEMMA NoGap ==
  ASSUME Types, Progress, Searching, intact, emitted < max_results
  PROVE  LET after == Wanted(First(Feed(Queries[query]), start + Window)) IN
         /\ after = Behind \cup Wanted(Asked)
         /\ Cardinality(after) = emitted + Cardinality(Wanted(Asked))
<1> DEFINE F == Feed(Queries[query])
           A == First(F, start)
<1>1. F \in SUBSET Papers /\ Asked \in SUBSET Papers /\ Window \in Nat /\ start \in Nat
  BY PageFacts DEF Types
<1>2. A \in SUBSET Papers  BY <1>1 DEF First
<1>3. First(F, start + Window) = A \cup Asked /\ A \cap Asked = {}
  BY <1>1, NextPage DEF Asked
<1>4. Behind = Wanted(A) /\ emitted = Cardinality(Wanted(A))  BY DEF Behind, Progress
<1> HIDE DEF F, A
<1>5. /\ Wanted(A \cup Asked) = Wanted(A) \cup Wanted(Asked)
      /\ Cardinality(Wanted(A \cup Asked)) = Cardinality(Wanted(A)) + Cardinality(Wanted(Asked))
  BY <1>1, <1>2, <1>3, WantedFacts
<1>6. QED  BY <1>3, <1>4, <1>5 DEF F

(* A query that stops on a whole page has yielded what it was to bring:    *)
(* a paper still to come is behind as many as it may yield, or there is    *)
(* none, for the page was not full.                                        *)
LEMMA QueryIsThrough ==
  ASSUME Types, Progress, Searching, intact, emitted < max_results,
         \/ emitted + Cardinality(Wanted(Asked)) = max_results
         \/ Cardinality(Asked) < Window
  PROVE  DueOf(Queries[query]) \subseteq Behind \cup Wanted(Asked)
<1> DEFINE F == Feed(Queries[query])
           read == First(F, start + Window)
<1>1. /\ F \in SUBSET Papers /\ Window \in Nat \ {0} /\ start \in Nat
      /\ max_results \in Nat /\ emitted \in Nat
      /\ Cardinality(Wanted(Asked)) \in Nat
  BY PageFacts, SearchAssumption DEF Types
<1>2. read \in SUBSET F /\ Wanted(F) \in SUBSET F /\ Wanted(read) \in SUBSET read
  BY DEF First, Wanted
<1>3. /\ Wanted(read) = Behind \cup Wanted(Asked)
      /\ Cardinality(Wanted(read)) = emitted + Cardinality(Wanted(Asked))
  BY NoGap
<1>4. SUFFICES ASSUME NEW p \in DueOf(Queries[query]), p \notin Wanted(read) PROVE FALSE
  BY <1>3
<1>5. p \in Wanted(F) /\ p \in F /\ Ahead(Wanted(F), p) < max_results
  BY <1>2 DEF DueOf, First
<1>6. p \notin read  BY <1>4, <1>5 DEF Wanted
<1>7. Ahead(F, p) \in Nat /\ Ahead(F, p) >= start + Window
  <2>1. Ahead(F, p) \in Nat  BY <1>1, <1>5, AheadFacts
  <2>2. ~(Ahead(F, p) < start + Window)  BY <1>5, <1>6 DEF First
  <2>3. QED  BY <1>1, <2>1, <2>2
<1>8. Cardinality(Asked) = Window
  <2> HIDE DEF F
  <2>1. QED  BY <1>1, <1>5, <1>7, SliceSize DEF Asked, F
<1>9. Cardinality(Wanted(read)) = max_results  BY <1>1, <1>3, <1>8
<1>10. \A q \in Wanted(read) : q \in Wanted(F) /\ Older(q, p)
  <2>1. TAKE q \in Wanted(read)
  <2>2. q \in F /\ Ahead(F, q) < start + Window /\ q \in Wanted(F)
    BY <1>2 DEF First, Wanted
  <2>3. Ahead(F, q) \in Nat  BY <1>1, <2>2, AheadFacts
  <2>4. Ahead(F, q) < Ahead(F, p)  BY <1>1, <1>7, <2>2, <2>3
  <2>5. QED  BY <1>1, <1>5, <2>2, <2>4, AheadFacts
<1>11. Cardinality(Wanted(read)) <= Ahead(Wanted(F), p)
  <2> DEFINE front == {q \in Wanted(F) : Older(q, p)}
  <2>1. Wanted(read) \in SUBSET front  BY <1>10
  <2>2. front \in SUBSET Papers  BY <1>1, <1>2
  <2>3. IsFiniteSet(front)  BY <2>2, AheadFacts
  <2>4. Ahead(Wanted(F), p) = Cardinality(front)  BY DEF Ahead
  <2> HIDE DEF front, read, F
  <2>5. QED  BY <2>1, <2>3, <2>4, FS_Subset
<1>12. Ahead(Wanted(F), p) \in Nat
  <2>1. Wanted(F) \in SUBSET Papers  BY <1>1, <1>2
  <2>2. QED  BY <1>5, <2>1, AheadFacts
<1>13. QED  BY <1>1, <1>5, <1>9, <1>11, <1>12

-----------------------------------------------------------------------------
(* The invariant *)

(* How a page may end: the run has enough, the query is through, or it     *)
(* goes on.                                                                *)
Enough ==
  /\ Cardinality(results') >= Corpus!AtMost(max_total)
  /\ pc' = "found" /\ UNCHANGED <<query, start, emitted, intact, due>>

Through(entries) ==
  /\ \/ emitted + Cardinality(Wanted(entries)) = max_results
     \/ Cardinality(entries) < Window
  /\ pc' = pc /\ QueryEnds
  /\ due' = IF intact /\ entries = Asked THEN due \cup DueOf(Queries[query]) ELSE due

Onward(entries) ==
  /\ ~(Cardinality(entries) < Window)
  /\ pc' = pc /\ query' = query /\ due' = due
  /\ start' = start + Window /\ intact' = (intact /\ entries = Asked)
  /\ emitted' = emitted + Cardinality(Wanted(entries))

LEMMA PageCases ==
  ASSUME Page
  PROVE  /\ Searching /\ emitted < max_results /\ attempt' = 0 /\ UNCHANGED <<arxiv, seeds>>
         /\ \E entries \in SUBSET Asked :
              /\ results' = Seen(Wanted(entries))
              /\ \/ Enough
                 \/ /\ ~(Cardinality(results') >= Corpus!AtMost(max_total))
                    /\ Through(entries) \/ Onward(entries)
<1>1. PICK empty \in BOOLEAN :
        LET entries == IF empty THEN {} ELSE {p \in Asked : Served(p) \notin Unparsable}
            yielded == Wanted(entries)
            total   == emitted + Cardinality(yielded)
            whole   == intact /\ entries = Asked
        IN
        /\ results' = Seen(yielded)
        /\ IF Cardinality(results') >= Corpus!AtMost(max_total)
             THEN pc' = "found" /\ UNCHANGED <<query, start, emitted, intact, due>>
             ELSE IF total = max_results \/ Cardinality(entries) < Window
             THEN /\ QueryEnds
                  /\ due' = IF whole THEN due \cup DueOf(Queries[query]) ELSE due
             ELSE /\ start' = NextStart /\ emitted' = total /\ intact' = whole
                  /\ UNCHANGED <<pc, query, due>>
  BY DEF Page, Asked
<1> DEFINE entries == IF empty THEN {} ELSE {p \in Asked : Served(p) \notin Unparsable}
<1>2. entries \in SUBSET Asked  OBVIOUS
<1>3. results' = Seen(Wanted(entries))  BY <1>1
<1>4. \/ Enough
      \/ /\ ~(Cardinality(results') >= Corpus!AtMost(max_total))
         /\ Through(entries) \/ Onward(entries)
  <2> HIDE DEF entries
  <2>1. CASE Cardinality(results') >= Corpus!AtMost(max_total)
    BY <1>1, <2>1 DEF Enough
  <2>2. CASE /\ ~(Cardinality(results') >= Corpus!AtMost(max_total))
             /\ \/ emitted + Cardinality(Wanted(entries)) = max_results
                \/ Cardinality(entries) < Window
    BY <1>1, <2>2 DEF Through, QueryEnds, entries
  <2>3. CASE /\ ~(Cardinality(results') >= Corpus!AtMost(max_total))
             /\ ~(\/ emitted + Cardinality(Wanted(entries)) = max_results
                  \/ Cardinality(entries) < Window)
    BY <1>1, <2>3 DEF Onward, NextStart, entries
  <2>4. QED  BY <2>1, <2>2, <2>3
<1>5. QED  BY <1>2, <1>3, <1>4 DEF Page

(* A query that starts has nothing behind it. *)
LEMMA NothingBehind ==
  ASSUME start' = 0
  PROVE  Behind' = {} /\ Cardinality(Behind') = 0
<1>1. Feed(Queries[query])' \in SUBSET Papers  BY DEF Feed
<1>2. First(Feed(Queries[query])', 0) = {}
  <2>1. \A p \in Feed(Queries[query])' : Ahead(Feed(Queries[query])', p) \in Nat
    BY <1>1, AheadFacts
  <2>2. \A p \in Feed(Queries[query])' : ~(Ahead(Feed(Queries[query])', p) < 0)
    BY <2>1
  <2>3. QED  BY <2>2 DEF First
<1>3. Behind' = {p \in First(Feed(Queries[query])', 0) :
                   Released[p][1] < cutoff' /\ p \notin Blocklist}
  BY DEF Behind, Wanted
<1>4. Behind' = {}  BY <1>2, <1>3
<1>5. QED  BY <1>4, FS_EmptySet

(* Where the feed stands still, what the query is behind is a matter of    *)
(* the place it has reached.                                               *)
LEMMA FeedStands ==
  ASSUME UNCHANGED <<arxiv, cutoff, query>>
  PROVE  Behind' = Wanted(First(Feed(Queries[query]), start'))
BY DEF Behind, Wanted, Feed, Served

LEMMA InitInv == Init => Inv
<1>1. SUFFICES ASSUME Init PROVE Inv  OBVIOUS
<1>2. Types
  <2>1. \A p \in Papers : 1 \in DOMAIN Released[p]
    <3>1. TAKE p \in Papers
    <3>2. Released[p] \in Seq(Nat) /\ Released[p] # <<>>  BY SearchAssumption
    <3>3. QED  BY <3>2
  <2>2. arxiv \in [Papers -> Nat] /\ \A p \in Papers : arxiv[p] \in DOMAIN Released[p]
    BY <1>1, <2>1 DEF Init
  <2>3. IsFiniteSet(results) /\ results \subseteq Corpus!ArxivResult
    BY <1>1, FS_EmptySet DEF Init
  <2>4. query \in 1 .. Len(Queries) + 1  BY <1>1, SearchAssumption DEF Init
  <2>5. QED
    BY <1>1, <2>2, <2>3, <2>4, SearchAssumption, PapersCount DEF Init, Types
<1>3. Phase /\ Progress  BY <1>1 DEF Init, Phase, Progress, Searching
<1>4. OneVersionEach /\ SearchIsComplete
  BY <1>1 DEF Init, OneVersionEach, SearchIsComplete
<1>5. QED  BY <1>2, <1>3, <1>4 DEF Inv

LEMMA ReviseStep ==
  ASSUME Inv, NEW p \in Papers, Revise(p)
  PROVE  Inv'
<1>1. Types'
  <2>1. arxiv' \in [Papers -> Nat] /\ \A q \in Papers : arxiv'[q] \in DOMAIN Released[q]
    <3>1. Released[p] \in Seq(Nat)  BY SearchAssumption
    <3>2. arxiv[p] \in Nat /\ arxiv[p] \in DOMAIN Released[p] /\ arxiv[p] < Len(Released[p])
      BY DEF Inv, Types, Revise
    <3>3. arxiv[p] + 1 \in Nat /\ arxiv[p] + 1 \in DOMAIN Released[p]  BY <3>1, <3>2
    <3>4. arxiv' = [arxiv EXCEPT ![p] = arxiv[p] + 1]  BY DEF Revise
    <3>5. QED  BY <3>3, <3>4 DEF Inv, Types
  <2>2. intact' \in BOOLEAN  BY DEF Inv, Types, Revise
  <2>3. QED  BY <2>1, <2>2 DEF Inv, Types, Revise, seeds
<1>2. Phase'  BY DEF Inv, Phase, Revise, seeds
<1>3. Progress'
  <2>1. start' = 0 => emitted' = 0  BY DEF Inv, Progress, Revise
  <2>2. ASSUME Searching', intact'
        PROVE  Behind' \subseteq PapersOf(results)' /\ emitted' = Cardinality(Behind')
    <3>1. CASE start = 0
      <4>1. start' = 0 /\ emitted' = 0  BY <2>1, <3>1 DEF Revise
      <4>2. QED  BY <4>1, NothingBehind
    <3>2. CASE start # 0
      <4>1. start > 0  BY <3>2 DEF Inv, Types
      <4>2. Searching  BY <2>2 DEF Searching, Revise
      <4>3. intact /\ Feed(Queries[query])' = Feed(Queries[query])
        BY <2>2, <4>1, <4>2 DEF Revise
      <4>4. Behind' = Behind  BY <4>3 DEF Behind, Wanted, Revise, seeds
      <4>5. results' = results /\ emitted' = emitted  BY DEF Revise
      <4>6. QED  BY <4>2, <4>3, <4>4, <4>5 DEF Inv, Progress, PapersOf
    <3>3. QED  BY <3>1, <3>2
  <2>3. QED  BY <2>1, <2>2 DEF Progress
<1>4. OneVersionEach' /\ SearchIsComplete'
  BY DEF Inv, OneVersionEach, SearchIsComplete, PapersOf, Revise
<1>5. QED  BY <1>1, <1>2, <1>3, <1>4 DEF Inv

LEMMA StartStep ==
  ASSUME Inv, NEW c \in SeedCutoffs, NEW n \in MaxTotals, NEW m \in MaxResults, Start(c, n, m)
  PROVE  Inv'
<1>1. /\ results' = results /\ results = {} /\ start' = 0 /\ emitted' = 0 /\ attempt' = 0
      /\ pc' \in {"refused", "search"} /\ max_total' = n /\ max_results' = m /\ cutoff' = c
      /\ UNCHANGED <<arxiv, query, intact, due>> /\ due = {}
  BY DEF Inv, Phase, Start, search
<1>2. n \in Nat /\ m \in Nat /\ c \in Nat  BY SearchAssumption
<1>3. Types'  BY <1>1, <1>2, PapersCount DEF Inv, Types
<1>4. Phase'
  <2>1. Cardinality(results') = 0  BY <1>1, FS_EmptySet
  <2>2. Cardinality(results') < Corpus!AtMost(max_total)'
    BY <1>1, <1>2, <2>1 DEF Corpus!AtMost
  <2>3. QED  BY <1>1, <2>2 DEF Phase
<1>5. Progress'  BY <1>1, NothingBehind DEF Progress
<1>6. OneVersionEach' /\ SearchIsComplete'
  BY <1>1 DEF OneVersionEach, SearchIsComplete
<1>7. QED  BY <1>3, <1>4, <1>5, <1>6 DEF Inv

LEMMA NothingToAskStep ==
  ASSUME Inv, NothingToAsk
  PROVE  Inv'
<1>1. /\ query' = query + 1 /\ start' = 0 /\ emitted' = 0 /\ intact' = TRUE
      /\ UNCHANGED <<arxiv, pc, cutoff, max_total, max_results, results, attempt, due>>
      /\ pc = "search" /\ query <= Len(Queries)
  BY DEF NothingToAsk, QueryEnds, Searching, seeds
<1>2. query' \in 1 .. Len(Queries) + 1
  <2>1. Len(Queries) \in Nat  BY SearchAssumption
  <2>2. QED  BY <1>1, <2>1 DEF Inv, Types
<1>3. Types'
  <2>1. max_results \in Nat  BY MaxResultsType DEF Inv
  <2>2. QED  BY <1>1, <1>2, <2>1, PapersCount DEF Inv, Types
<1>4. Phase'  BY <1>1 DEF Inv, Phase
<1>5. Progress'  BY <1>1, NothingBehind DEF Progress
<1>6. OneVersionEach' /\ SearchIsComplete'
  BY <1>1 DEF Inv, OneVersionEach, SearchIsComplete, PapersOf
<1>7. QED  BY <1>3, <1>4, <1>5, <1>6 DEF Inv

(* A page fails: the place in the feed stays. *)
LEMMA PageFailsStep ==
  ASSUME Inv, PageFails
  PROVE  Inv'
<1>1. /\ pc = "search" /\ attempt \in 0 .. 4 /\ attempt' = attempt + 1
      /\ pc' = IF attempt = 4 THEN "crashed" ELSE pc
      /\ UNCHANGED <<arxiv, cutoff, max_total, max_results, results, query, start, emitted,
                     intact, due>>
  BY DEF Inv, Types, Phase, PageFails, Searching, seeds
<1>2. Types'  BY <1>1 DEF Inv, Types
<1>3. Phase'  BY <1>1 DEF Inv, Phase
<1>4. Progress'
  <2>1. Behind' = Behind  BY <1>1, FeedStands DEF Behind
  <2>2. Searching' => Searching  BY <1>1 DEF Searching
  <2>3. QED  BY <1>1, <2>1, <2>2 DEF Inv, Progress, PapersOf
<1>5. OneVersionEach' /\ SearchIsComplete'
  BY <1>1 DEF Inv, OneVersionEach, SearchIsComplete, PapersOf
<1>6. QED  BY <1>2, <1>3, <1>4, <1>5 DEF Inv

LEMMA SearchIsOver ==
  ASSUME Inv, pc' \in {"no_results", "found", "crashed"},
         UNCHANGED <<arxiv, seeds, results, search, due>>
  PROVE  Inv'
<1>1. UNCHANGED <<arxiv, cutoff, max_total, max_results, results, query, start, emitted,
                  attempt, intact, due>>
  BY DEF seeds, search
<1>2. Types'  BY <1>1 DEF Inv, Types
<1>3. Phase'  BY DEF Phase
<1>4. Progress'  BY <1>1 DEF Inv, Progress, Searching
<1>5. OneVersionEach' /\ SearchIsComplete'
  BY <1>1 DEF Inv, OneVersionEach, SearchIsComplete, PapersOf
<1>6. QED  BY <1>2, <1>3, <1>4, <1>5 DEF Inv

(* A page arrives.  The three ways it may end differ in where the search   *)
(* goes on; what is harvested is the same in all of them.                  *)
LEMMA PageStep ==
  ASSUME Inv, Page
  PROVE  Inv'
<1>1. Types /\ Phase /\ Progress /\ OneVersionEach /\ SearchIsComplete  BY DEF Inv
<1>2. /\ Searching /\ emitted < max_results /\ attempt' = 0 /\ UNCHANGED <<arxiv, seeds>>
  BY PageCases
<1>3. UNCHANGED <<cutoff, max_total, max_results>>  BY <1>2 DEF seeds
<1>4. PICK entries \in SUBSET Asked :
        /\ results' = Seen(Wanted(entries))
        /\ \/ Enough
           \/ /\ ~(Cardinality(results') >= Corpus!AtMost(max_total))
              /\ Through(entries) \/ Onward(entries)
  BY PageCases
<1> DEFINE yielded == Wanted(entries)
           limit == Corpus!AtMost(max_total)
<1>5. pc = "search" /\ query <= Len(Queries) /\ Cardinality(results) < limit
  BY <1>1, <1>2 DEF Searching, Phase
<1>6. /\ Asked \in SUBSET Papers /\ yielded \in SUBSET Papers
      /\ Window \in Nat \ {0} /\ Cardinality(entries) \in 0 .. Window
      /\ Cardinality(yielded) \in Nat
      /\ emitted + Cardinality(yielded) \in 0 .. max_results
  BY <1>1, <1>2, PageFacts
<1> HIDE DEF yielded
<1>7. PICK S \in SUBSET (yielded \ PapersOf(results)) :
        LET found == {Served(p) : p \in S} IN
        /\ Seen(yielded) = results \cup found /\ found \in SUBSET Corpus!ArxivResult
        /\ PapersOf(found) = S /\ \A r \in found : r = Served(r.paper)
        /\ IsFiniteSet(Seen(yielded))
        /\ Cardinality(Seen(yielded)) \in 0 .. limit
        /\ Cardinality(Seen(yielded)) = Cardinality(results) + Cardinality(S)
        /\ Cardinality(Seen(yielded)) < limit => yielded \subseteq PapersOf(Seen(yielded))
  BY <1>1, <1>5, <1>6, SeenFacts
<1> DEFINE found == {Served(p) : p \in S}
<1>8. results' = Seen(yielded)  BY <1>4 DEF yielded
<1>9. /\ results' = results \cup found /\ results' \subseteq Corpus!ArxivResult
      /\ IsFiniteSet(results') /\ Cardinality(results') \in 0 .. limit
      /\ PapersOf(found) = S /\ \A r \in found : r = Served(r.paper)
  BY <1>1, <1>7, <1>8 DEF Types
<1>10. Cardinality(results') < limit => yielded \subseteq PapersOf(results')
  BY <1>7, <1>8
<1> HIDE DEF found
<1>11. limit \in Nat  BY <1>1, AtMostFacts
<1>12. ~(Cardinality(results') >= limit) <=> Cardinality(results') < limit
  <2> HIDE DEF limit
  <2>1. QED  BY <1>9, <1>11
<1>13. PapersOf(results) \subseteq PapersOf(results')  BY <1>9 DEF PapersOf
<1>14. OneVersionEach'
  <2>1. SUFFICES ASSUME NEW r \in results', NEW s \in results', r.paper = s.paper PROVE r = s
    BY DEF OneVersionEach
  <2>2. \A t \in results : t.paper \in PapersOf(results)  BY DEF PapersOf
  <2>3. \A t \in found : t.paper \notin PapersOf(results)  BY <1>9 DEF PapersOf
  <2>4. CASE r \in results /\ s \in results  BY <1>1, <2>1, <2>4 DEF OneVersionEach
  <2>5. CASE r \in found /\ s \in found  BY <1>9, <2>1, <2>5
  <2>6. QED  BY <1>9, <2>1, <2>2, <2>3, <2>4, <2>5
<1>15. /\ results' \subseteq Corpus!ArxivResult /\ IsFiniteSet(results')
       /\ UNCHANGED <<arxiv, cutoff, max_total, max_results>> /\ attempt' = 0
  BY <1>2, <1>3, <1>9
<1>16. CASE Enough
  <2>1. /\ pc' = "found"
        /\ UNCHANGED <<query, start, emitted, intact, due>>
    BY <1>16 DEF Enough
  <2>2. Types'  BY <1>1, <1>15, <2>1 DEF Types
  <2>3. Phase' /\ Progress'  BY <1>1, <2>1 DEF Phase, Progress, Searching
  <2>4. SearchIsComplete'  BY <1>1, <1>13, <2>1 DEF SearchIsComplete, PapersOf
  <2>5. QED  BY <1>14, <2>2, <2>3, <2>4 DEF Inv
<1>17. CASE Cardinality(results') < limit /\ Through(entries)
  <2>1. /\ pc' = "search" /\ query' = query + 1 /\ start' = 0 /\ emitted' = 0 /\ intact' = TRUE
        /\ due' = IF intact /\ entries = Asked THEN due \cup DueOf(Queries[query]) ELSE due
    BY <1>5, <1>17 DEF Through, QueryEnds
  <2>2. DueOf(Queries[query]) \subseteq Papers  BY DEF DueOf, First, Wanted, Feed
  <2>3. Types'
    <3>1. query' \in 1 .. Len(Queries) + 1
      <4>1. Len(Queries) \in Nat  BY SearchAssumption
      <4>2. QED  BY <1>1, <1>5, <2>1, <4>1 DEF Types
    <3>2. due' \subseteq Papers  BY <1>1, <2>1, <2>2 DEF Types
    <3>3. max_results \in Nat  BY <1>1, MaxResultsType
    <3>4. QED  BY <1>1, <1>15, <2>1, <3>1, <3>2, <3>3, PapersCount DEF Types
  <2>4. Phase'  BY <1>15, <1>17, <2>1 DEF Phase
  <2>5. Progress'  BY <2>1, NothingBehind DEF Progress
  <2>6. SearchIsComplete'
    <3>1. CASE intact /\ entries = Asked
      <4>1. DueOf(Queries[query]) \subseteq Behind \cup yielded
        BY <1>1, <1>2, <1>17, <3>1, QueryIsThrough DEF Through, yielded
      <4>2. Behind \subseteq PapersOf(results)  BY <1>1, <1>2, <3>1 DEF Progress
      <4>3. due \cup DueOf(Queries[query]) \subseteq PapersOf(results')
        BY <1>1, <1>10, <1>13, <1>17, <4>1, <4>2 DEF SearchIsComplete
      <4>4. QED  BY <2>1, <3>1, <4>3 DEF SearchIsComplete, PapersOf
    <3>2. CASE ~(intact /\ entries = Asked)
      BY <1>1, <1>13, <2>1, <3>2 DEF SearchIsComplete, PapersOf
    <3>3. QED  BY <3>1, <3>2
  <2>7. QED  BY <1>14, <2>3, <2>4, <2>5, <2>6 DEF Inv
<1>18. CASE Cardinality(results') < limit /\ Onward(entries)
  <2>1. /\ pc' = "search" /\ query' = query /\ due' = due
        /\ start' = start + Window /\ intact' = (intact /\ entries = Asked)
        /\ emitted' = emitted + Cardinality(yielded)
    BY <1>5, <1>18 DEF Onward, yielded
  <2>2. Types'
    <3>1. start + Window <= Cardinality(Papers)
      BY <1>1, <1>2, <1>18, FullPage DEF Onward
    <3>2. start' \in 0 .. Cardinality(Papers)
      BY <1>1, <1>6, <2>1, <3>1, PapersCount DEF Types
    <3>3. QED  BY <1>1, <1>6, <1>15, <2>1, <3>2 DEF Types
  <2>3. Phase'  BY <1>15, <1>18, <2>1 DEF Phase
  <2>4. Progress'
    <3>1. start' # 0  BY <1>1, <1>6, <2>1 DEF Types
    <3>2. ASSUME intact'
          PROVE  Behind' \subseteq PapersOf(results)' /\ emitted' = Cardinality(Behind')
      <4>1. intact /\ entries = Asked  BY <2>1, <3>2
      <4>2. Behind' = Wanted(First(Feed(Queries[query]), start + Window))
        BY <1>15, <2>1, FeedStands
      <4>3. /\ Behind' = Behind \cup yielded
            /\ Cardinality(Behind') = emitted + Cardinality(yielded)
        BY <1>1, <1>2, <4>1, <4>2, NoGap DEF yielded
      <4>4. Behind \subseteq PapersOf(results)  BY <1>1, <1>2, <4>1 DEF Progress
      <4>5. Behind' \subseteq PapersOf(results')
        BY <1>10, <1>13, <1>18, <4>3, <4>4
      <4>6. QED  BY <2>1, <4>3, <4>5 DEF PapersOf
    <3>3. QED  BY <3>1, <3>2 DEF Progress
  <2>5. SearchIsComplete'  BY <1>1, <1>13, <2>1 DEF SearchIsComplete, PapersOf
  <2>6. QED  BY <1>14, <2>2, <2>3, <2>4, <2>5 DEF Inv
<1>19. QED  BY <1>4, <1>12, <1>16, <1>17, <1>18

LEMMA NextInv == Inv /\ [Next]_vars => Inv'
<1>1. SUFFICES ASSUME Inv, [Next]_vars PROVE Inv'  OBVIOUS
<1>2. ASSUME NEW p \in Papers, Revise(p) PROVE Inv'  BY <1>1, <1>2, ReviseStep
<1>3. ASSUME NEW c \in SeedCutoffs, NEW n \in MaxTotals, NEW m \in MaxResults, Start(c, n, m)
      PROVE  Inv'
  BY <1>1, <1>3, StartStep
<1>4. CASE NothingToAsk  BY <1>1, <1>4, NothingToAskStep
<1>5. CASE Page  BY <1>1, <1>5, PageStep
<1>6. CASE PageFails  BY <1>1, <1>6, PageFailsStep
<1>7. CASE HarvestEnds  BY <1>1, <1>7, SearchIsOver DEF HarvestEnds
<1>8. CASE Crash  BY <1>1, <1>8, SearchIsOver DEF Crash
<1>9. CASE UNCHANGED vars
  <2>1. UNCHANGED <<arxiv, pc, cutoff, max_total, max_results, results, query, start, emitted,
                    attempt, intact, due>>
    BY <1>9 DEF vars, seeds, search
  <2>2. Behind' = Behind  BY <2>1, FeedStands DEF Behind
  <2>3. Types' /\ Phase'  BY <1>1, <2>1 DEF Inv, Types, Phase
  <2>4. Progress'
    BY <1>1, <2>1, <2>2 DEF Inv, Progress, Searching, PapersOf
  <2>5. OneVersionEach' /\ SearchIsComplete'
    BY <1>1, <2>1 DEF Inv, OneVersionEach, SearchIsComplete, PapersOf
  <2>6. QED  BY <2>3, <2>4, <2>5 DEF Inv
<1>10. QED
  BY <1>1, <1>2, <1>3, <1>4, <1>5, <1>6, <1>7, <1>8, <1>9 DEF Next, Proceed

LEMMA Invariance == Spec => []Inv
BY InitInv, NextInv, PTL DEF Spec

(* A page is asked for at most five times, a query yields no more than     *)
(* limits.max_results_per_query and is not read past the end of its feed.  *)
THEOREM TypeTheorem == Spec => []TypeOK
<1>1. Inv => TypeOK  BY DEF Inv, Types, TypeOK
<1>2. QED  BY <1>1, Invariance, PTL

(* harvest_unique: whatever pages repeat and authors revise, a paper is    *)
(* harvested in one version.                                               *)
THEOREM OneVersionTheorem == Spec => []OneVersionEach
<1>1. Inv => OneVersionEach  BY DEF Inv
<1>2. QED  BY <1>1, Invariance, PTL

(* search_arxiv leaves no gap: whatever the page size, the limits and what *)
(* the filters drop, a query whose feed stood still and whose pages were   *)
(* whole has brought all that it was to bring.                             *)
THEOREM CompletenessTheorem == Spec => []SearchIsComplete
<1>1. Inv => SearchIsComplete  BY DEF Inv
<1>2. QED  BY <1>1, Invariance, PTL

(* No step of the search is in vain: with the bounds of TypeOK, the        *)
(* harvest cannot go on for ever, whatever arXiv sends and authors revise. *)
THEOREM AdvancesTheorem == Spec => SearchAdvances
<1>1. Inv /\ Proceed => Advances
  <2>1. SUFFICES ASSUME Inv, Proceed PROVE Advances  OBVIOUS
  <2>2. query \in Nat /\ start \in Nat /\ attempt \in Nat
    <3>1. Len(Queries) \in Nat  BY SearchAssumption
    <3>2. QED  BY <2>1, <3>1, PapersCount DEF Inv, Types
  <2>3. CASE NothingToAsk
    BY <2>2, <2>3 DEF NothingToAsk, QueryEnds, Advances
  <2>4. CASE PageFails
    BY <2>2, <2>4 DEF PageFails, Advances
  <2>5. CASE HarvestEnds
    BY <2>5 DEF HarvestEnds, Advances
  <2>6. CASE Page
    <3>1. Types /\ Searching /\ emitted < max_results
      BY <2>1, <2>6, PageCases DEF Inv
    <3>2. PICK entries \in SUBSET Asked : Enough \/ Through(entries) \/ Onward(entries)
      BY <2>6, PageCases
    <3>3. Window \in Nat \ {0}  BY <3>1, PageFacts
    <3>4. CASE Enough  BY <3>4 DEF Enough, Advances
    <3>5. CASE Through(entries)  BY <2>2, <3>5 DEF Through, QueryEnds, Advances
    <3>6. CASE Onward(entries)  BY <2>2, <3>3, <3>6 DEF Onward, Advances
    <3>7. QED  BY <3>2, <3>4, <3>5, <3>6
  <2>7. QED  BY <2>1, <2>3, <2>4, <2>5, <2>6 DEF Proceed
<1>2. Inv /\ [Next]_vars => [Proceed => Advances]_vars  BY <1>1
<1>3. QED  BY <1>2, Invariance, PTL DEF Spec, SearchAdvances

-----------------------------------------------------------------------------
(* The harvest implements the first part of CorpusBuild *)

(* The instance counts as this module does. *)
LEMMA SameCardinality == \A S : Corpus!Cardinality(S) = Cardinality(S)
BY Zenon DEF Corpus!Cardinality, Cardinality

LEMMA SameHarvest ==
  ASSUME UNCHANGED <<arxiv, pc, cutoff, max_total, results>>
  PROVE  UNCHANGED Corpus!vars
<1>1. Outcome' = Outcome  BY DEF Outcome
<1>2. QED
  BY <1>1 DEF Corpus!vars, Corpus!env, Corpus!disk, Corpus!run, Corpus!hist

LEMMA InitIsCorpus == Init => Corpus!Init
BY DEF Init, Corpus!Init, Corpus!ArxivResult, Corpus!EmptyDir, Corpus!NoPaper, Outcome

LEMMA ReviseIsCorpus ==
  ASSUME NEW p \in Papers, Revise(p)
  PROVE  Corpus!Revise(p)
<1>1. /\ arxiv[p] < Len(Released[p]) /\ arxiv' = [arxiv EXCEPT ![p] = @ + 1]
      /\ UNCHANGED <<pc, cutoff, max_total, results>>
  BY DEF Revise, seeds
<1>2. Outcome' = Outcome  BY <1>1 DEF Outcome
<1>3. QED
  BY <1>1, <1>2 DEF Corpus!Revise, Corpus!disk, Corpus!run, Corpus!hist

LEMMA StartIsCorpus ==
  ASSUME Inv, NEW c \in SeedCutoffs, NEW n \in MaxTotals, NEW m \in MaxResults, Start(c, n, m)
  PROVE  Corpus!Start(c, n)
<1>1. /\ pc = "start" /\ results = {} /\ results' = {} /\ cutoff' = c /\ max_total' = n
      /\ pc' = IF c > DEFAULT_CUTOFF THEN "refused" ELSE "search"
      /\ arxiv' = arxiv
  BY DEF Inv, Phase, Start
<1>2. Outcome' = IF c > DEFAULT_CUTOFF THEN "refused" ELSE "none"  BY <1>1 DEF Outcome
<1>3. QED
  BY <1>1, <1>2 DEF Corpus!Start, Corpus!env, Corpus!disk

(* A page that adds papers is a page of CorpusBuild's harvest.             *)
LEMMA PageIsCorpus ==
  ASSUME Inv, Page
  PROVE  Corpus!HarvestPage \/ UNCHANGED Corpus!vars
<1>1. Types /\ Phase  BY DEF Inv
<1>2. /\ Searching /\ emitted < max_results /\ UNCHANGED <<arxiv, cutoff, max_total>>
  BY PageCases DEF seeds
<1>3. PICK entries \in SUBSET Asked :
        /\ results' = Seen(Wanted(entries))
        /\ \/ Enough
           \/ /\ ~(Cardinality(results') >= Corpus!AtMost(max_total))
              /\ Through(entries) \/ Onward(entries)
  BY PageCases
<1> DEFINE limit == Corpus!AtMost(max_total)
           yielded == Wanted(entries)
<1>4. pc = "search" /\ Cardinality(results) < limit  BY <1>1, <1>2 DEF Searching, Phase
<1>5. \/ Cardinality(results') >= limit /\ pc' = "found"
      \/ ~(Cardinality(results') >= limit) /\ pc' = "search"
  BY <1>3, <1>4 DEF Enough, Through, Onward
<1>6. yielded \in SUBSET Papers  BY <1>1, <1>2, PageFacts
<1>7. PICK S \in SUBSET (yielded \ PapersOf(results)) :
        LET found == {Served(p) : p \in S} IN
        /\ Seen(yielded) = results \cup found /\ found \in SUBSET Corpus!ArxivResult
        /\ PapersOf(found) = S /\ \A r \in found : r = Served(r.paper)
        /\ IsFiniteSet(Seen(yielded))
        /\ Cardinality(Seen(yielded)) \in 0 .. limit
        /\ Cardinality(Seen(yielded)) = Cardinality(results) + Cardinality(S)
        /\ Cardinality(Seen(yielded)) < limit => yielded \subseteq PapersOf(Seen(yielded))
  <2> HIDE DEF yielded
  <2>1. QED  BY <1>1, <1>4, <1>6, SeenFacts
<1> DEFINE found == {Served(p) : p \in S}
<1>8. /\ results' = results \cup found /\ found \in SUBSET Corpus!ArxivResult
      /\ PapersOf(found) = S /\ \A r \in found : r = Served(r.paper)
      /\ Cardinality(results') \in 0 .. limit
  BY <1>3, <1>7
<1>9. limit \in Nat /\ limit > 0 /\ Cardinality(results) \in Nat  BY <1>1, AtMostFacts
<1>10. \A r \in found : /\ r.version = arxiv[r.paper] /\ Corpus!Passes(r, cutoff)
                        /\ \A known \in results : known.paper # r.paper
  <2>1. TAKE r \in found
  <2>2. r = Served(r.paper) /\ r.paper \in S  BY <1>8 DEF PapersOf
  <2>3. r.paper \in Wanted(entries) /\ r.paper \notin PapersOf(results)  BY <2>2
  <2>4. r.version = arxiv[r.paper]  BY <2>2 DEF Served
  <2>5. Corpus!Passes(r, cutoff)
    BY <2>3 DEF Wanted, Corpus!Passes, Corpus!submitted_at
  <2>6. \A known \in results : known.paper # r.paper  BY <2>3 DEF PapersOf
  <2>7. QED  BY <2>4, <2>5, <2>6
<1> HIDE DEF found, limit
<1>11. CASE found = {}
  <2>1. results' = results  BY <1>8, <1>11
  <2>2. ~(Cardinality(results') >= limit)  BY <1>4, <1>9, <2>1
  <2>3. QED  BY <1>2, <1>4, <1>5, <2>1, <2>2, SameHarvest
<1>12. CASE found # {}
  <2>1. Cardinality(results') > 0
    <3>1. results' # {} /\ IsFiniteSet(results')  BY <1>3, <1>7, <1>8, <1>12
    <3>2. QED  BY <1>8, <3>1, FS_EmptySet
  <2>2. Cardinality(results') >= limit <=> Cardinality(results') >= max_total
    BY <1>1, <1>8, <2>1, AtMostFacts DEF limit
  <2>3. Cardinality(results') <= limit  BY <1>8, <1>9
  <2>4. found \in (SUBSET {r \in Corpus!ArxivResult :
                             /\ r.version = arxiv[r.paper] /\ Corpus!Passes(r, cutoff)
                             /\ \A known \in results : known.paper # r.paper}) \ {{}}
    BY <1>8, <1>10, <1>12
  <2>5. Outcome = "none" /\ Outcome' = "none"  BY <1>4, <1>5 DEF Outcome
  <2> DEFINE phase == CASE pc = "search" -> "harvest" [] pc = "found" -> "papers"
                        [] OTHER -> "idle"
             todo == IF pc = "found" THEN results ELSE {}
             runs == IF pc = "start" THEN 0 ELSE 1
  <2>6. phase = "harvest" /\ runs' = runs  BY <1>4, <1>5
  <2>7. IF Cardinality(results') >= max_total THEN phase' = "papers" /\ todo' = results'
                                              ELSE UNCHANGED <<phase, todo>>
    BY <1>4, <1>5, <2>2
  <2>8. /\ results' = results \cup found /\ Cardinality(results') <= Corpus!AtMost(max_total)
        /\ UNCHANGED <<arxiv, cutoff, max_total>>
    BY <1>2, <1>8, <2>3 DEF limit
  <2>9. QED
    BY <2>4, <2>5, <2>6, <2>7, <2>8, SameCardinality
       DEF Corpus!HarvestPage, Corpus!env, Corpus!disk, Corpus!hist
<1>13. QED  BY <1>11, <1>12

LEMMA CrashIsCorpus ==
  ASSUME pc \in {"search", "found"}, pc' = "crashed",
         UNCHANGED <<arxiv, cutoff, max_total, results>>
  PROVE  Corpus!Crash
<1>1. Outcome' = "crashed"  BY DEF Outcome
<1>2. QED
  BY <1>1 DEF Corpus!Crash, Corpus!End, Corpus!NoPaper, Corpus!env

LEMMA HarvestEndsIsCorpus ==
  ASSUME HarvestEnds
  PROVE  Corpus!HarvestEnds
<1>1. /\ pc = "search" /\ pc' = IF results = {} THEN "no_results" ELSE "found"
      /\ UNCHANGED <<arxiv, cutoff, max_total, results>>
  BY DEF HarvestEnds, seeds
<1>2. Outcome' = IF results = {} THEN "no_results" ELSE "none"  BY <1>1 DEF Outcome
<1>3. Outcome = "none"  BY <1>1 DEF Outcome
<1>4. CASE results = {}
  BY <1>1, <1>2, <1>4
     DEF Corpus!HarvestEnds, Corpus!End, Corpus!NoPaper, Corpus!env, Corpus!disk
<1>5. CASE results # {}
  BY <1>1, <1>2, <1>3, <1>5
     DEF Corpus!HarvestEnds, Corpus!env, Corpus!disk
<1>6. QED  BY <1>4, <1>5

LEMMA NextIsCorpus == Inv /\ [Next]_vars => [Corpus!Next]_Corpus!vars
<1>1. SUFFICES ASSUME Inv, [Next]_vars PROVE Corpus!Next \/ UNCHANGED Corpus!vars
  OBVIOUS
<1>2. ASSUME NEW p \in Papers, Revise(p) PROVE Corpus!Next
  BY <1>2, ReviseIsCorpus DEF Corpus!Next
<1>3. ASSUME NEW c \in SeedCutoffs, NEW n \in MaxTotals, NEW m \in MaxResults, Start(c, n, m)
      PROVE  Corpus!Next
  BY <1>1, <1>3, StartIsCorpus DEF Corpus!Next
<1>4. CASE NothingToAsk
  BY <1>4, SameHarvest DEF NothingToAsk, QueryEnds, seeds
<1>5. CASE Page
  BY <1>1, <1>5, PageIsCorpus DEF Corpus!Next, Corpus!Proceed
<1>6. CASE PageFails
  <2>1. /\ pc = "search" /\ (pc' = "crashed" \/ pc' = pc)
        /\ UNCHANGED <<arxiv, cutoff, max_total, results>>
    BY <1>6 DEF PageFails, Searching, seeds
  <2>2. CASE pc' = "crashed"  BY <2>1, <2>2, CrashIsCorpus DEF Corpus!Next
  <2>3. CASE pc' = pc  BY <2>1, <2>3, SameHarvest
  <2>4. QED  BY <2>1, <2>2, <2>3
<1>7. CASE HarvestEnds
  BY <1>7, HarvestEndsIsCorpus DEF Corpus!Next, Corpus!Proceed
<1>8. CASE Crash
  BY <1>8, CrashIsCorpus DEF Crash, seeds, Corpus!Next
<1>9. CASE UNCHANGED vars
  BY <1>9, SameHarvest DEF vars, seeds
<1>10. QED
  BY <1>1, <1>2, <1>3, <1>4, <1>5, <1>6, <1>7, <1>8, <1>9 DEF Next, Proceed

(* Paging, retrying and taking the queries one by one is a harvest as      *)
(* CorpusBuild has it: only papers that pass the filters, each once and at *)
(* the version arXiv serves, no more than the run may have.                *)
THEOREM HarvestTheorem == Spec => ImplementsHarvest
BY InitIsCorpus, NextIsCorpus, Invariance, PTL DEF Spec, ImplementsHarvest, Corpus!Spec
=============================================================================
