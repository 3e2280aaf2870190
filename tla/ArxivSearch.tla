---------------------------- MODULE ArxivSearch -----------------------------
(***************************************************************************)
(* The harvest of one run of build_corpus in full: harvest_unique sends    *)
(* the queries one after the other, search_arxiv pages through the feed of *)
(* each, _fetch_arxiv_page tries a page up to five times.  Meanwhile       *)
(* authors revise papers, and a revision may match other queries than its  *)
(* predecessor, so that the feed moves under the search.                   *)
(*                                                                         *)
(* CorpusBuild has the same run with the pages in any order and of any     *)
(* content; this module implements its first part.                         *)
(***************************************************************************)
EXTENDS Naturals, Sequences, FiniteSets

CONSTANTS
  Papers, Released, Blocklist, DEFAULT_CUTOFF, SeedCutoffs, MaxTotals,  \* as in CorpusBuild
  Queries,          \* the composed queries, a sequence
  Matches,          \* per query, the versions of papers that match it
  Unparsable,       \* the versions whose entry has no id or no date
  MaxResults,       \* values of limits.max_results_per_query, one per run
  page_size,
  Torn, None

VARIABLES
  arxiv,         \* the version of each paper arXiv serves
  pc,            \* "start", "search", or how the harvest ended
  cutoff, max_total, max_results,   \* the run's seeds
  results,       \* `seen`
  query,         \* place of the current query
  start, emitted,
  attempt,       \* failed attempts at the current page
  intact,        \* history: no page of the query came short and its feed stood still;
  due            \* the papers that queries which were intact have to bring

seeds  == <<cutoff, max_total, max_results>>
search == <<query, start, emitted, attempt, intact>>
vars   == <<arxiv, pc, seeds, results, search, due>>

ASSUME SearchAssumption ==
  /\ Papers \subseteq Nat /\ IsFiniteSet(Papers)
  /\ \A p \in Papers : Released[p] \in Seq(Nat) /\ Released[p] # <<>>
  /\ DEFAULT_CUTOFF \in Nat /\ SeedCutoffs \subseteq Nat
  /\ MaxTotals \subseteq Nat /\ MaxResults \subseteq Nat
  /\ Queries \in Seq(DOMAIN Matches) /\ Queries # <<>>
  /\ page_size \in Nat \ {0}

-----------------------------------------------------------------------------
(* CorpusBuild, for a run over empty directories that ends with the        *)
(* harvest.                                                                *)
Outcome ==
  CASE pc = "refused"    -> "refused"
    [] pc = "no_results" -> "no_results"
    [] pc = "crashed"    -> "crashed"
    [] OTHER             -> "none"

Corpus == INSTANCE CorpusBuild WITH
  Parses <- {}, Replies <- {}, MaxPolls <- 0, MaxRuns <- 1,
  papers <- [dir \in UNION {[paper : {p}, version : DOMAIN Released[p]] : p \in Papers} |->
               [pdf |-> None, markdown |-> None]],
  manifest <- <<>>, corpus_hash <- None,
  pc <- CASE pc = "search" -> "harvest" [] pc = "found" -> "papers" [] OTHER -> "idle",
  todo <- IF pc = "found" THEN results ELSE {},
  current <- [result |-> None, pdf |-> None], polls <- 0, entries <- {}, canonical <- <<>>,
  runs <- IF pc = "start" THEN 0 ELSE 1, outcome <- Outcome, skipped <- {}, built <- {}

-----------------------------------------------------------------------------
(* arXiv: the order in which it lists papers, and the feed of a query: the *)
(* papers that match it, at the version it serves.                         *)
Older(p, q) ==
  \/ Released[p][1] < Released[q][1]
  \/ Released[p][1] = Released[q][1] /\ p < q

(* How many are ahead of p, the first n, feed[from : from + length]. *)
Ahead(S, p) == Cardinality({q \in S : Older(q, p)})
First(S, n) == {p \in S : Ahead(S, p) < n}
Slice(feed, from, length) == {p \in feed : Ahead(feed, p) \in from .. from + length - 1}

Served(p) == [paper |-> p, version |-> arxiv[p]]

Feed(q) == {p \in Papers : Served(p) \in Matches[q]}

-----------------------------------------------------------------------------
Minimum(m, n) == IF m < n THEN m ELSE n

PapersOf(S) == {r.paper : r \in S}

WantedByVersion(S) ==    \* a plausible bug: the date of the version
  {p \in S : Released[p][arxiv[p]] <= cutoff /\ p \notin Blocklist}

(* What the two filters let through. *)
Wanted(S) == {p \in S : Released[p][1] < cutoff /\ p \notin Blocklist}

(* What the current query is to bring, while its feed stands still. *)
DueOf(q) == First(Wanted(Feed(q)), max_results)

(* How many papers the run may still harvest: the limit is compared after  *)
(* one is added, so that 0 allows for one.                                 *)
Room == Corpus!AtMost(max_total) - Cardinality(results)

SeenByVersion(yielded) ==    \* a plausible bug
  results \cup {Served(p) : p \in First({q \in yielded : Served(q) \notin results}, Room)}

(* `seen` after the entries yielded, or as many as there is room for:      *)
(* setdefault keeps the first of each paper.                               *)
Seen(yielded) ==
  results \cup {Served(p) : p \in First(yielded \ PapersOf(results), Room)}

Window == Minimum(page_size, max_results - emitted)

NextStartByPage == start + page_size    \* plausible bugs: a page is always full,
NextStartByYield == emitted'            \* or its place is where the yielded end

NextStart == start + Window

-----------------------------------------------------------------------------
Init ==
  /\ arxiv = [p \in Papers |-> 1]
  /\ pc = "start"
  /\ cutoff = DEFAULT_CUTOFF /\ max_total \in MaxTotals /\ max_results = 0
  /\ results = {} /\ query = 1 /\ start = 0 /\ emitted = 0 /\ attempt = 0
  /\ intact = TRUE /\ due = {}

Searching == pc = "search" /\ query <= Len(Queries)

(* An author posts a new version, which may match other queries. *)
Revise(p) ==
  /\ arxiv[p] < Len(Released[p])
  /\ arxiv' = [arxiv EXCEPT ![p] = @ + 1]
  /\ UNCHANGED <<pc, seeds, results, query, start, emitted, attempt, due>>
  /\ intact' = (intact /\ (Searching /\ start > 0 =>
                             Feed(Queries[query])' = Feed(Queries[query])))

(* main up to harvest_unique. *)
Start(c, n, m) ==
  /\ pc = "start"
  /\ cutoff' = c /\ max_total' = n /\ max_results' = m
  /\ pc' = IF c > DEFAULT_CUTOFF THEN "refused" ELSE "search"
  /\ UNCHANGED <<arxiv, results, search, due>>

(* search_arxiv returns: on with the next query. *)
QueryEnds ==
  /\ query' = query + 1 /\ start' = 0 /\ emitted' = 0 /\ intact' = TRUE
  /\ UNCHANGED pc

(* max_results <= 0: nothing is asked. *)
NothingToAsk ==
  /\ Searching /\ max_results = 0
  /\ QueryEnds
  /\ UNCHANGED <<arxiv, seeds, results, attempt, due>>

(* A page arrives, is parsed and passed on entry by entry, until the run   *)
(* has enough.  arXiv sends at most what it was asked for, so that a page  *)
(* never yields more than the query may.  It may send a feed without an    *)
(* entry of a paper: it reports errors that way.                           *)
Page ==
  /\ Searching /\ emitted < max_results
  /\ \E empty \in BOOLEAN :
     LET asked   == Slice(Feed(Queries[query]), start, Window)
         entries == IF empty THEN {} ELSE {p \in asked : Served(p) \notin Unparsable}
         yielded == Wanted(entries)
         total   == emitted + Cardinality(yielded)
         whole   == intact /\ entries = asked
     IN
     /\ results' = Seen(yielded)
     /\ IF Cardinality(results') >= Corpus!AtMost(max_total)
          THEN pc' = "found" /\ UNCHANGED <<query, start, emitted, intact, due>>
          ELSE IF total = max_results \/ Cardinality(entries) < Window
          THEN /\ QueryEnds
               /\ due' = IF whole THEN due \cup DueOf(Queries[query]) ELSE due
          ELSE /\ emitted' = total /\ start' = NextStart /\ intact' = whole
               /\ UNCHANGED <<pc, query, due>>
     /\ attempt' = 0
  /\ UNCHANGED <<arxiv, seeds>>

(* Plausible bugs: once more than said, or for ever. *)
PageFailsOnceMore ==
  /\ Searching /\ emitted < max_results
  /\ attempt' = attempt + 1
  /\ pc' = IF attempt = 5 THEN "crashed" ELSE pc
  /\ UNCHANGED <<arxiv, seeds, results, query, start, emitted, intact, due>>

PageFailsForever ==
  /\ Searching /\ emitted < max_results
  /\ attempt' = (attempt + 1) % 4
  /\ UNCHANGED <<arxiv, pc, seeds, results, query, start, emitted, intact, due>>

(* Status 429 or 503, or a transport error; after the fifth it is raised.  *)
PageFails ==
  /\ Searching /\ emitted < max_results
  /\ attempt' = attempt + 1
  /\ pc' = IF attempt = 4 THEN "crashed" ELSE pc
  /\ UNCHANGED <<arxiv, seeds, results, query, start, emitted, intact, due>>

(* Any other error status, a reply that is no XML, or the program is       *)
(* killed: nothing of the harvest is kept.                                 *)
Crash ==
  /\ pc \in {"search", "found"} /\ pc' = "crashed"
  /\ UNCHANGED <<arxiv, seeds, results, search, due>>

HarvestEnds ==
  /\ pc = "search" /\ query > Len(Queries)
  /\ pc' = IF results = {} THEN "no_results" ELSE "found"
  /\ UNCHANGED <<arxiv, seeds, results, search, due>>

Proceed == NothingToAsk \/ Page \/ PageFails \/ HarvestEnds

Next ==
  \/ \E p \in Papers : Revise(p)
  \/ \E c \in SeedCutoffs, n \in MaxTotals, m \in MaxResults : Start(c, n, m)
  \/ Proceed
  \/ Crash

Spec == Init /\ [][Next]_vars

(* Every request has a timeout, and the program goes on after it. *)
FairSpec == Spec /\ WF_vars(Proceed)

-----------------------------------------------------------------------------
(* Properties. *)

(* Types; in particular a page is asked for at most five times, a query    *)
(* yields no more than it may, and is not read past the end of its feed.   *)
TypeOK ==
  /\ pc \in {"start", "refused", "search", "no_results", "found", "crashed"}
  /\ max_results \in MaxResults \cup {0}
  /\ results \subseteq Corpus!ArxivResult
  /\ query \in 1 .. Len(Queries) + 1
  /\ start \in 0 .. Cardinality(Papers)
  /\ attempt \in 0 .. 5 /\ emitted \in 0 .. max_results
  /\ intact \in BOOLEAN /\ due \subseteq Papers

(* The harvest CorpusBuild starts from: pages, retries and queries only    *)
(* ever add papers that pass the filters, at the version arXiv serves, no  *)
(* more than the run may have, and a harvest that breaks off leaves        *)
(* nothing.                                                                *)
ImplementsHarvest == Corpus!Spec

(* search_arxiv pages without a gap: a query whose feed stood still, and   *)
(* of whose pages no entry was lost, has brought every paper it matches    *)
(* that passes the filters, the oldest of them if they are more than it    *)
(* may yield -- whatever the filters dropped between two pages and however *)
(* often a page was tried.                                                 *)
SearchIsComplete == due \subseteq PapersOf(results)

(* harvest_unique: a paper that two queries match, or a page repeats, is   *)
(* harvested once, though it was revised in between.                       *)
OneVersionEach == \A r, s \in results : r.paper = s.paper => r = s

(* No step of the search is in vain, whatever the filters drop and however *)
(* the feed moves: it ends, or goes on with the next query, or further on  *)
(* in the feed, or makes one more of five attempts.  TypeOK bounds these   *)
(* numbers, so that the search cannot go round in a circle.                *)
Advances ==
  \/ pc' # "search"
  \/ query' > query
  \/ query' = query /\ start' > start
  \/ query' = query /\ start' = start /\ attempt' > attempt

SearchAdvances == [][Proceed => Advances]_vars

(* The harvest comes to an end, though arXiv may fail on any page.         *)
SearchEnds == pc = "search" ~> pc # "search"
=============================================================================
