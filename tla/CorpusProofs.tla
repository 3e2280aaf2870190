---------------------------- MODULE CorpusProofs ----------------------------
(***************************************************************************)
(* Proofs about CorpusBuild, for any papers and revisions, any seed files  *)
(* and limits and any number of runs and kills.  The inductive invariant   *)
(* follows each paper of a run from the harvest to its line: it is waiting,*)
(* in hand, given up or listed, and in one of these places only; what is   *)
(* listed is what its directory holds.                                     *)
(***************************************************************************)
EXTENDS CorpusBuild, FiniteSetTheorems, WellFoundedInduction, TLAPS

Phases  == {"idle", "harvest", "papers", "submit", "poll", "extract", "write"}
Working == {"submit", "poll", "extract"}

Types ==
  /\ arxiv \in [Papers -> Nat] /\ \A p \in Papers : arxiv[p] \in DOMAIN Released[p]
  /\ papers \in [ArxivResult -> [pdf : Pdf \cup {None}, markdown : Markdown \cup {None}]]
  /\ manifest \in Seq(ManifestEntry \cup {Torn}) /\ canonical \in Seq(ManifestEntry)
  /\ corpus_hash \in {None, Torn} \cup built
  /\ pc \in Phases
  /\ cutoff \in SeedCutoffs \cup {DEFAULT_CUTOFF} /\ max_total \in MaxTotals
  /\ results \subseteq ArxivResult /\ IsFiniteSet(results)
  /\ Cardinality(results) <= AtMost(max_total)
  /\ todo \subseteq results /\ skipped \subseteq results
  /\ current \in [result : results, pdf : Pdf] \cup {NoPaper}
  /\ pc \in Working <=> current # NoPaper
  /\ polls \in 0 .. MaxPolls
  /\ entries \subseteq ManifestEntry /\ IsFiniteSet(entries)
  /\ \A e \in entries : e.result \in results
  /\ runs \in 0 .. MaxRuns
  /\ outcome \in {"none", "refused", "no_results", "finished", "crashed"}

(* The cutoff of a run under way, and what it may list. *)
Cutoffs ==
  /\ pc # "idle" => cutoff <= DEFAULT_CUTOFF
  /\ pc = "write" => \A e \in entries : Passes(e.result, DEFAULT_CUTOFF)

(* Where the papers of a run are. *)
Places ==
  /\ pc \in {"idle", "harvest"} => todo = {} /\ entries = {}
  /\ pc = "harvest" => skipped = {}
  /\ pc \notin {"idle", "harvest"} =>
       \A r \in results :
         \/ r \in todo \cup skipped
         \/ current # NoPaper /\ current.result = r
         \/ \E e \in entries : e.result = r
  /\ todo \cap skipped = {}
  /\ \A e \in entries : e.result \notin todo \cup skipped
  /\ current # NoPaper =>
       /\ current.result \notin todo \cup skipped
       /\ \A e \in entries : e.result # current.result

(* A file is its paper's, and an entry is of the files there are. *)
Own(line) == line.pdf.of = line.result /\ line.markdown.of = line.result

Agrees(line) == papers[line.result] = [pdf |-> line.pdf, markdown |-> line.markdown]

FilesKept ==
  /\ \A d \in ArxivResult : papers[d].pdf # None => papers[d].pdf.of = d
  /\ current # NoPaper =>
       current.pdf = papers[current.result].pdf /\ current.pdf.of = current.result
  /\ \A e \in entries : Own(e) /\ Agrees(e)

(* The manifest being written, and the one that lies there. *)
Writing ==
  pc = "write" =>
    /\ todo = {} /\ Lines(canonical) = entries
    /\ Len(manifest) <= Len(canonical)
    /\ \A i \in 1 .. Len(manifest) : manifest[i] = canonical[i]

GoodLines ==
  \A i \in DOMAIN manifest :
    manifest[i] # Torn => Passes(manifest[i].result, DEFAULT_CUTOFF) /\ Own(manifest[i])

Finished ==
  /\ pc # "idle" => outcome = "none"
  /\ outcome = "finished" =>
       /\ corpus_hash = manifest /\ manifest \in Seq(ManifestEntry)
       /\ {line.result : line \in Lines(manifest)} = results \ skipped
       /\ \A line \in Lines(manifest) : Agrees(line)

(* The first run finds empty directories. *)
Whole(line) == line.pdf.content = "whole" /\ line.markdown.content \in Parses

FirstRun ==
  /\ runs = 0 => pc = "idle" /\ outcome = "none"
  /\ runs = 0 \/ (runs = 1 /\ pc = "harvest") => \A d \in ArxivResult : papers[d].pdf = None
  /\ runs = 1 =>
       /\ \A r \in todo : papers[r].pdf = None
       /\ current # NoPaper => current.pdf.content = "whole"
       /\ \A e \in entries : Whole(e)
       /\ outcome = "finished" => \A line \in Lines(manifest) : Whole(line)

Inv == Types /\ Cutoffs /\ Places /\ FilesKept /\ Writing /\ GoodLines /\ Finished /\ FirstRun

-----------------------------------------------------------------------------
(* Lemmas about the data.                                                  *)

LEMMA ResultsAreFinite == IsFiniteSet(ArxivResult)
<1> DEFINE Of(p) == [paper : {p}, version : DOMAIN Released[p]]
           S == {Of(p) : p \in Papers}
<1>1. IsFiniteSet(S)
  <2> DEFINE f == [p \in Papers |-> Of(p)]
  <2>1. f \in Surjection(Papers, S)  BY DEF Surjection
  <2>2. QED  BY <2>1, FS_Surjection, CorpusAssumption DEF CorpusAssumption
<1>2. ASSUME NEW T \in S PROVE IsFiniteSet(T)
  <2>1. PICK p \in Papers : T = Of(p)  OBVIOUS
  <2> DEFINE D == DOMAIN Released[p]
             g == [v \in D |-> [paper |-> p, version |-> v]]
  <2>2. IsFiniteSet(D)
    <3>1. PICK n \in Nat : D = 1 .. n  BY CorpusAssumption DEF CorpusAssumption
    <3>2. QED  BY <3>1, FS_Interval
  <2>3. g \in Surjection(D, T)  BY <2>1 DEF Surjection
  <2>4. QED  BY <2>2, <2>3, FS_Surjection
<1>3. QED  BY <1>1, <1>2, FS_UNION DEF ArxivResult

(* build_manifest lists every entry, and nothing else. *)
LEMMA ManifestListsEntries ==
  ASSUME NEW es \in SUBSET ManifestEntry, IsFiniteSet(es), NEW lines \in build_manifest(es)
  PROVE  lines \in Seq(ManifestEntry) /\ Lines(lines) = es
<1> DEFINE n == Cardinality(es)
<1>1. n \in Nat  BY FS_CardinalityType
<1>2. lines \in [1 .. n -> es]  BY DEF build_manifest
<1>3. \A i, j \in 1 .. n : i < j => lines[i] # lines[j]
  <2>1. ASSUME NEW e \in ManifestEntry PROVE ~Before(e, e)
    <3>1. e.result.paper \in Nat /\ e.result.version \in Nat
      BY CorpusAssumption DEF CorpusAssumption, ManifestEntry, ArxivResult
    <3>2. QED  BY <3>1 DEF Before
  <2>2. QED  BY <1>2, <2>1 DEF build_manifest
<1>4. lines \in Injection(1 .. n, es)
  <2>1. ASSUME NEW i \in 1 .. n, NEW j \in 1 .. n, i # j PROVE lines[i] # lines[j]
    <3>1. i < j \/ j < i  BY <1>1, <2>1
    <3>2. QED  BY <1>3, <3>1
  <2>2. QED  BY <1>2, <2>1 DEF Injection, IsInjective
<1>5. lines \in Surjection(1 .. n, es)
  <2>1. Cardinality(1 .. n) = n  BY <1>1, FS_Interval
  <2>2. QED  BY <1>4, <2>1, FS_Injection
<1>6. Lines(lines) = es  BY <1>2, <1>5 DEF Surjection, Lines
<1>7. QED  BY <1>1, <1>2, <1>6

-----------------------------------------------------------------------------
(* The invariant is inductive: lemmas about what the actions share.        *)

LEMMA InitInv == Init => Inv
<1> SUFFICES ASSUME Init PROVE Inv  OBVIOUS
<1>1. Types
  <2>1. DEFAULT_CUTOFF \in Nat /\ MaxPolls \in Nat /\ MaxRuns \in Nat
        /\ \A p \in Papers : Released[p] \in Seq(Nat) /\ Released[p] # <<>>
    BY CorpusAssumption DEF CorpusAssumption
  <2>2. \A p \in Papers : 1 \in DOMAIN Released[p]  BY <2>1
  <2>3. IsFiniteSet({}) /\ Cardinality({}) = 0  BY FS_EmptySet
  <2>4. max_total \in Nat  BY CorpusAssumption DEF CorpusAssumption, Init
  <2>5. 0 <= AtMost(max_total)  BY <2>4 DEF AtMost
  <2>6. QED
    BY <2>1, <2>2, <2>3, <2>5 DEF Init, Types, EmptyDir, Phases, Working
<1>2. Cutoffs /\ Places /\ FilesKept /\ Writing /\ GoodLines /\ Finished /\ FirstRun
  BY DEF Init, Cutoffs, Places, FilesKept, Writing, GoodLines, Finished, FirstRun, EmptyDir
<1>3. QED  BY <1>1, <1>2 DEF Inv

(* A run ends: only the manifest and the hash may differ. *)
LEMMA EndKeepsInv ==
  ASSUME Inv, pc # "idle", NEW how \in {"refused", "no_results", "finished", "crashed"}, End(how),
         arxiv' = arxiv, papers' = papers, skipped' = skipped,
         manifest' \in Seq(ManifestEntry \cup {Torn}), GoodLines',
         corpus_hash' \in {None, Torn} \cup built',
         how = "finished" =>
           /\ corpus_hash' = manifest' /\ manifest' \in Seq(ManifestEntry)
           /\ {line.result : line \in Lines(manifest')} = results \ skipped
           /\ \A line \in Lines(manifest') : Agrees(line) /\ (runs = 1 => Whole(line))
  PROVE  Inv'
<1>1. Types'
  <2>1. IsFiniteSet({}) /\ MaxPolls \in Nat
    BY FS_EmptySet, CorpusAssumption DEF CorpusAssumption
  <2>2. QED  BY <2>1 DEF Inv, Types, End, Phases, Working
<1>2. Cutoffs' /\ Places' /\ Writing'  BY DEF Cutoffs, Places, Writing, End
<1>3. FilesKept'  BY DEF Inv, FilesKept, End
<1>4. Finished'  BY DEF Inv, Finished, End, Agrees
<1>5. FirstRun'
  <2>1. runs' # 0  BY DEF Inv, FirstRun, End
  <2>2. pc' = "idle" /\ todo' = {} /\ current' = NoPaper /\ entries' = {} /\ outcome' = how
    BY DEF End
  <2>3. runs' = 1 /\ outcome' = "finished" => \A line \in Lines(manifest') : Whole(line)
    BY <2>2 DEF End
  <2>4. QED  BY <2>1, <2>2, <2>3 DEF FirstRun, Whole
<1>6. QED  BY <1>1, <1>2, <1>3, <1>4, <1>5 DEF Inv

(* What a run leaves alone while it works on its papers. *)
Same ==
  /\ arxiv' = arxiv /\ manifest' = manifest /\ corpus_hash' = corpus_hash
  /\ cutoff' = cutoff /\ max_total' = max_total /\ results' = results
  /\ canonical' = canonical /\ runs' = runs /\ outcome' = outcome /\ built' = built

DirType == [pdf : Pdf \cup {None}, markdown : Markdown \cup {None}]

(* The paper in hand is no mark. *)
LEMMA InHand ==
  ASSUME Types, current # NoPaper
  PROVE  /\ current \in [result : results, pdf : Pdf]
         /\ current.result \in results /\ current.pdf \in Pdf
         /\ current.result \in ArxivResult
<1>1. current \in [result : results, pdf : Pdf]  BY DEF Types
<1>2. QED  BY <1>1 DEF Types

(* A paper is given up, whatever was written of it. *)
LEMMA GiveUpKeepsInv ==
  ASSUME Inv, Same, NEW r \in ArxivResult, GiveUp(r), entries' = entries,
         (pc = "papers" /\ r \in todo) \/ (pc \in Working /\ r = current.result),
         papers' \in [ArxivResult -> DirType],
         \A d \in ArxivResult \ {r} : papers'[d] = papers[d],
         papers'[r].pdf # None => papers'[r].pdf.of = r
  PROVE  Inv'
<1>1. r \in results /\ r \notin skipped /\ \A e \in entries : e.result # r
  <2>1. CASE pc = "papers" /\ r \in todo  BY <2>1 DEF Inv, Types, Places
  <2>2. CASE pc \in Working /\ r = current.result
    <3>1. current # NoPaper  BY <2>2 DEF Inv, Types
    <3>2. QED  BY <2>2, <3>1, InHand DEF Inv, Places
  <2>3. QED  BY <2>1, <2>2
<1>2. pc = "papers" => current = NoPaper  BY DEF Inv, Types, Working
<1>3. Types'
  <2>1. MaxPolls \in Nat  BY CorpusAssumption DEF CorpusAssumption
  <2>2. QED  BY <1>1, <2>1 DEF Inv, Types, GiveUp, Same, Phases, Working, DirType
<1>4. Cutoffs' /\ Writing' /\ GoodLines' /\ Finished'
  BY DEF Inv, Cutoffs, Writing, GoodLines, Finished, GiveUp, Same, Working
<1>5. Places'
  <2>1. pc \notin {"idle", "harvest"}  BY DEF Working
  <2>2. ASSUME NEW q \in results PROVE q \in todo' \cup skipped' \/ \E e \in entries : e.result = q
    BY <1>2, <2>1, <2>2 DEF Inv, Places, GiveUp
  <2>3. todo' \cap skipped' = {} /\ \A e \in entries : e.result \notin todo' \cup skipped'
    BY <1>1 DEF Inv, Places, GiveUp
  <2>4. QED  BY <2>2, <2>3 DEF Places, GiveUp, Same
<1>6. FilesKept'
  <2>1. \A d \in ArxivResult : papers'[d].pdf # None => papers'[d].pdf.of = d
    BY DEF Inv, FilesKept
  <2>2. ASSUME NEW e \in entries PROVE Own(e) /\ papers'[e.result] = papers[e.result]
    <3>1. e.result \in ArxivResult \ {r}  BY <1>1 DEF Inv, Types
    <3>2. QED  BY <3>1 DEF Inv, FilesKept
  <2>3. \A e \in entries : papers'[e.result] = [pdf |-> e.pdf, markdown |-> e.markdown]
    BY <2>2 DEF Inv, FilesKept, Agrees
  <2>4. QED  BY <2>1, <2>2, <2>3 DEF FilesKept, GiveUp, Own, Agrees
<1>7. FirstRun'
  <2>1. runs' # 0 /\ pc' # "harvest"  BY DEF Inv, FirstRun, GiveUp, Same, Working
  <2>2. ASSUME runs = 1 PROVE \A q \in todo' : papers'[q].pdf = None
    <3>1. \A q \in todo' : q \in todo /\ q \in ArxivResult \ {r}  BY DEF Inv, Types, GiveUp
    <3>2. QED  BY <2>2, <3>1 DEF Inv, FirstRun
  <2>3. outcome' = "none" /\ current' = NoPaper
    BY DEF Inv, Finished, GiveUp, Same, Working
  <2>4. QED  BY <2>1, <2>2, <2>3 DEF Inv, FirstRun, Same, Whole
<1>8. QED  BY <1>3, <1>4, <1>5, <1>6, <1>7 DEF Inv

-----------------------------------------------------------------------------
(* The invariant is inductive: the actions.                                *)

LEMMA ReviseKeepsInv == ASSUME Inv, NEW p \in Papers, Revise(p) PROVE Inv'
<1>1. arxiv' \in [Papers -> Nat] /\ \A q \in Papers : arxiv'[q] \in DOMAIN Released[q]
  <2>1. Released[p] \in Seq(Nat)  BY CorpusAssumption DEF CorpusAssumption
  <2>2. arxiv \in [Papers -> Nat] /\ arxiv[p] \in DOMAIN Released[p]  BY DEF Inv, Types
  <2>3. arxiv[p] + 1 \in DOMAIN Released[p]  BY <2>1, <2>2 DEF Revise
  <2>4. QED  BY <2>2, <2>3 DEF Inv, Types, Revise
<1>2. Types'
  BY <1>1 DEF Inv, Types, Revise, disk, run, hist
<1>3. Cutoffs' /\ Places' /\ Writing' /\ GoodLines'
  BY DEF Inv, Cutoffs, Places, Writing, GoodLines, Revise, disk, run, hist
<1>4. FilesKept' /\ Finished' /\ FirstRun'
  BY DEF Inv, FilesKept, Finished, FirstRun, Agrees, Own, Whole, Revise, disk, run, hist
<1>5. QED  BY <1>2, <1>3, <1>4 DEF Inv

LEMMA StartKeepsInv ==
  ASSUME Inv, NEW c \in SeedCutoffs, NEW n \in MaxTotals, Start(c, n)
  PROVE  Inv'
<1> USE DEF Start, env, disk
<1>1. todo = {} /\ entries = {} /\ current = NoPaper
  BY DEF Inv, Types, Places, Working
<1>2. Types'
  <2>1. MaxRuns \in Nat /\ n \in Nat  BY CorpusAssumption DEF CorpusAssumption
  <2>2. IsFiniteSet({}) /\ Cardinality({}) = 0 /\ 0 <= AtMost(n)
    BY <2>1, FS_EmptySet DEF AtMost
  <2>3. runs' \in 0 .. MaxRuns  BY <2>1 DEF Inv, Types
  <2>4. pc' \in {"idle", "harvest"} /\ outcome' \in {"none", "refused"}  OBVIOUS
  <2>5. QED  BY <1>1, <2>2, <2>3, <2>4 DEF Inv, Types, Phases, Working
<1>3. Cutoffs'
  <2>1. c \in Nat /\ DEFAULT_CUTOFF \in Nat  BY CorpusAssumption DEF CorpusAssumption
  <2>2. QED  BY <2>1 DEF Cutoffs
<1>4. Places' /\ Writing'  BY <1>1 DEF Places, Writing
<1>5. FilesKept' /\ GoodLines'
  BY <1>1 DEF Inv, FilesKept, GoodLines
<1>6. Finished'  BY DEF Finished
<1>7. FirstRun'
  <2>1. runs \in Nat /\ runs' = runs + 1  BY DEF Inv, Types
  <2>2. runs' = 1 => \A d \in ArxivResult : papers'[d].pdf = None
    BY <2>1 DEF Inv, FirstRun
  <2>3. runs' # 0 /\ todo' = {} /\ entries' = {} /\ current' = NoPaper /\ outcome' # "finished"
    BY <1>1, <2>1
  <2>4. QED  BY <2>2, <2>3 DEF FirstRun
<1>8. QED  BY <1>2, <1>3, <1>4, <1>5, <1>6, <1>7 DEF Inv

LEMMA HarvestPageKeepsInv == ASSUME Inv, HarvestPage PROVE Inv'
<1> USE DEF HarvestPage, env, disk, hist
<1>1. PICK found \in (SUBSET {r \in ArxivResult : /\ r.version = arxiv[r.paper] /\ Passes(r, cutoff)
                                                  /\ \A known \in results : known.paper # r.paper}) \ {{}} :
        /\ results' = results \cup found /\ Cardinality(results') <= AtMost(max_total)
        /\ IF Cardinality(results') >= max_total
             THEN pc' = "papers" /\ todo' = results'
             ELSE UNCHANGED <<pc, todo>>
  OBVIOUS
<1>2. todo = {} /\ entries = {} /\ current = NoPaper /\ skipped = {} /\ outcome = "none"
  BY DEF Inv, Types, Places, Working, Finished
<1>3. results' \subseteq ArxivResult /\ IsFiniteSet(results')
  <2>1. results' \subseteq ArxivResult  BY <1>1 DEF Inv, Types
  <2>2. QED  BY <2>1, ResultsAreFinite, FS_Subset
<1>4. (pc' = "papers" /\ todo' = results') \/ (pc' = "harvest" /\ todo' = {})  BY <1>1, <1>2
<1>5. Types'
  BY <1>1, <1>2, <1>3, <1>4 DEF Inv, Types, Phases, Working
<1>6. Cutoffs' /\ Places' /\ Writing'
  BY <1>2, <1>4 DEF Inv, Cutoffs, Places, Writing
<1>7. FilesKept' /\ GoodLines' /\ Finished'
  BY <1>2, <1>4 DEF Inv, FilesKept, GoodLines, Finished
<1>8. FirstRun'
  BY <1>2, <1>3, <1>4 DEF Inv, FirstRun
<1>9. QED  BY <1>5, <1>6, <1>7, <1>8 DEF Inv

LEMMA HarvestEndsKeepsInv == ASSUME Inv, HarvestEnds PROVE Inv'
<1> USE DEF HarvestEnds, env, disk
<1>1. CASE results = {}
  <2>1. End("no_results") /\ pc # "idle"  BY <1>1
  <2>2. manifest' \in Seq(ManifestEntry \cup {Torn}) /\ corpus_hash' \in {None, Torn} \cup built'
    BY DEF Inv, Types
  <2>3. GoodLines'  BY DEF Inv, GoodLines
  <2>4. QED  BY <2>1, <2>2, <2>3, EndKeepsInv
<1>2. CASE results # {}
  <2>1. todo = {} /\ entries = {} /\ current = NoPaper /\ skipped = {} /\ outcome = "none"
    BY DEF Inv, Types, Places, Working, Finished
  <2>2. Types'  BY <1>2, <2>1 DEF Inv, Types, Phases, Working
  <2>3. Cutoffs' /\ Places' /\ Writing' /\ GoodLines'
    BY <1>2, <2>1 DEF Inv, Cutoffs, Places, Writing, GoodLines
  <2>4. FilesKept' /\ Finished'
    BY <1>2, <2>1 DEF Inv, FilesKept, Finished
  <2>5. FirstRun'  BY <1>2, <2>1 DEF Inv, FirstRun, Types
  <2>6. QED  BY <2>2, <2>3, <2>4, <2>5 DEF Inv
<1>3. QED  BY <1>1, <1>2

(* A paper is taken in hand, with the PDF in its directory. *)
LEMMA TakeKeepsInv ==
  ASSUME Inv, Same, pc = "papers", NEW r \in todo, NEW pdf \in Pdf,
         pc' = "submit", todo' = todo \ {r}, current' = [result |-> r, pdf |-> pdf],
         polls' = polls, skipped' = skipped, entries' = entries,
         papers' \in [ArxivResult -> DirType],
         \A d \in ArxivResult \ {r} : papers'[d] = papers[d],
         papers'[r].pdf = pdf, pdf.of = r, runs = 1 => pdf.content = "whole"
  PROVE  Inv'
<1>1. r \in results /\ r \in ArxivResult /\ r \notin skipped /\ \A e \in entries : e.result # r
  BY DEF Inv, Types, Places
<1>2. current = NoPaper  BY DEF Inv, Types, Working
<1>3. current' \in [result : results, pdf : Pdf] /\ current' # NoPaper
  <2>1. r # None  BY <1>1, MarksAreNoData
  <2>2. QED  BY <1>1, <2>1 DEF NoPaper
<1>4. current'.result = r /\ current'.pdf = pdf  OBVIOUS
<1>5. Types'
  BY <1>1, <1>3 DEF Inv, Types, Same, Phases, Working, DirType
<1>6. Cutoffs' /\ Writing' /\ GoodLines' /\ Finished'
  BY DEF Inv, Cutoffs, Writing, GoodLines, Finished, Same
<1>7. Places'
  <2>1. ASSUME NEW q \in results
        PROVE  \/ q \in todo' \cup skipped' \/ current'.result = q
               \/ \E e \in entries : e.result = q
    BY <1>2, <1>4 DEF Inv, Places
  <2>2. todo' \cap skipped' = {} /\ \A e \in entries : e.result \notin todo' \cup skipped'
    BY DEF Inv, Places
  <2>3. r \notin todo' \cup skipped'  BY <1>1
  <2>4. QED  BY <1>1, <1>3, <1>4, <2>1, <2>2, <2>3 DEF Places, Same
<1>8. FilesKept'
  <2>1. \A d \in ArxivResult : papers'[d].pdf # None => papers'[d].pdf.of = d
    BY DEF Inv, FilesKept
  <2>2. ASSUME NEW e \in entries PROVE Own(e) /\ papers'[e.result] = papers[e.result]
    <3>1. e.result \in ArxivResult \ {r}  BY <1>1 DEF Inv, Types
    <3>2. QED  BY <3>1 DEF Inv, FilesKept
  <2>3. \A e \in entries : papers'[e.result] = [pdf |-> e.pdf, markdown |-> e.markdown]
    BY <2>2 DEF Inv, FilesKept, Agrees
  <2>4. QED  BY <1>4, <2>1, <2>2, <2>3 DEF FilesKept, Own, Agrees
<1>9. FirstRun'
  <2>1. runs' # 0 /\ pc' # "harvest" /\ outcome' = "none"
    BY DEF Inv, FirstRun, Finished, Same
  <2>2. ASSUME runs = 1 PROVE \A q \in todo' : papers'[q].pdf = None
    <3>1. \A q \in todo' : q \in todo /\ q \in ArxivResult \ {r}  BY DEF Inv, Types
    <3>2. QED  BY <2>2, <3>1 DEF Inv, FirstRun
  <2>3. QED  BY <1>4, <2>1, <2>2 DEF Inv, FirstRun, Same, Whole
<1>10. QED  BY <1>5, <1>6, <1>7, <1>8, <1>9 DEF Inv

LEMMA DownloadKeepsInv == ASSUME Inv, NEW r \in todo, Download(r) PROVE Inv'
<1> USE DEF env, paper_dir
<1> DEFINE kept == papers[r].pdf
           Write(content) == papers' = [papers EXCEPT ![r].pdf = [of |-> r, content |-> content]]
<1>1. Same /\ entries' = entries /\ pc = "papers" /\ r \in ArxivResult
  BY DEF Download, Same, Inv, Types
<1>2. papers \in [ArxivResult -> DirType]  BY DEF Inv, Types, DirType
<1>3. ASSUME NEW content \in {Torn, "whole"}, Write(content)
      PROVE  /\ papers' \in [ArxivResult -> DirType]
             /\ \A d \in ArxivResult \ {r} : papers'[d] = papers[d]
             /\ papers'[r].pdf = [of |-> r, content |-> content]
  BY <1>1, <1>2, <1>3 DEF DirType, Pdf
<1>4. CASE kept # None /\ UNCHANGED papers /\ pc' = "submit" /\ todo' = todo \ {r}
           /\ current' = [result |-> r, pdf |-> kept] /\ UNCHANGED <<polls, skipped>>
  <2>1. kept \in Pdf /\ kept.of = r  BY <1>1, <1>2, <1>4 DEF DirType, Inv, FilesKept
  <2>2. runs # 1  BY <1>4 DEF Inv, FirstRun
  <2>3. QED  BY <1>1, <1>2, <1>4, <2>1, <2>2, TakeKeepsInv
<1>5. CASE kept = None /\ Write("whole") /\ pc' = "submit" /\ todo' = todo \ {r}
           /\ current' = [result |-> r, pdf |-> [of |-> r, content |-> "whole"]]
           /\ UNCHANGED <<polls, skipped>>
  <2> DEFINE pdf == [of |-> r, content |-> "whole"]
  <2>1. pdf \in Pdf /\ pdf.of = r /\ pdf.content = "whole"  BY <1>1 DEF Pdf
  <2>2. papers' \in [ArxivResult -> DirType] /\ papers'[r].pdf = pdf
        /\ \A d \in ArxivResult \ {r} : papers'[d] = papers[d]
    BY <1>3, <1>5
  <2>3. current' = [result |-> r, pdf |-> pdf]  BY <1>5
  <2> HIDE DEF pdf
  <2>4. QED  BY <1>1, <1>5, <2>1, <2>2, <2>3, TakeKeepsInv
<1>6. CASE kept = None /\ Write(Torn) /\ GiveUp(r)
  <2>1. papers' \in [ArxivResult -> DirType] /\ papers'[r].pdf.of = r
        /\ \A d \in ArxivResult \ {r} : papers'[d] = papers[d]
    BY <1>3, <1>6
  <2>2. QED  BY <1>1, <1>6, <2>1, GiveUpKeepsInv
<1>7. CASE kept = None /\ GiveUp(r) /\ UNCHANGED papers
  BY <1>1, <1>2, <1>7, GiveUpKeepsInv
<1>8. QED  BY <1>4, <1>5, <1>6, <1>7 DEF Download

(* The paper in hand goes on to its next request. *)
LEMMA MoveKeepsInv ==
  ASSUME Inv, Same, pc \in Working, pc' \in Working, papers' = papers, todo' = todo,
         current' = current, skipped' = skipped, entries' = entries, polls' \in 0 .. MaxPolls
  PROVE  Inv'
<1>1. Types'  BY DEF Inv, Types, Same, Phases, Working
<1>2. Cutoffs' /\ Places' /\ Writing' /\ GoodLines'
  BY DEF Inv, Cutoffs, Places, Writing, GoodLines, Same, Working
<1>3. FilesKept' /\ Finished'
  BY DEF Inv, FilesKept, Finished, Agrees, Own, Same, Working
<1>4. FirstRun'  BY DEF Inv, FirstRun, Finished, Same, Working, Whole
<1>5. QED  BY <1>1, <1>2, <1>3, <1>4 DEF Inv

(* It is given up before anything of it is written. *)
LEMMA DropKeepsInv ==
  ASSUME Inv, Same, pc \in Working, GiveUp(current.result), papers' = papers, entries' = entries
  PROVE  Inv'
<1>1. current # NoPaper  BY DEF Inv, Types
<1>2. current.result \in ArxivResult  BY <1>1, InHand DEF Inv
<1>3. papers \in [ArxivResult -> DirType]
      /\ (papers[current.result].pdf # None => papers[current.result].pdf.of = current.result)
  BY <1>2 DEF Inv, Types, FilesKept, DirType
<1>4. QED  BY <1>2, <1>3, GiveUpKeepsInv

LEMMA SubmitKeepsInv == ASSUME Inv, Submit PROVE Inv'
<1>1. Same /\ pc \in Working /\ papers' = papers /\ entries' = entries
  BY DEF Submit, Same, Working, env, disk
<1>2. CASE pc' = "poll" /\ UNCHANGED <<todo, current, polls, skipped>>
  <2>1. polls' \in 0 .. MaxPolls  BY <1>2 DEF Inv, Types
  <2>2. pc' \in Working  BY <1>2 DEF Working
  <2>3. QED  BY <1>1, <1>2, <2>1, <2>2, MoveKeepsInv
<1>3. CASE GiveUp(current.result)  BY <1>1, <1>3, DropKeepsInv
<1>4. QED  BY <1>2, <1>3 DEF Submit

LEMMA PollKeepsInv == ASSUME Inv, Poll PROVE Inv'
<1>1. Same /\ pc \in Working /\ papers' = papers /\ entries' = entries
  BY DEF Poll, Same, Working, env, disk
<1>2. polls \in 0 .. MaxPolls /\ polls < MaxPolls /\ MaxPolls \in Nat
  BY CorpusAssumption DEF Inv, Types, Poll, CorpusAssumption
<1>3. CASE polls' = polls + 1 /\ UNCHANGED <<pc, todo, current, skipped>>
  <2>1. polls' \in 0 .. MaxPolls /\ pc' \in Working  BY <1>1, <1>2, <1>3
  <2>2. QED  BY <1>1, <1>3, <2>1, MoveKeepsInv
<1>4. CASE pc' = "extract" /\ UNCHANGED <<todo, current, polls, skipped>>
  <2>1. polls' \in 0 .. MaxPolls /\ pc' \in Working  BY <1>2, <1>4 DEF Working
  <2>2. QED  BY <1>1, <1>4, <2>1, MoveKeepsInv
<1>5. CASE GiveUp(current.result)  BY <1>1, <1>5, DropKeepsInv
<1>6. QED  BY <1>3, <1>4, <1>5 DEF Poll

LEMMA PollFailsKeepsInv == ASSUME Inv, PollFails PROVE Inv'
<1>1. Same /\ pc \in Working /\ papers' = papers /\ entries' = entries
  BY DEF PollFails, Same, Working, env, disk
<1>2. GiveUp(current.result)  BY DEF PollFails
<1>3. QED  BY <1>1, <1>2, DropKeepsInv

(* The paper in hand becomes an entry, of what its directory now holds. *)
LEMMA EnterKeepsInv ==
  ASSUME Inv, Same, pc = "extract", NEW markdown \in Markdown,
         markdown.of = current.result, markdown.content \in Parses,
         papers' = [papers EXCEPT ![current.result].markdown = markdown],
         entries' = entries \cup {Entry(markdown)},
         pc' = "papers", current' = NoPaper, polls' = 0, todo' = todo, skipped' = skipped
  PROVE  Inv'
<1> DEFINE r == current.result
           new == Entry(markdown)
<1>1. current # NoPaper  BY DEF Inv, Types, Working
<1>2. r \in results /\ r \in ArxivResult /\ current.pdf \in Pdf  BY <1>1, InHand DEF Inv
<1>3. /\ new \in ManifestEntry /\ new.result = r /\ new.pdf = current.pdf
      /\ new.markdown = markdown
  BY <1>2 DEF Entry, ManifestEntry
<1>4. r \notin todo \cup skipped /\ \A e \in entries : e.result # r
  BY <1>1 DEF Inv, Places
<1>5. /\ papers' \in [ArxivResult -> DirType]
      /\ \A d \in ArxivResult \ {r} : papers'[d] = papers[d]
      /\ papers'[r] = [pdf |-> papers[r].pdf, markdown |-> markdown]
  <2>1. papers \in [ArxivResult -> DirType]  BY DEF Inv, Types, DirType
  <2>2. QED  BY <1>2, <2>1 DEF DirType
<1>6. current.pdf = papers[r].pdf /\ current.pdf.of = r  BY <1>1 DEF Inv, FilesKept
<1> HIDE DEF new
<1>7. entries' = entries \cup {new}  BY DEF new
<1>8. Types'
  <2>1. IsFiniteSet(entries')  BY <1>7, FS_AddElement DEF Inv, Types
  <2>2. MaxPolls \in Nat  BY CorpusAssumption DEF CorpusAssumption
  <2>3. QED
    BY <1>2, <1>3, <1>5, <1>7, <2>1, <2>2 DEF Inv, Types, Same, Phases, Working, DirType
<1>9. Cutoffs' /\ Writing' /\ GoodLines' /\ Finished'
  BY DEF Inv, Cutoffs, Writing, GoodLines, Finished, Same
<1>10. Places'
  <2>1. ASSUME NEW q \in results
        PROVE  q \in todo \cup skipped \/ \E e \in entries' : e.result = q
    BY <1>3, <1>7 DEF Inv, Places
  <2>2. todo \cap skipped = {} /\ \A e \in entries' : e.result \notin todo \cup skipped
    BY <1>3, <1>4, <1>7 DEF Inv, Places
  <2>3. QED  BY <2>1, <2>2 DEF Places, Same
<1>11. FilesKept'
  <2>1. \A d \in ArxivResult : papers'[d].pdf # None => papers'[d].pdf.of = d
    BY <1>5, <1>6 DEF Inv, FilesKept
  <2>2. ASSUME NEW e \in entries PROVE Own(e) /\ papers'[e.result] = papers[e.result]
    <3>1. e.result \in ArxivResult \ {r}  BY <1>4 DEF Inv, Types
    <3>2. QED  BY <1>5, <3>1 DEF Inv, FilesKept
  <2>3. \A e \in entries : papers'[e.result] = [pdf |-> e.pdf, markdown |-> e.markdown]
    BY <2>2 DEF Inv, FilesKept, Agrees
  <2>4. Own(new) /\ papers'[new.result] = [pdf |-> new.pdf, markdown |-> new.markdown]
    BY <1>3, <1>5, <1>6 DEF Own
  <2>5. QED  BY <1>7, <2>1, <2>2, <2>3, <2>4 DEF FilesKept, Own, Agrees
<1>12. FirstRun'
  <2>1. runs' # 0 /\ pc' # "harvest" /\ outcome' = "none"
    BY DEF Inv, FirstRun, Finished, Same
  <2>2. ASSUME runs = 1
        PROVE  (\A q \in todo : papers'[q].pdf = None) /\ \A e \in entries' : Whole(e)
    <3>1. \A q \in todo : q \in ArxivResult \ {r}  BY <1>4 DEF Inv, Types
    <3>2. \A q \in todo : papers'[q].pdf = None  BY <1>5, <2>2, <3>1 DEF Inv, FirstRun
    <3>3. Whole(new)  BY <1>1, <1>3, <2>2 DEF Inv, FirstRun, Whole
    <3>4. QED  BY <1>7, <2>2, <3>2, <3>3 DEF Inv, FirstRun
  <2>3. QED  BY <2>1, <2>2 DEF FirstRun, Same, Whole
<1>13. QED  BY <1>8, <1>9, <1>10, <1>11, <1>12 DEF Inv

LEMMA ExtractKeepsInv == ASSUME Inv, Extract PROVE Inv'
<1> DEFINE r == current.result
           Write(content) ==
             papers' = [papers EXCEPT ![r].markdown = [of |-> r, content |-> content]]
<1>1. Same /\ pc = "extract" /\ pc \in Working
  BY DEF Extract, Same, Working, env
<1>2. r \in ArxivResult  BY <1>1, InHand DEF Inv, Types
<1>3. papers \in [ArxivResult -> DirType]
      /\ (papers[r].pdf # None => papers[r].pdf.of = r)
  BY <1>2 DEF Inv, Types, FilesKept, DirType
<1>4. ASSUME NEW parse \in Parses, Write(parse),
             entries' = entries \cup {Entry([of |-> r, content |-> parse])},
             pc' = "papers", current' = NoPaper, polls' = 0, UNCHANGED <<todo, skipped>>
      PROVE  Inv'
  <2> DEFINE markdown == [of |-> r, content |-> parse]
  <2>1. markdown \in Markdown /\ markdown.of = r /\ markdown.content \in Parses
    BY <1>2 DEF Markdown
  <2>2. papers' = [papers EXCEPT ![r].markdown = markdown]
        /\ entries' = entries \cup {Entry(markdown)}
    BY <1>4
  <2> HIDE DEF markdown
  <2>3. QED  BY <1>1, <1>4, <2>1, <2>2, EnterKeepsInv
<1>5. ASSUME NEW content \in Parses \cup {Torn}, Write(content), GiveUp(r), UNCHANGED entries
      PROVE  Inv'
  <2>1. /\ papers' \in [ArxivResult -> DirType] /\ papers'[r].pdf = papers[r].pdf
        /\ \A d \in ArxivResult \ {r} : papers'[d] = papers[d]
    BY <1>2, <1>3, <1>5 DEF DirType, Markdown
  <2>2. papers'[r].pdf # None => papers'[r].pdf.of = r  BY <1>3, <2>1
  <2>3. QED  BY <1>1, <1>2, <1>5, <2>1, <2>2, GiveUpKeepsInv
<1>6. CASE GiveUp(r) /\ UNCHANGED <<papers, entries>>  BY <1>1, <1>6, DropKeepsInv
<1>7. QED  BY <1>4, <1>5, <1>6 DEF Extract, paper_dir

LEMMA OpenManifestKeepsInv == ASSUME Inv, OpenManifest PROVE Inv'
<1> USE DEF OpenManifest, env
<1>1. CASE Refuses(entries, cutoff)
  <2>1. End("refused") /\ pc # "idle" /\ manifest' = manifest  BY <1>1
  <2>2. manifest' \in Seq(ManifestEntry \cup {Torn}) /\ corpus_hash' \in {None, Torn} \cup built'
    BY <2>1 DEF Inv, Types
  <2>3. GoodLines'  BY <2>1 DEF Inv, GoodLines
  <2>4. QED  BY <2>1, <2>2, <2>3, EndKeepsInv
<1>2. CASE ~Refuses(entries, cutoff)
  <2>1. canonical' \in Seq(ManifestEntry) /\ Lines(canonical') = entries
    BY <1>2, ManifestListsEntries DEF Inv, Types
  <2>2. current = NoPaper  BY DEF Inv, Types, Working
  <2>3. \A e \in entries : Passes(e.result, DEFAULT_CUTOFF)
    <3>1. cutoff \in Nat /\ DEFAULT_CUTOFF \in Nat /\ cutoff <= DEFAULT_CUTOFF
      BY CorpusAssumption DEF CorpusAssumption, Inv, Types, Cutoffs
    <3>2. ASSUME NEW e \in entries PROVE submitted_at(e.result) \in Nat
      <4>1. e.result \in ArxivResult  BY DEF Inv, Types, ManifestEntry
      <4>2. e.result.paper \in Papers  BY <4>1 DEF ArxivResult
      <4>3. PICK dates : dates = Released[e.result.paper]  OBVIOUS
      <4>4. dates \in Seq(Nat) /\ dates # <<>>
        BY <4>2, <4>3, CorpusAssumption DEF CorpusAssumption
      <4>5. dates[1] \in Nat  BY <4>4
      <4>6. QED  BY <4>3, <4>5 DEF submitted_at
    <3>3. QED  BY <1>2, <3>1, <3>2 DEF Refuses, Passes
  <2>4. manifest' = <<>> /\ pc' = "write"  BY <1>2
  <2>5. Types'  BY <1>2, <2>1, <2>2 DEF Inv, Types, Phases, Working
  <2>6. Cutoffs'  BY <1>2, <2>3 DEF Inv, Cutoffs
  <2>7. Places'  BY <1>2, <2>2 DEF Inv, Places
  <2>8. FilesKept'  BY <1>2, <2>2 DEF Inv, FilesKept, Own, Agrees
  <2>9. Writing'
    <3>1. Len(manifest') = 0 /\ Len(canonical') \in Nat  BY <2>1, <2>4
    <3>2. QED  BY <1>2, <2>1, <2>4, <3>1 DEF Writing
  <2>10. GoodLines'  BY <2>4 DEF GoodLines
  <2>11. Finished' /\ FirstRun'
    BY <1>2, <2>2 DEF Inv, Finished, FirstRun, Whole
  <2>12. QED  BY <2>5, <2>6, <2>7, <2>8, <2>9, <2>10, <2>11 DEF Inv
<1>3. QED  BY <1>1, <1>2

(* A line of the manifest being written is that of an entry. *)
LEMMA LineOfEntry ==
  ASSUME Inv, pc = "write", NEW i \in 1 .. Len(canonical)
  PROVE  canonical[i] \in entries /\ canonical[i] \in ManifestEntry
<1>1. canonical \in Seq(ManifestEntry) /\ Lines(canonical) = entries
  BY DEF Inv, Types, Writing
<1>2. QED  BY <1>1 DEF Lines

LEMMA WriteLineKeepsInv == ASSUME Inv, WriteLine PROVE Inv'
<1> USE DEF WriteLine, env, run, hist
<1> DEFINE n == Len(manifest)
           line == canonical[n + 1]
<1>1. /\ manifest \in Seq(ManifestEntry \cup {Torn}) /\ canonical \in Seq(ManifestEntry)
      /\ n \in Nat /\ Len(canonical) \in Nat /\ n + 1 \in 1 .. Len(canonical)
  BY DEF Inv, Types
<1>2. line \in entries /\ line \in ManifestEntry  BY <1>1, LineOfEntry
<1>3. Passes(line.result, DEFAULT_CUTOFF) /\ Own(line)
  BY <1>2 DEF Inv, Cutoffs, FilesKept
<1>4. /\ manifest' \in Seq(ManifestEntry \cup {Torn}) /\ Len(manifest') = n + 1
      /\ manifest'[n + 1] = line /\ \A i \in 1 .. n : manifest'[i] = manifest[i]
  BY <1>1, <1>2
<1>5. Types'  BY <1>4 DEF Inv, Types
<1>6. Cutoffs' /\ Places'  BY DEF Inv, Cutoffs, Places
<1>7. FilesKept'  BY DEF Inv, FilesKept, Own, Agrees
<1>8. Writing'
  <2>1. ASSUME NEW i \in 1 .. Len(manifest') PROVE manifest'[i] = canonical[i]
    <3>1. i \in 1 .. n \/ i = n + 1  BY <1>1, <1>4
    <3>2. QED  BY <1>4, <3>1 DEF Inv, Writing
  <2>2. QED  BY <1>1, <1>4, <2>1 DEF Inv, Writing
<1>9. GoodLines'
  <2>1. ASSUME NEW i \in DOMAIN manifest'
        PROVE  manifest'[i] # Torn => Passes(manifest'[i].result, DEFAULT_CUTOFF) /\ Own(manifest'[i])
    <3>1. i \in 1 .. n \/ i = n + 1  BY <1>1, <1>4
    <3>2. i \in 1 .. n => i \in DOMAIN manifest  BY <1>1
    <3>3. QED  BY <1>3, <1>4, <3>1, <3>2 DEF Inv, GoodLines
  <2>2. QED  BY <2>1 DEF GoodLines, Own
<1>10. Finished' /\ FirstRun'  BY DEF Inv, Finished, FirstRun, Whole
<1>11. QED  BY <1>5, <1>6, <1>7, <1>8, <1>9, <1>10 DEF Inv

LEMMA WriteHashKeepsInv == ASSUME Inv, WriteHash PROVE Inv'
<1> USE DEF WriteHash, env
<1>1. manifest' = canonical /\ canonical \in Seq(ManifestEntry) /\ Lines(canonical) = entries
  BY DEF Inv, Types, Writing
<1>2. {line.result : line \in entries} = results \ skipped
  <2>1. current = NoPaper /\ todo = {}  BY DEF Inv, Types, Working, Writing
  <2>2. \A e \in entries : e.result \in results \ skipped  BY DEF Inv, Types, Places
  <2>3. \A q \in results \ skipped : \E e \in entries : e.result = q
    BY <2>1 DEF Inv, Places
  <2>4. QED  BY <2>2, <2>3
<1>3. \A line \in entries : Agrees(line) /\ (runs = 1 => Whole(line))
  BY DEF Inv, FilesKept, FirstRun
<1>4. /\ corpus_hash' = manifest' /\ manifest' \in Seq(ManifestEntry)
      /\ {line.result : line \in Lines(manifest')} = results \ skipped
      /\ \A line \in Lines(manifest') : Agrees(line) /\ (runs = 1 => Whole(line))
  BY <1>1, <1>2, <1>3
<1>5. manifest' \in Seq(ManifestEntry \cup {Torn}) /\ corpus_hash' \in {None, Torn} \cup built'
  BY <1>1
<1>6. GoodLines'  BY DEF Inv, GoodLines
<1>7. End("finished") /\ pc # "idle"  OBVIOUS
<1>8. QED  BY <1>4, <1>5, <1>6, <1>7, EndKeepsInv

LEMMA CrashKeepsInv == ASSUME Inv, Crash PROVE Inv'
<1> USE DEF Crash, env
<1>1. manifest \in Seq(ManifestEntry \cup {Torn}) /\ corpus_hash \in {None, Torn} \cup built
  BY DEF Inv, Types
<1>2. manifest' = manifest \/ manifest' = Append(manifest, Torn)  OBVIOUS
<1>3. manifest' \in Seq(ManifestEntry \cup {Torn}) /\ corpus_hash' \in {None, Torn} \cup built'
  BY <1>1
<1>4. GoodLines'
  <2>1. ASSUME NEW i \in DOMAIN manifest', manifest'[i] # Torn
        PROVE  i \in DOMAIN manifest /\ manifest'[i] = manifest[i]
    BY <1>1, <1>2, <2>1
  <2>2. QED  BY <2>1 DEF Inv, GoodLines, Own
<1>5. End("crashed") /\ pc # "idle"  OBVIOUS
<1>6. QED  BY <1>3, <1>4, <1>5, EndKeepsInv

LEMMA NextKeepsInv == Inv /\ [Next]_vars => Inv'
<1> SUFFICES ASSUME Inv, [Next]_vars PROVE Inv'  OBVIOUS
<1>1. CASE UNCHANGED vars
  <2> USE <1>1 DEF vars, env, disk, run, hist
  <2>1. Types' /\ Cutoffs' /\ Places'  BY DEF Inv, Types, Cutoffs, Places
  <2>2. FilesKept' /\ Writing' /\ GoodLines'
    BY DEF Inv, FilesKept, Writing, GoodLines, Own, Agrees
  <2>3. Finished' /\ FirstRun'  BY DEF Inv, Finished, FirstRun, Whole, Agrees
  <2>4. QED  BY <2>1, <2>2, <2>3 DEF Inv
<1>2. CASE \E p \in Papers : Revise(p)  BY <1>2, ReviseKeepsInv
<1>3. CASE \E c \in SeedCutoffs, n \in MaxTotals : Start(c, n)  BY <1>3, StartKeepsInv
<1>4. CASE Proceed
  BY <1>4, HarvestPageKeepsInv, HarvestEndsKeepsInv, DownloadKeepsInv, SubmitKeepsInv,
     PollKeepsInv, PollFailsKeepsInv, ExtractKeepsInv, OpenManifestKeepsInv,
     WriteLineKeepsInv, WriteHashKeepsInv DEF Proceed
<1>5. CASE Crash  BY <1>5, CrashKeepsInv
<1>6. QED  BY <1>1, <1>2, <1>3, <1>4, <1>5 DEF Next

(* The invariant holds at all times. *)
THEOREM Invariance == Spec => []Inv
<1>1. QED  BY InitInv, NextKeepsInv, PTL DEF Spec

-----------------------------------------------------------------------------
(* A run gets ahead.                                                       *)

(* A paper in hand is not waiting any more, so that giving it up leaves    *)
(* the others as they are.                                                 *)
LEMMA GiveUpAdvances ==
  ASSUME Inv, pc \in Working, GiveUp(current.result)
  PROVE  Advances
<1>1. current # NoPaper  BY DEF Inv, Types
<1>2. current.result \notin todo  BY <1>1 DEF Inv, Places
<1>3. todo' = todo  BY <1>2 DEF GiveUp
<1>4. Stage["papers"] > Stage[pc]  BY DEF Stage, Working
<1>5. QED  BY <1>3, <1>4 DEF GiveUp, Advances

LEMMA LoopAdvances ==
  ASSUME Inv, (\E r \in todo : Download(r)) \/ Submit \/ Poll \/ PollFails \/ Extract
  PROVE  Advances
<1>1. CASE \E r \in todo : Download(r)
  <2>1. PICK r \in todo : todo' = todo \ {r}  BY <1>1 DEF Download, GiveUp
  <2>2. QED  BY <2>1 DEF Advances
<1>2. CASE Submit
  <2>1. CASE GiveUp(current.result)  BY <1>2, <2>1, GiveUpAdvances DEF Submit, Working
  <2>2. CASE ~GiveUp(current.result)
    <3>1. pc = "submit" /\ pc' = "poll" /\ todo' = todo  BY <1>2, <2>2 DEF Submit
    <3>2. QED  BY <3>1 DEF Advances, Stage
  <2>3. QED  BY <2>1, <2>2
<1>3. CASE Poll
  <2>1. pc = "poll" /\ polls \in Nat  BY <1>3 DEF Poll, Inv, Types
  <2>2. CASE GiveUp(current.result)  BY <2>1, <2>2, GiveUpAdvances DEF Working
  <2>3. CASE polls' = polls + 1 /\ UNCHANGED <<pc, todo>>  BY <2>1, <2>3 DEF Advances
  <2>4. CASE pc' = "extract" /\ todo' = todo  BY <2>1, <2>4 DEF Advances, Stage
  <2>5. QED  BY <1>3, <2>2, <2>3, <2>4 DEF Poll
<1>4. CASE PollFails  BY <1>4, GiveUpAdvances DEF PollFails, Working
<1>5. CASE Extract
  <2>1. CASE GiveUp(current.result)  BY <1>5, <2>1, GiveUpAdvances DEF Extract, Working
  <2>2. CASE ~GiveUp(current.result)
    <3>1. pc = "extract" /\ pc' = "papers" /\ todo' = todo  BY <1>5, <2>2 DEF Extract
    <3>2. QED  BY <3>1 DEF Advances, Stage
  <2>3. QED  BY <2>1, <2>2
<1>6. QED  BY <1>1, <1>2, <1>3, <1>4, <1>5

LEMMA ProceedAdvances == ASSUME Inv, Proceed PROVE Advances
<1>1. CASE HarvestPage
  <2>1. pc = "harvest"  BY <1>1 DEF HarvestPage
  <2>2. PICK found : /\ found # {} /\ results' = results \cup found
                     /\ \A r \in found : \A known \in results : known.paper # r.paper
                     /\ pc' = "papers" \/ UNCHANGED <<pc, todo>>
    BY <1>1 DEF HarvestPage
  <2>3. results \subseteq results' /\ results' # results  BY <2>2
  <2>4. QED  BY <2>1, <2>2, <2>3 DEF Advances
<1>2. CASE HarvestEnds  BY <1>2 DEF HarvestEnds, End, Advances
<1>3. CASE OpenManifest
  <2>1. pc = "papers" /\ todo' = todo /\ pc' \in {"idle", "write"}
    BY <1>3 DEF OpenManifest, End
  <2>2. QED  BY <2>1 DEF Advances, Stage
<1>4. CASE WriteLine
  <2>1. /\ pc = "write" /\ UNCHANGED <<pc, todo>>
        /\ manifest' = Append(manifest, canonical[Len(manifest) + 1])
    BY <1>4 DEF WriteLine, run
  <2>2. manifest \in Seq(ManifestEntry \cup {Torn}) /\ canonical \in Seq(ManifestEntry)
    BY DEF Inv, Types
  <2>3. Len(manifest) \in Nat /\ Len(manifest) < Len(canonical) /\ Len(canonical) \in Nat
    BY <1>4, <2>2 DEF WriteLine
  <2>4. canonical[Len(manifest) + 1] \in ManifestEntry  BY <2>2, <2>3
  <2>5. Len(manifest') = Len(manifest) + 1  BY <2>1, <2>2, <2>4
  <2>6. QED  BY <2>1, <2>3, <2>5 DEF Advances
<1>5. CASE WriteHash
  <2>1. pc = "write" /\ pc' = "idle" /\ todo = {} /\ todo' = {}
    BY <1>5 DEF WriteHash, End, Inv, Writing
  <2>2. QED  BY <2>1 DEF Advances, Stage
<1>6. QED  BY <1>1, <1>2, <1>3, <1>4, <1>5, LoopAdvances DEF Proceed

-----------------------------------------------------------------------------
(* The properties.                                                         *)

(* No step of a run is in vain: no paper is taken up again, no stage comes *)
(* back, and the deadline of a task comes closer with every poll.          *)
THEOREM AdvancesTheorem == Spec => RunAdvances
<1>1. Inv /\ [Next]_vars => [Proceed => Advances]_vars  BY ProceedAdvances
<1>2. QED  BY <1>1, Invariance, PTL DEF Spec, RunAdvances

(* The state of a build has the types TypeOK gives it: polling stops at    *)
(* the deadline, and a run harvests no more than it may.                   *)
THEOREM TypeTheorem == Spec => []TypeOK
<1>1. Inv => TypeOK
  BY DEF Inv, Types, TypeOK, Phases, Working
<1>2. QED  BY <1>1, Invariance, PTL

(* No manifest ever has a paper from after the benchmark's cutoff, or one  *)
(* of the blocklist, whatever the seed files name and whatever was killed. *)
THEOREM CutoffTheorem == Spec => []OnlyPreCutoffPapers
<1>1. Inv => OnlyPreCutoffPapers  BY DEF Inv, GoodLines, OnlyPreCutoffPapers
<1>2. QED  BY <1>1, Invariance, PTL

(* A line's files are of the version it names. *)
THEOREM FilesTheorem == Spec => []LinesNameTheirFiles
<1>1. Inv => LinesNameTheirFiles  BY DEF Inv, GoodLines, Own, LinesNameTheirFiles
<1>2. QED  BY <1>1, Invariance, PTL

(* After a finished run hash, manifest and papers directory agree. *)
THEOREM AgreementTheorem == Spec => []CorpusAgrees
<1>1. ASSUME Inv, outcome = "finished", NEW i \in DOMAIN manifest
      PROVE  papers[paper_dir(manifest[i].result)] =
               [pdf |-> manifest[i].pdf, markdown |-> manifest[i].markdown]
  BY <1>1 DEF Inv, Finished, Agrees, Lines, paper_dir
<1>2. Inv /\ outcome = "finished" => corpus_hash = manifest  BY DEF Inv, Finished
<1>3. Inv => CorpusAgrees  BY <1>1, <1>2 DEF CorpusAgrees
<1>4. QED  BY <1>3, Invariance, PTL

(* A manifest that has the hash on disk was written to its end. *)
THEOREM HashTheorem == Spec => []VerifiedCorpusWasBuilt
<1>1. Inv => VerifiedCorpusWasBuilt
  <2> SUFFICES ASSUME Inv, corpus_hash = manifest PROVE manifest \in built
    BY DEF VerifiedCorpusWasBuilt
  <2>1. manifest \in Seq(ManifestEntry \cup {Torn}) /\ corpus_hash \in {None, Torn} \cup built
    BY DEF Inv, Types
  <2>2. corpus_hash \notin {None, Torn}  BY <2>1, MarksAreNoData
  <2>3. QED  BY <2>1, <2>2
<1>2. QED  BY <1>1, Invariance, PTL

(* What the first run over empty directories lists is whole. *)
THEOREM FreshBuildTheorem == Spec => []FreshBuildIsWhole
<1>1. Inv => FreshBuildIsWhole  BY DEF Inv, FirstRun, Whole, FreshBuildIsWhole
<1>2. QED  BY <1>1, Invariance, PTL

(* A finished run lists every paper it harvested and did not give up. *)
THEOREM NothingLostTheorem == Spec => []OnlyFailuresAreMissing
<1>1. Inv => OnlyFailuresAreMissing
  BY DEF Inv, Finished, Lines, OnlyFailuresAreMissing
<1>2. QED  BY <1>1, Invariance, PTL

-----------------------------------------------------------------------------
(* The manifest depends on its entries alone.  The argument is by the      *)
(* first line in which two manifests of the same entries would differ:     *)
(* each has the other's line further down, so that each line would be      *)
(* before the other.                                                       *)

(* What build_manifest makes of its entries. *)
Ordered(lines) ==
  /\ lines \in Seq(ManifestEntry) /\ Len(lines) = Cardinality(Lines(lines))
  /\ \A i, j \in 1 .. Len(lines) : i < j => Before(lines[i], lines[j])

Sorted ==
  /\ \A lines \in built : Ordered(lines)
  /\ pc = "write" => Ordered(canonical)

LEMMA LeastNumber ==
  ASSUME NEW S \in SUBSET Nat, S # {}
  PROVE  \E i \in S : \A j \in S : i <= j
<1> DEFINE R == OpToRel(<, Nat)
<1>1. IsWellFoundedOn(R, Nat)  BY NatLessThanWellFounded
<1>2. \A i, j \in Nat : <<j, i>> \in R <=> j < i  BY DEF OpToRel
<1> HIDE DEF R
<1>3. PICK i \in S : \A j \in S : <<j, i>> \notin R  BY <1>1, WFMin
<1>4. ASSUME NEW j \in S PROVE i <= j
  <2>1. i \in Nat /\ j \in Nat  OBVIOUS
  <2>2. ~(j < i)  BY <1>2, <1>3, <2>1
  <2>3. QED  BY <2>1, <2>2
<1>5. QED  BY <1>4

LEMMA BeforeIsAnOrder ==
  ASSUME NEW e \in ManifestEntry, NEW f \in ManifestEntry, Before(e, f)
  PROVE  ~Before(f, e)
<1>1. /\ e.result.paper \in Nat /\ e.result.version \in Nat
      /\ f.result.paper \in Nat /\ f.result.version \in Nat
  BY CorpusAssumption DEF CorpusAssumption, ManifestEntry, ArxivResult
<1>2. QED  BY <1>1 DEF Before

LEMMA BuildManifestIsOrdered ==
  ASSUME NEW es \in SUBSET ManifestEntry, IsFiniteSet(es), NEW lines \in build_manifest(es)
  PROVE  Ordered(lines)
<1>1. lines \in Seq(ManifestEntry) /\ Lines(lines) = es  BY ManifestListsEntries
<1>2. Cardinality(es) \in Nat  BY FS_CardinalityType
<1>3. /\ lines \in [1 .. Cardinality(es) -> es]
      /\ \A i, j \in 1 .. Cardinality(es) : i < j => Before(lines[i], lines[j])
  BY DEF build_manifest
<1>4. Len(lines) = Cardinality(es)  BY <1>1, <1>2, <1>3
<1>5. QED  BY <1>1, <1>3, <1>4 DEF Ordered

(* A line of one is further down in the other, if they agree above it. *)
LEMMA FurtherDown ==
  ASSUME NEW m, NEW n, Ordered(m), Ordered(n), Lines(m) \subseteq Lines(n),
         NEW i \in 1 .. Len(m), i \in 1 .. Len(n), m[i] # n[i],
         \A j \in 1 .. i - 1 : m[j] = n[j]
  PROVE  Before(n[i], m[i])
<1>1. m \in Seq(ManifestEntry) /\ n \in Seq(ManifestEntry)  BY DEF Ordered
<1>2. PICK j \in 1 .. Len(n) : n[j] = m[i]
  <2>1. m[i] \in Lines(n)  BY <1>1 DEF Lines
  <2>2. QED  BY <1>1, <2>1 DEF Lines
<1>3. ~(j < i)
  <2> SUFFICES ASSUME j < i PROVE FALSE  OBVIOUS
  <2>1. j \in 1 .. i - 1 /\ j \in 1 .. Len(m)  BY <1>1
  <2>2. m[j] = m[i] /\ Before(m[j], m[i])  BY <1>2, <2>1 DEF Ordered
  <2>3. QED  BY <1>1, <2>2, BeforeIsAnOrder
<1>4. i < j  BY <1>1, <1>2, <1>3
<1>5. QED  BY <1>2, <1>4 DEF Ordered

LEMMA OrderedListsAreEqual ==
  ASSUME NEW m, NEW n, Ordered(m), Ordered(n), Lines(m) = Lines(n)
  PROVE  m = n
<1>1. m \in Seq(ManifestEntry) /\ n \in Seq(ManifestEntry) /\ Len(m) = Len(n)
  BY DEF Ordered
<1>2. \A i \in 1 .. Len(m) : m[i] = n[i]
  <2> DEFINE D == {i \in 1 .. Len(m) : m[i] # n[i]}
  <2> SUFFICES ASSUME D # {} PROVE FALSE  OBVIOUS
  <2>1. PICK i \in D : \A j \in D : i <= j
    <3>1. D \in SUBSET Nat  BY <1>1
    <3> HIDE DEF D
    <3>2. QED  BY <3>1, LeastNumber
  <2>2. \A j \in 1 .. i - 1 : m[j] = n[j]  BY <1>1, <2>1
  <2>3. i \in 1 .. Len(m) /\ i \in 1 .. Len(n) /\ m[i] # n[i]  BY <1>1, <2>1
  <2>4. Before(n[i], m[i])  BY <2>2, <2>3, FurtherDown
  <2>5. Before(m[i], n[i])  BY <2>2, <2>3, FurtherDown
  <2>6. m[i] \in ManifestEntry /\ n[i] \in ManifestEntry  BY <1>1, <2>3
  <2>7. QED  BY <2>4, <2>5, <2>6, BeforeIsAnOrder
<1>3. QED  BY <1>1, <1>2

LEMMA NextKeepsSorted == Inv /\ Sorted /\ [Next]_vars => Sorted'
<1> SUFFICES ASSUME Inv, Sorted, [Next]_vars PROVE Sorted'  OBVIOUS
<1>1. CASE OpenManifest
  <2>1. built' = built  BY <1>1 DEF OpenManifest
  <2>2. CASE pc' = "write"
    <3>1. canonical' \in build_manifest(entries)  BY <1>1, <2>2 DEF OpenManifest, End
    <3>2. Ordered(canonical')  BY <3>1, BuildManifestIsOrdered DEF Inv, Types
    <3>3. QED  BY <2>1, <3>2 DEF Sorted
  <2>3. QED  BY <2>1, <2>2 DEF Sorted
<1>2. CASE WriteHash
  BY <1>2 DEF WriteHash, End, Sorted
<1>3. CASE WriteLine
  BY <1>3 DEF WriteLine, Sorted, env, run, hist
<1>4. CASE UNCHANGED vars
  BY <1>4 DEF Sorted, vars, run, hist
<1>5. CASE /\ built' = built
           /\ pc' # "write" \/ (pc = "write" /\ canonical' = canonical)
  BY <1>5 DEF Sorted
<1>6. ASSUME NEW p \in Papers, Revise(p)
      PROVE  built' = built /\ (pc' # "write" \/ (pc = "write" /\ canonical' = canonical))
  BY <1>6 DEF Revise, run, hist
<1>7. ASSUME NEW c \in SeedCutoffs, NEW n \in MaxTotals, Start(c, n)
      PROVE  built' = built /\ pc' # "write"
  BY <1>7 DEF Start
<1>8. HarvestPage \/ HarvestEnds => built' = built /\ pc' # "write"
  BY DEF HarvestPage, HarvestEnds, End, hist
<1>9. ASSUME NEW r \in todo, Download(r) PROVE built' = built /\ pc' # "write"
  BY <1>9 DEF Download, GiveUp
<1>10. Submit \/ Poll \/ PollFails => built' = built /\ pc' # "write"
  BY DEF Submit, Poll, PollFails, GiveUp
<1>11. Extract \/ Crash => built' = built /\ pc' # "write"
  BY DEF Extract, Crash, GiveUp, End
<1>12. QED
  BY <1>1, <1>2, <1>3, <1>4, <1>5, <1>6, <1>7, <1>8, <1>9, <1>10, <1>11 DEF Next, Proceed

(* Two manifests of the same entries are the same, and so are their        *)
(* hashes: the order in which the papers were found leaves no trace.       *)
THEOREM OrderTheorem == Spec => []HashIgnoresOrder
<1>1. Init => Sorted  BY DEF Init, Sorted
<1>2. Sorted => HashIgnoresOrder
  BY OrderedListsAreEqual DEF Sorted, HashIgnoresOrder
<1>3. Spec => []Sorted  BY <1>1, NextKeepsSorted, Invariance, PTL DEF Spec
<1>4. QED  BY <1>2, <1>3, PTL
=============================================================================
