---------------------------- MODULE CorpusBuild -----------------------------
(***************************************************************************)
(* scripts/build_corpus.py and the part of corpus/ it drives: a run reads  *)
(* the seed file, harvests arXiv, downloads and parses the papers one by   *)
(* one into the papers directory and writes manifest.jsonl and then        *)
(* corpus_hash.txt.  Runs follow one another over the same directories; a  *)
(* run may be killed at any point and leaves behind what it had written.   *)
(*                                                                         *)
(* A hash is modelled by what it is the hash of.                           *)
(***************************************************************************)
EXTENDS Mineru, Naturals, FiniteSets, Sequences

CONSTANTS
  Papers,          \* arXiv ids, numbered in their order
  Released,        \* per paper, the date of each of its versions
  Blocklist,       \* filters.arxiv_id_blocklist
  DEFAULT_CUTOFF,
  SeedCutoffs,     \* values of filters.submitted_before, one per run
  MaxTotals,       \* values of --max-papers or limits.max_total_papers
  Parses,          \* what MinerU may make of one PDF
  Replies,         \* what MinerU may reply
  MaxPolls,        \* polls of a MinerU task before the deadline
  Torn,            \* content of a file whose write was cut short
  None,
  MaxRuns          \* bound

ASSUME CorpusAssumption ==
  /\ Papers \subseteq Nat /\ IsFiniteSet(Papers) /\ Blocklist \subseteq Papers
  /\ \A p \in Papers : Released[p] \in Seq(Nat) /\ Released[p] # <<>>
  /\ DEFAULT_CUTOFF \in Nat /\ SeedCutoffs \subseteq Nat
  /\ MaxTotals \subseteq Nat /\ Replies \subseteq Reply
  /\ MaxPolls \in Nat /\ MaxRuns \in Nat
  /\ None \notin Parses \cup {Torn} /\ Torn \notin Parses

(* An ArxivResult, and the content of a source.pdf: a version of a paper.  *)
ArxivResult ==
  UNION {[paper : {p}, version : DOMAIN Released[p]] : p \in Papers}

Pdf      == [of : ArxivResult, content : {Torn, "whole"}]
Markdown == [of : ArxivResult, content : Parses \cup {Torn}]

ManifestEntry == [result : ArxivResult, pdf : Pdf, markdown : Markdown]

ASSUME MarksAreNoData ==
  /\ None \notin ArxivResult \cup Pdf \cup Markdown
  /\ Torn \notin ManifestEntry
  /\ {None, Torn} \cap Seq(ManifestEntry \cup {Torn}) = {}

VARIABLES
  arxiv,          \* the version of each paper arXiv serves
  papers,         \* corpus/papers: per paper directory, its two files
  manifest,       \* manifest.jsonl, a sequence of entries
  corpus_hash,    \* corpus_hash.txt
  pc,             \* where the run is, "idle" between runs
  cutoff,         \* seeds.submitted_before of this run,
  max_total,      \* and its seeds.max_total_papers
  results,        \* what it harvested
  todo,           \* ... and has not processed yet
  current,        \* the paper build_one is at, and its pdf_meta
  polls,
  entries,        \* the entries built so far
  canonical,      \* the lines to write
  runs,           \* history: runs started,
  outcome,        \* how the last one ended,
  skipped,        \* the papers it gave up
  built           \* and the manifests written by finished runs

env   == <<arxiv>>
disk  == <<papers, manifest, corpus_hash>>
run   == <<cutoff, max_total, results, todo, current, polls, entries, canonical>>
hist  == <<runs, outcome, skipped, built>>
vars  == <<env, disk, pc, run, hist>>

submitted_at(r) == Released[r.paper][1]    \* <published>: that of version 1

-----------------------------------------------------------------------------
(* Helpers.                                                                *)

NoPaper == [result |-> None, pdf |-> None]

paper_dir_of_id(r) == [r EXCEPT !.version = 1]    \* a plausible bug in paper_dir

(* papers_root / arxiv_<id><version> *)
paper_dir(r) == r

EmptyDir == [pdf |-> None, markdown |-> None]

(* What search_arxiv lets through: the filters after the search. *)
Passes(r, limit) == submitted_at(r) < limit /\ r.paper \notin Blocklist

(* How many papers a run may harvest. *)
AtMost(limit) == IF limit = 0 THEN 1 ELSE limit

(* build_manifest: what it refuses, and the one way to put the entries in  *)
(* order.                                                                  *)
Refuses(es, limit) ==
  \E e \in es :
    \/ ~Passes(e.result, limit)
    \/ \E f \in es \ {e} : f.result = e.result

Before(e, f) ==
  \/ e.result.paper < f.result.paper
  \/ e.result.paper = f.result.paper /\ e.result.version < f.result.version

build_manifest_unsorted(es) ==    \* a plausible bug
  {lines \in [1 .. Cardinality(es) -> es] :
     \A i, j \in DOMAIN lines : i # j => lines[i] # lines[j]}

build_manifest(es) ==
  {lines \in [1 .. Cardinality(es) -> es] :
     \A i, j \in DOMAIN lines : i < j => Before(lines[i], lines[j])}

(* The process ends, on its own or killed: what it kept in memory is gone, *)
(* what it wrote stays.                                                    *)
End(how) ==
  /\ pc' = "idle" /\ outcome' = how
  /\ todo' = {} /\ current' = NoPaper /\ polls' = 0 /\ entries' = {} /\ canonical' = <<>>
  /\ UNCHANGED <<cutoff, max_total, results, runs>>

Init ==
  /\ arxiv = [p \in Papers |-> 1]
  /\ papers = [d \in ArxivResult |-> EmptyDir]
  /\ manifest = <<>> /\ corpus_hash = None
  /\ pc = "idle" /\ cutoff = DEFAULT_CUTOFF /\ max_total \in MaxTotals
  /\ results = {} /\ todo = {} /\ current = NoPaper /\ polls = 0
  /\ entries = {} /\ canonical = <<>>
  /\ runs = 0 /\ outcome = "none" /\ skipped = {} /\ built = {}

-----------------------------------------------------------------------------
(* The world: authors revise papers.                                       *)

Revise(p) ==
  /\ arxiv[p] < Len(Released[p])
  /\ arxiv' = [arxiv EXCEPT ![p] = @ + 1]
  /\ UNCHANGED <<disk, pc, run, hist>>

-----------------------------------------------------------------------------
(* A run of build_corpus.                                                  *)

(* A plausible bug: trusting the seed file's cutoff. *)
StartOnAnyCutoff(c, n) ==
  /\ pc = "idle" /\ runs < MaxRuns
  /\ runs' = runs + 1 /\ cutoff' = c /\ max_total' = n /\ results' = {} /\ skipped' = {}
  /\ pc' = "harvest" /\ outcome' = "none"
  /\ UNCHANGED <<env, disk, todo, current, polls, entries, canonical, built>>

(* load_seeds, and the check that the seed file does not relax the cutoff. *)
Start(c, n) ==
  /\ pc = "idle" /\ runs < MaxRuns
  /\ runs' = runs + 1 /\ cutoff' = c /\ max_total' = n /\ results' = {} /\ skipped' = {}
  /\ IF c > DEFAULT_CUTOFF
       THEN pc' = "idle" /\ outcome' = "refused"
       ELSE pc' = "harvest" /\ outcome' = "none"
  /\ UNCHANGED <<env, disk, todo, current, polls, entries, canonical, built>>

(* harvest_unique is given a page of papers that match a query and pass    *)
(* the filters, each at the version arXiv serves then.  The first version  *)
(* found of a paper stays; the limit is compared after a paper is added,   *)
(* so that one is harvested even under --max-papers 0.                     *)
HarvestPage ==
  /\ pc = "harvest"
  /\ \E found \in (SUBSET {r \in ArxivResult : /\ r.version = arxiv[r.paper] /\ Passes(r, cutoff)
                                              /\ \A known \in results : known.paper # r.paper}) \ {{}} :
       /\ results' = results \cup found /\ Cardinality(results') <= AtMost(max_total)
       /\ IF Cardinality(results') >= max_total
            THEN pc' = "papers" /\ todo' = results'
            ELSE UNCHANGED <<pc, todo>>
  /\ UNCHANGED <<env, disk, cutoff, max_total, current, polls, entries, canonical, hist>>

(* The queries are through.  Without any paper, MinerU is not asked.       *)
HarvestEnds ==
  /\ pc = "harvest"
  /\ IF results = {} THEN End("no_results")
                     ELSE /\ pc' = "papers" /\ todo' = results
                          /\ UNCHANGED <<cutoff, max_total, results, current, polls, entries,
                                         canonical, runs, outcome>>
  /\ UNCHANGED <<env, disk, skipped, built>>

(* A plausible bug: one paper's failure ends the loop. *)
GiveUpAll(r) ==
  /\ pc' = "papers" /\ todo' = {} /\ skipped' = skipped \cup {r}
  /\ current' = NoPaper /\ polls' = 0

(* A plausible bug: a paper that failed is tried once more. *)
GiveUpForNow(r) ==
  /\ pc' = "papers" /\ todo' = todo \cup {r} /\ skipped' = skipped
  /\ current' = NoPaper /\ polls' = 0

(* build_one raised: the paper is left out, the loop goes on. *)
GiveUp(r) ==
  /\ pc' = "papers" /\ todo' = todo \ {r} /\ skipped' = skipped \cup {r}
  /\ current' = NoPaper /\ polls' = 0

(* A plausible bug: a download cut short by an error is not a failure. *)
DownloadLeniently(r) ==
  LET dir  == paper_dir(r)
      kept == papers[dir].pdf
      Take(pdf) == /\ pc' = "submit" /\ todo' = todo \ {r}
                   /\ current' = [result |-> r, pdf |-> pdf]
                   /\ UNCHANGED <<polls, skipped>>
  IN
  /\ pc = "papers" /\ r \in todo
  /\ \/ kept # None /\ Take(kept) /\ UNCHANGED papers
     \/ \E content \in {Torn, "whole"} :
          /\ kept = None /\ Take([of |-> r, content |-> content])
          /\ papers' = [papers EXCEPT ![dir].pdf = [of |-> r, content |-> content]]
     \/ kept = None /\ GiveUp(r) /\ UNCHANGED papers
  /\ UNCHANGED <<env, manifest, corpus_hash, cutoff, max_total, results, entries, canonical,
                 runs, outcome, built>>

(* download_pdf: a source.pdf that exists is taken as it is.  A download   *)
(* may fail before a byte is written, or leave a file cut short.           *)
Download(r) ==
  LET dir  == paper_dir(r)
      kept == papers[dir].pdf
      Take(pdf) == /\ pc' = "submit" /\ todo' = todo \ {r}
                   /\ current' = [result |-> r, pdf |-> pdf]
                   /\ UNCHANGED <<polls, skipped>>
      Write(content) ==
        papers' = [papers EXCEPT ![dir].pdf = [of |-> r, content |-> content]]
  IN
  /\ pc = "papers" /\ r \in todo
  /\ \/ kept # None /\ Take(kept) /\ UNCHANGED papers
     \/ kept = None /\ Write("whole") /\ Take([of |-> r, content |-> "whole"])
     \/ kept = None /\ Write(Torn) /\ GiveUp(r)
     \/ kept = None /\ GiveUp(r) /\ UNCHANGED papers
  /\ UNCHANGED <<env, manifest, corpus_hash, cutoff, max_total, results, entries, canonical,
                 runs, outcome, built>>

(* submit_batch: a task, or none, which no reply at all is as well. *)
Submit ==
  /\ pc = "submit"
  /\ \/ \E reply \in Replies :
          Accepted(reply) /\ pc' = "poll" /\ UNCHANGED <<todo, current, polls, skipped>>
     \/ (\E reply \in Replies : ~Accepted(reply)) /\ GiveUp(current.result)
  /\ UNCHANGED <<env, disk, cutoff, max_total, results, entries, canonical, runs, outcome, built>>

(* Plausible bugs: polling without a deadline, or past it. *)
PollForever ==
  /\ pc = "poll"
  /\ \/ polls' = (polls + 1) % (MaxPolls + 1) /\ UNCHANGED <<pc, todo, current, skipped>>
     \/ pc' = "extract" /\ UNCHANGED <<todo, current, polls, skipped>>
     \/ GiveUp(current.result)
  /\ UNCHANGED <<env, disk, cutoff, max_total, results, entries, canonical, runs, outcome, built>>

PollPastDeadline ==
  /\ pc = "poll"
  /\ \/ polls <= MaxPolls /\ polls' = polls + 1 /\ UNCHANGED <<pc, todo, current, skipped>>
     \/ pc' = "extract" /\ UNCHANGED <<todo, current, polls, skipped>>
     \/ GiveUp(current.result)
  /\ UNCHANGED <<env, disk, cutoff, max_total, results, entries, canonical, runs, outcome, built>>

(* One round of poll_task: the task goes on, which a reply that says       *)
(* nothing of it counts as, is done, or failed.  A reply that says done    *)
(* without an address is a failure of parse_pdf_url.                       *)
Poll ==
  /\ pc = "poll" /\ polls < MaxPolls
  /\ \E reply \in Replies :
       \/ KeepsPolling(reply) /\ polls' = polls + 1 /\ UNCHANGED <<pc, todo, current, skipped>>
       \/ Completes(reply) /\ _extract_zip_url(reply)
            /\ pc' = "extract" /\ UNCHANGED <<todo, current, polls, skipped>>
       \/ Completes(reply) /\ ~_extract_zip_url(reply) /\ GiveUp(current.result)
       \/ ~KeepsPolling(reply) /\ ~Completes(reply) /\ GiveUp(current.result)
  /\ UNCHANGED <<env, disk, cutoff, max_total, results, entries, canonical, runs, outcome, built>>

(* The deadline has passed, or no reply comes. *)
PollFails ==
  /\ pc = "poll" /\ GiveUp(current.result)
  /\ UNCHANGED <<env, disk, cutoff, max_total, results, entries, canonical, runs, outcome, built>>

(* The entry of the current paper, with the hash of a markdown. *)
Entry(markdown) ==
  [result |-> current.result, pdf |-> current.pdf, markdown |-> markdown]

(* A plausible bug: the hash is that of the zip's full.md, while an        *)
(* existing one is kept.                                                   *)
ExtractUnlessPresent ==
  LET r == current.result IN
  /\ pc = "extract"
  /\ \E parse \in Parses :
       LET full_md == [of |-> r, content |-> parse] IN
       /\ papers' = [papers EXCEPT ![paper_dir(r)].markdown = IF @ = None THEN full_md ELSE @]
       /\ entries' = entries \cup {Entry(full_md)}
  /\ pc' = "papers" /\ current' = NoPaper /\ polls' = 0
  /\ UNCHANGED <<env, manifest, corpus_hash, cutoff, max_total, results, todo, canonical,
                 runs, outcome, skipped, built>>

(* download_zip and extract_zip, which overwrites full.md, mineru_meta.json*)
(* and, back in build_one and the loop, the entry.  A zip without full.md  *)
(* or an error on the way leaves what was extracted until then.            *)
Extract ==
  LET r == current.result
      Write(content) ==
        papers' = [papers EXCEPT ![paper_dir(r)].markdown = [of |-> r, content |-> content]]
  IN
  /\ pc = "extract"
  /\ \/ \E parse \in Parses :
          /\ Write(parse)
          /\ entries' = entries \cup {Entry([of |-> r, content |-> parse])}
          /\ pc' = "papers" /\ current' = NoPaper /\ polls' = 0
          /\ UNCHANGED <<todo, skipped>>
     \/ \E content \in Parses \cup {Torn} :
          Write(content) /\ GiveUp(r) /\ UNCHANGED entries
     \/ GiveUp(r) /\ UNCHANGED <<papers, entries>>
  /\ UNCHANGED <<env, manifest, corpus_hash, cutoff, max_total, results, canonical,
                 runs, outcome, built>>

(* build_manifest, and write_manifest up to opening manifest.jsonl, which  *)
(* empties it.                                                             *)
OpenManifest ==
  /\ pc = "papers" /\ todo = {}
  /\ IF Refuses(entries, cutoff)
       THEN End("refused") /\ UNCHANGED manifest
       ELSE /\ pc' = "write" /\ canonical' \in build_manifest(entries) /\ manifest' = <<>>
            /\ UNCHANGED <<cutoff, max_total, results, todo, current, polls, entries, runs, outcome>>
  /\ UNCHANGED <<env, papers, corpus_hash, skipped, built>>

(* A plausible bug: the hash on disk kept in step with the lines. *)
WriteLineAndHash ==
  /\ pc = "write" /\ Len(manifest) < Len(canonical)
  /\ manifest' = Append(manifest, canonical[Len(manifest) + 1])
  /\ corpus_hash' = manifest'
  /\ UNCHANGED <<env, papers, pc, run, hist>>

WriteLine ==
  /\ pc = "write" /\ Len(manifest) < Len(canonical)
  /\ manifest' = Append(manifest, canonical[Len(manifest) + 1])
  /\ UNCHANGED <<env, papers, corpus_hash, pc, run, hist>>

WriteHash ==
  /\ pc = "write" /\ manifest = canonical
  /\ corpus_hash' = canonical /\ built' = built \cup {canonical}
  /\ End("finished")
  /\ UNCHANGED <<env, papers, manifest, skipped>>

(* The process is killed, or ends with an exception no one catches (arXiv  *)
(* stays unreachable, no MINERU_KEY); a write under way is cut short.  A   *)
(* kill that cuts a PDF or a markdown short is a failed Download or        *)
(* Extract followed by a kill.                                             *)
Crash ==
  /\ pc # "idle" /\ End("crashed")
  /\ \/ UNCHANGED <<manifest, corpus_hash>>
     \/ pc = "write" /\ Len(manifest) < Len(canonical)
          /\ manifest' = Append(manifest, Torn) /\ UNCHANGED corpus_hash
     \/ pc = "write" /\ manifest = canonical
          /\ corpus_hash' = Torn /\ UNCHANGED manifest
  /\ UNCHANGED <<env, papers, skipped, built>>

-----------------------------------------------------------------------------

Proceed ==
  \/ HarvestPage \/ HarvestEnds
  \/ \E r \in todo : Download(r)
  \/ Submit
  \/ Poll
  \/ PollFails
  \/ Extract
  \/ OpenManifest
  \/ WriteLine
  \/ WriteHash

Next ==
  \/ \E p \in Papers : Revise(p)
  \/ \E c \in SeedCutoffs, n \in MaxTotals : Start(c, n)
  \/ Proceed
  \/ Crash

Spec == Init /\ [][Next]_vars

(* A run that is not killed goes on: every request it makes has a timeout. *)
FairSpec == Spec /\ WF_vars(Proceed)

-----------------------------------------------------------------------------
(* Properties.                                                             *)

(* Types; in particular polling stops at the deadline, and a run harvests  *)
(* no more papers than it may.                                             *)
TypeOK ==
  /\ arxiv \in [Papers -> Nat] /\ \A p \in Papers : arxiv[p] \in DOMAIN Released[p]
  /\ papers \in [ArxivResult -> [pdf : Pdf \cup {None}, markdown : Markdown \cup {None}]]
  /\ \A i \in DOMAIN manifest : manifest[i] \in ManifestEntry \cup {Torn}
  /\ corpus_hash \in {None, Torn} \cup built
  /\ pc \in {"idle", "harvest", "papers", "submit", "poll", "extract", "write"}
  /\ cutoff \in SeedCutoffs \cup {DEFAULT_CUTOFF}
  /\ max_total \in MaxTotals /\ Cardinality(results) <= AtMost(max_total)
  /\ results \subseteq ArxivResult /\ todo \subseteq results /\ skipped \subseteq results
  /\ current \in [result : ArxivResult, pdf : Pdf] \cup {NoPaper}
  /\ pc \in {"submit", "poll", "extract"} <=> current # NoPaper
  /\ polls \in 0 .. MaxPolls
  /\ entries \subseteq ManifestEntry
  /\ runs \in 0 .. MaxRuns
  /\ outcome \in {"none", "refused", "no_results", "finished", "crashed"}

(* manifest.py: no paper first submitted at or after the benchmark's       *)
(* cutoff, and none of the blocklist, is ever a line of manifest.jsonl,    *)
(* whatever cutoffs the seed files of its runs name; they are supposed to  *)
(* share one blocklist (build_corpus.py:63 reads it from each).            *)
OnlyPreCutoffPapers ==
  \A i \in DOMAIN manifest :
    manifest[i] # Torn => Passes(manifest[i].result, DEFAULT_CUTOFF)

(* A line's two files are of the very version of the paper that the line   *)
(* names, although files of earlier runs are taken as they are.            *)
LinesNameTheirFiles ==
  \A i \in DOMAIN manifest :
    manifest[i] # Torn =>
      /\ manifest[i].pdf.of = manifest[i].result
      /\ manifest[i].markdown.of = manifest[i].result

(* After a finished run, and until the next one starts, corpus_hash.txt,   *)
(* manifest.jsonl and the papers directory agree: the hash is that of the  *)
(* manifest, and the files have the hashes the manifest gives them.        *)
CorpusAgrees ==
  outcome = "finished" =>
    /\ corpus_hash = manifest
    /\ \A i \in DOMAIN manifest :
         LET line == manifest[i] IN
         papers[paper_dir(line.result)] = [pdf |-> line.pdf, markdown |-> line.markdown]

(* Whoever finds that manifest.jsonl has the hash in corpus_hash.txt reads *)
(* a manifest that some run wrote to its end, whatever was killed since.   *)
VerifiedCorpusWasBuilt == corpus_hash = manifest => manifest \in built

(* manifest.py, "deterministic": two runs that list the same entries have  *)
(* the same manifest, and hash, in whichever order they found the papers   *)
(* and whatever lay in their directories.                                  *)
Lines(m) == {m[i] : i \in DOMAIN m}

HashIgnoresOrder == \A m, n \in built : Lines(m) = Lines(n) => m = n

(* A run over empty directories that finishes lists whole files only: a    *)
(* download or an extraction that breaks off costs the paper its line, and *)
(* does not leave its remains in it.                                       *)
FreshBuildIsWhole ==
  runs = 1 /\ outcome = "finished" =>
    \A line \in Lines(manifest) :
      line.pdf.content = "whole" /\ line.markdown.content \in Parses

(* "failed to process %s; skipping": a paper that fails costs the corpus   *)
(* no other paper of the run.                                              *)
OnlyFailuresAreMissing ==
  outcome = "finished" =>
    {manifest[i].result : i \in DOMAIN manifest} = results \ skipped

(* No step of a run is in vain, whatever fails: a paper is taken up once   *)
(* and leaves the loop for good, a stage that is over does not come back,  *)
(* and within one a page brings papers, a poll comes closer to the         *)
(* deadline, a line follows the last.                                      *)
Stage == [harvest |-> 1, submit |-> 2, poll |-> 3, extract |-> 4,   \* of the loop
          papers |-> 5, write |-> 6, idle |-> 7]

Advances ==
  \/ pc = "harvest" /\ pc' # "harvest"
  \/ todo' \subseteq todo /\ todo' # todo
  \/ todo' = todo /\ Stage[pc'] > Stage[pc]
  \/ /\ UNCHANGED <<pc, todo>>
     /\ \/ pc = "harvest" /\ results \subseteq results' /\ results' # results
        \/ pc = "poll" /\ polls' > polls
        \/ pc = "write" /\ Len(manifest') > Len(manifest)

RunAdvances == [][Proceed => Advances]_vars

(* A run comes to an end, though MinerU may never finish a task.           *)
RunsEnd == pc # "idle" ~> pc = "idle"

(* harvest_arxiv.py says submitted_at is the submission timestamp of the   *)
(* specific version: a line would name no version from after the cutoff.   *)
VersionsPrecedeCutoff ==
  \A i \in DOMAIN manifest :
    manifest[i] # Torn =>
      LET r == manifest[i].result IN Released[r.paper][r.version] < DEFAULT_CUTOFF
=============================================================================
