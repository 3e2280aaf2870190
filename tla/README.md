# A verification development of wanghong_leaderboard

TLA+ specifications of the leaderboard in this repository, checked with TLC on
small instances and, in part, proved with TLAPS for all values of the
constants. Every definition is translated from the source; `PROJECT.json`
("map") names the lines.

## 1. The system

The repository runs a "time capsule" benchmark: harnesses attempt a proof from
a corpus of papers published before a cutoff, a stack of judges scores what
they wrote, and a static site shows the scores.

| Component | State it keeps | Operations | Talks to |
| --- | --- | --- | --- |
| Corpus builder (`scripts/build_corpus.py`, `corpus/`) | `corpus/papers/`, `manifest.jsonl`, `corpus_hash.txt` | read seeds, harvest arXiv, download and parse each paper, write manifest and hash | arXiv, MinerU |
| Vault (`parse_target_paper.py`, `build_gold_graph.py`) | `judge/vault/` | parse the target paper, extract the gold graph; reviewers edit it | MinerU, a model |
| Sandbox (`runner/sandbox.py`) | a container, `/output` | run a harness under a time limit, list missing outputs | docker, the proxy |
| Proxy (`proxy/`) | audit log (append only) | check, forward and log each request | OpenRouter |
| Baselines (`baselines/`) | the five outputs | chat rounds, parse, write | the proxy |
| Judge A (`a_protocol.py`) | none | files of a submission to issues, subscores, caps | the corpus manifest |
| Judges B to E | none | one model call each, answer to result | the judge client |
| Judge client (`client.py`) | attempts of a call | three attempts, JSON extraction | OpenRouter |
| Rubric (`rubric.py`) | none | weighted score, caps, verdict | |
| Orchestrator (`orchestrator.py`, `judge_submission.py`) | `evaluation_report.json` | A, short circuit, B to E, rubric, report | all judges |
| Publication (`redact_report.py`, `leaderboard.yml`) | `submissions/` in git, the Pages queue | redact, commit, push, build, deploy | GitHub |
| Leaderboard (`leaderboard/`) | the site | load, deduplicate, group, rank, render | |

What is hard in it, and to test:

* an evaluation is one process with up to twelve model requests, any of which
  may fail, time out or return anything; it must end, and must never publish a
  verdict kinder than what the judges found;
* the verdict is read off the *wording* of the caps, the applied caps off the
  weighted score: two derivations that must agree;
* files change under their readers: the gold graph during an evaluation, the
  reports between judging, redaction and deployment, the corpus between a
  baseline's run and its evaluation;
* the harvest pages through a feed that authors' revisions move, may drop entries
  and retries pages, and whether it saw everything is visible nowhere;
* a build of the corpus takes hours, writes in place, may be killed anywhere
  and is run again over what it left, while arXiv changes;
* deployments queue up while pushes go on;
* an evaluation id has a resolution of a second and serves as a key;
* a harness, the proxy's handlers, OpenRouter and the runner each have a timeout
  of their own, and none of them tells the others: a container outlives the
  `subprocess.run` that started it, a handler the client that called it, and the
  output directory is the same for every attempt;
* the proxy is the only guard between a participant's program and the network:
  what it forwards must be within the rules for *every* body.

The properties that make each modelled part correct are listed with the runs
(section 3); `PROJECT.json` ("hazards") ties each hazard to its line and to the
properties that would catch it.

## 2. The modules

| Module | Models | Built on |
| --- | --- | --- |
| `Rubric` | `judge/rubric.py`: weights, ceilings, final score, applied caps, verdict | |
| `Judges` | what each judge concludes from files or from an answer (pure) | `Rubric` |
| `EvaluationContract` | abstract: what one evaluation promises | `Rubric` |
| `JudgeStack` | one run of `judge_submission.py` | `Judges`, refines `EvaluationContract` |
| `Baselines` | what the baselines keep of their models' JSON (pure) | `Judges` |
| `BaselineJudging` | the baselines' outputs as submissions | `JudgeStack`, `Baselines` |
| `Leaderboard` | judging over time, redaction, pushes, the Pages workflow, aggregation and the rendered page | `Rubric` |
| `Mineru` | `corpus/mineru_parse.py`: what a reply of MinerU means (pure) | |
| `CorpusBuild` | runs of `build_corpus.py` over one set of directories | `Mineru` |
| `ArxivSearch` | one harvest of `harvest_arxiv.py`, page by page | refines the first part of `CorpusBuild` |
| `Policy` | `proxy/policy.py`: what the proxy makes of a body (pure) | |
| `Proxy` | `proxy/main.py`, `audit_log.py`: the handler of a request, OpenRouter, restarts | `Policy` |
| `HarnessRun` | `runner/sandbox.py`, the baselines, the output directory, together with the proxy | `Proxy` |
| `RubricProofs`, `JudgeStackProofs`, `BaselineProofs`, `LeaderboardProofs`, `CorpusProofs`, `SearchProofs`, `HarnessProofs`, `AuditProofs` | the proofs | |
| `MCJudgeStack`, `MCLeaderboard`, `MCCorpusBuild`, `MCArxivSearch`, `MCHarnessRun` | instances for TLC | |

### Rubric and Judges

`weighted_score`, `verdict_from`, `_clamp`, `contamination_hits` and so on
keep their names. Three abstractions matter:

* *Numbers.* The code uses floats. A judge's score is modelled as a whole
  number of points, an axis in quarter points and a score in 1/400 point, so
  that the means (of two for `protocol`, of four for Judge C) and the
  percentages are exact. The code's floats could only differ within rounding
  (a weighted score a hair below a cap); that is not modelled.
* *Texts.* A cap's reason is an element of a set, and the sets `SaysContamin`,
  `SaysDisqualified`, `SaysMissing` record in which of the sentences the code
  writes the words occur that `verdict_from` looks for. "judge B recommended
  action: disqualify" contains none of them.
* *Answers.* A score in a model's JSON may be absent, no number, NaN, or out of
  range; Python's `min(100.0, nan)` is 100.0, hence full marks for a NaN. Judge
  B raises on a null score or a passage whose text is no string; Judge A raises
  on a proof graph, or an entry of the citations, that is no object, and on an
  `arxiv_id` that is no string. Those are the `...Crashes` operators.

### JudgeStack

`pc` is the judge that runs. `RunJudgeA` includes the short circuit, with the
other judges' `_inconclusive` results filled in. A call either fails in
transport (`TransportError`, at the third attempt the exception leaves the
program), returns something `chat` itself fails on (`MalformedResponse`), is
`Inconclusive` (JudgeError, no object), or is an `Answer`. `WriteReport` is the
rest of `evaluate` and `main`: rubric, hash of the gold graph as it is *then*,
metadata, report. `graded` is the version of the gold graph Judge C read, at
the moment its call begins. `EditGold` is a reviewer, free at any time.

### Baselines and BaselineJudging

A `ModelAnswer` is what `extract_object` finds in the text of a model, by the
kinds of entries its lists hold: an entry that is no object, one without a
statement or claim, one with. `KeptLemmas` and `KeptDependencies` are what the
normalisation of a graph keeps of them, `RawGraph` which answer the graph is
made from (the planner's plan, if the reviser said nothing useful), `Cites` the
sources listed: those retrieved, never those the model names. `Outputs` is the
submission Judge A then sees. `BaselineJudging` gives such submissions to
`JudgeStack`, against the corpus of their run or another: a baseline is judged
again after the corpus was rebuilt.

### Leaderboard

Time counts seconds, as evaluation ids do. `Judge` overwrites a submission's
report in `runs/`; `Publish` copies it into the `submissions/` tree under
either of the two directory names the documents use and pushes; the workflow
runs queue up as `pending` (one, the newest) and `running`. The site is stored
as the checkout it was rendered from, and `render_site` computes rows, links
and events when a property asks. `Broken` is a report the renderer raises on,
`Garbage` one that `load_reports` skips. `Record` is what `load_reports` makes of
a report; `EvaluationsOf` and `FirstOf` are the grouping and the deduplication of
`aggregate`, and its order is given by rank: the i-th history is the one with
i - 1 above it (`Above`), which needs no sorting and can be proved about.

### CorpusBuild

A run goes from `Start` (seed file, check of its cutoff) through the pages of the
harvest (`HarvestPage`, any papers that pass the filters, at the versions arXiv
serves; `HarvestEnds`) to the loop: `Download` (an existing `source.pdf` is
kept), `Submit`, `Poll` and `PollFails` (the deadline), `Extract` (overwrites),
until `OpenManifest` empties `manifest.jsonl`, `WriteLine` fills it and
`WriteHash` writes `corpus_hash.txt`. What `Submit` and `Poll` make of a reply is
`Mineru`'s: one with a list of files is as far as its files are, one that says
nothing goes on being polled, one that says done and has no address for the zip
is a failure of the paper. `Crash` may come between any two steps and may cut the
write under way short. `Revise` lets arXiv go on. A hash is modelled by what it is
the hash of. `runs`, `outcome`, `skipped` and `built` are history variables.
`Refuses` is never true in the model: the same filters are applied earlier, with
the same cutoff, which is the point of "defence in depth".

### ArxivSearch

The same run up to the end of its harvest, in full: `harvest_unique` goes through
the `Queries`, `search_arxiv` through the pages of one (`Window` is the size it
asks for, `start` and `emitted` its counters), `_fetch_arxiv_page` has its five
attempts. A feed is the set of the papers that match a query at the version arXiv
serves; their order is that of the dates, then of the ids (`Older`), and a paper's
place in the feed is how many are ahead of it (`Ahead`), so that `First` and `Slice`
cut a page out of a feed without sorting one, and can be proved about. `Revise` may
take a paper out of a feed or bring one in, between two pages. arXiv sends no more
entries than it is asked for. A
page may come without its entries, as arXiv reports errors, or with entries that do
not parse. `Page` is the whole of a page: parse, filter, yield one by one,
`setdefault` into `seen` (`Seen`, as far as there is `Room`), stop at the limit of the run, of the query, or at a
page that is short. Two history variables serve one property: `intact` says that
the feed of the current query stood still and none of its pages came short,
`due` collects what such queries have to bring. The mapping to `CorpusBuild` sees
results only; a page that brings nothing new is a stutter.

### Policy and Proxy

A body is a record of the cases `enforce_request` tells apart: no JSON, no
object, the model's name, whether a forbidden key is there and holds something,
the kinds of entries of `plugins` and `messages` (a list is the *set* of the kinds
in it). `_check_model` and so on keep their names; `Allowed` is "returns",
`Normalized` what it returns. `hash_prompt` runs before the policy and fails on
messages that are no list of objects (`CannotBeHashed`).

A handler runs alone between two awaits, so that it has two steps: `Receive`, up
to the call of OpenRouter, and `Finish`, the rest. In between other handlers
run, OpenRouter answers (`Upstream`) or does not, and the process may be
restarted (`Restart`). Statuses other than 200 are one, `"error"`: `default_chat`
treats them alike. The audit log is the set of its lines; a line names its
request, whose number is its place in the order of arrival. Any exception the
handler does not catch, one of the audit log's write included, is a reply
without a line.

### HarnessRun

`attempt`, `running` and `results` are the calls of `run_in_sandbox`;
`containers` what each of them started; `output_dir` who wrote each of the five
files last, and whether in full. `Run` covers the refusal of a floating tag, the
refusal of docker to reuse a name (`kakeya-<run_id>`, exit code 125) and the
start. `RunTimesOut` may come at any time, leaves the container running and its
name taken: a second attempt then fails until the first container is gone.

The harness alternates `Chat` with `ChatReturns` or `ChatTimesOut`;
`NextCall` says which call is next: the three of `planner_verifier`, the one of
the two simple baselines, and for `agentic_self_critique` rounds of *propose* and
*critique* until a critique says stop or `max_iterations` are up, then
*final_summary*. Then come the five writes, one step each, and the exit.
`Killed` may come anywhere, in a write as well. A participant's program posts
any of `Bodies`, once, and writes like the simplest baseline, but it may exit with
0 whenever it likes, before the first write or between two: `run_in_sandbox` passes
docker's exit code on and looks at no file.

## 3. The runs

| Run | Question | States |
| --- | --- | --- |
| `judge` | Is every verdict sound, every run finite, and the contract implemented? Do the baselines get what their code expects? | 130,504 |
| `leaderboard` | Does the page rank by the newest evaluations, what keeps contamination out of the log, can a deployment go back, and is what was pushed shown in the end? | 285,972 |
| `corpus` | Does what reaches the manifest deserve it, and what does a finished run leave? | 179,703 |
| `search` | Does the search find everything once, end, and implement the harvest? | 18,884 |
| `harness` | Is what goes upstream within the rules and on record, what is exit code 0 worth, and does everyone get an answer? | 357,509 |

`judge` (module `MCJudgeStack`), over sixteen submissions that reach every
outcome of Judge A, what eight runs of the four baselines leave, and answers that
reach every branch of the other judges:

* `RankedOnlyIfUncapped`: RANKED is said only when no judge found anything its code
  has a cap for. That is less than "nothing was found": a gap of severity fatal that
  Judge D does not flag as fatal, a flag with a lesser severity and a schema error
  have no cap, and such a submission is ranked (`judge_gap`, `judge_issues`).
* `ContaminatedOnlyOnEvidence`: CONTAMINATED is never said by accident of
  wording.
* `AppliedCapsExplain`: the listed caps explain the final score, and no
  disqualifying cap is missing, even at a weighted score of zero.
* `NoCallForDisqualified`: the short circuit saves every call.
* `BaselinesAreCapped`: the survey-only cap the baselines' docstrings expect to
  bind does bind, for each of them whose model offered no lemma.
* `BaselinesKeepTheRules`: judged against a corpus that has all they saw, the
  baselines are not disqualified by Judge A and do not crash it. (After a rebuild
  that dropped a paper they may be disqualified; the run has that case too.)
* `ImplementsContract`: refinement of `EvaluationContract`.
* `Terminates`: with a report or with a failure.

`leaderboard`: two harnesses (one whose reports carry no name, one with two
versions), two seconds, two evaluations, any number of pushes these allow and a
tree that may hold a broken and a useless file.

* `IndexIsFair`: one row per harness and version, its newest evaluation, and
  nobody disqualified above anybody with a positive score.
* `ContaminationStaysVisible`: a contaminated or disqualified evaluation stays in
  the log when a better one follows; it is there itself, or a copy of it published
  in another directory is. One exception, named `DroppedForAnother`: `load_reports`
  takes two judgements of a harness in the same second for one evaluation and drops
  one, whatever it says. `leaderboard_history` shows a contamination disappear so.
* `UnloggedForTwoReasonsOnly`: over *all* reports of the checkout, before they are
  deduplicated, a cap that disqualifies is missing in the log for two reasons only,
  the verdict FAILED and that same exception.
* `RowsSplitByDirectoryOnly`, `LinksStrayWithinASecondOnly`: "one row per harness"
  and "a name leads to its own page" fail for one reason each: a report without a
  name in a directory of another time, and two harnesses or versions evaluated in
  one second.
* `NeverGoesBack`: a deployment never shows an older commit, nor an older
  evaluation at a path, nor, unless the report a row showed was itself written
  over, an older evaluation in that row. The exception is real: a publication's
  directory is named after a second, that of the evaluation or that of the
  redaction, so that two publications of a harness may meet in one directory. If
  the second has another version in its manifest, the row of the first falls back
  to an earlier evaluation or vanishes, although `docs/EVAL_VERSIONING.md:34-35` and
  `docs/PUBLIC_RULES.md:82-83` promise that evaluations are never overwritten. A
  report that is written over is out of the tree, and out of reach of the two
  properties about the log.
* `EventuallyShown`: every push is shown, by its run or a later one, unless such
  a run failed.

`corpus`: four papers (one revised after the cutoff, one on the blocklist, one
too late for the benchmark), three cutoffs of seed files, two limits, two parses,
nine kinds of MinerU replies, two runs.

* `OnlyPreCutoffPapers`: whatever the seed files say.
* `LinesNameTheirFiles`: files reused from earlier runs are of the version the
  line names.
* `CorpusAgrees`: after a finished run hash, manifest and files agree.
* `VerifiedCorpusWasBuilt`: a manifest that has the hash beside it was written
  by a run to its end, whatever was killed since.
* `HashIgnoresOrder`: two finished runs that list the same entries have the same
  hash, in whatever order they found the papers.
* `FreshBuildIsWhole`: a first run that finishes lists whole files only. A later
  one may not: it takes a `source.pdf` that a kill cut short as it is.
* `OnlyFailuresAreMissing`: a paper that fails costs the corpus no other.
* `RunAdvances`: no step of a run is in vain; a paper is taken up once, whatever
  becomes of it, and no stage comes back.
* `RunsEnd`: though a MinerU task may never finish.

`search`: six papers, two queries, pages of two, every limit from none to plenty.

* `SearchIsComplete`: filters and retries leave no gap between two pages. It is
  promised only to a query whose feed stood still and lost no entry, and TLC shows
  it false otherwise: a page with an entry that does not parse ends the query.
* `OneVersionEach`: a paper is harvested once, though two queries match it and it
  was revised in between.
* `ImplementsHarvest`: refinement of `CorpusBuild!Spec`.
* `SearchAdvances`: every step of the pager gets ahead (a further attempt, page,
  query or the end), also over a page of which the filters drop everything.
* `SearchEnds`: though arXiv may fail on any page.

`harness`: two attempts at one of the five programs over one output directory.

* `UpstreamIsCapsuleAndAudited`: whatever was posted, and whatever else fails.
* `LogTellsTheStory`: refused or asked, never both, no answer that was not asked
  for; whoever got a completion is on record with it, restarts included.
* `SuccessIsWhole`: when a run has returned 0, whatever the program, no container
  that outlived an earlier timeout is left to write into the directory; the
  container's name is what makes this true. If the program is a baseline, its five
  files are there and whole, and only a later run's replace them. Of a participant's
  image exit code 0 says nothing: the model lets it exit with none or some of its
  files, or beside those of an earlier attempt.
* `TraceMatchesAudit`: a `trace.jsonl` names as many calls as the audit log has
  completions for the run.
* `HandlersEnd`, `RunsReturn`: by the timeouts of the handler and of the runner.

Seven runs show where a document or comment of the repository and the code
disagree (`PROJECT.json`, "findings", quotes them):

| Run | The claim | What happens |
| --- | --- | --- |
| `judge_issues` | a submission with disqualifying issues cannot be ranked | schema errors attach no cap: RANKED |
| `judge_gap` | Judge D's severity fatal maps to the cap 70 | only if `fatal_gap_found` is set too: RANKED without a cap |
| `judge_gold` | the report records the gold graph of its score | the file is hashed after it was used |
| `leaderboard_links` | a name leads to its evaluation | links are keyed by evaluation id alone |
| `leaderboard_history` | every contamination is logged, current or historical | a judgement of the same second takes its place |
| `corpus_versions` | `submitted_at` is the date of that version | it is the date of version 1 |
| `harness_outputs` | the five outputs are written atomically | a kill between two writes leaves some |

Reading the code showed more that no run of its own states, some of it since it is
about text or about code that is not there. Two claims of the page are false in
ways that a passing run delimits: "One row per harness" (`render.py:179`; a report
without a name, as every baseline's, in a directory named after the time of its
redaction, as `docs/PRODUCTION.md:227` does it, is a row of its own: see
`RowsSplitByDirectoryOnly`) and "Every evaluation that triggered a ...
disqualification cap" (`render.py:183-184`; one with the verdict FAILED, for missing
outputs, is not listed: see `UnloggedForTwoReasonsOnly`). `sandbox.py`'s head says
`run_in_sandbox` composes the checks above it, which it does not call
(`validate_harness_manifest_safety`, `validate_outputs`), so that a run returns exit
code 0 without outputs if the image does (as in `tests/test_sandbox.py:109-126`);
`planner_verifier.py:12-16` says that `new_lemmas` is empty if the reviser's JSON does
not parse, while the code falls back to the planner's; the agentic baseline's docstring speaks of a token budget,
there is none; `main.py`'s head says that all requests and responses are
appended to the log, while a call that fails, or whose answer is not JSON, has no
response line, and a request that cannot be hashed has none at all; `default_chat` sends no `X-Run-Id`, so that the log says `unbound` for every
baseline (the model tells runs apart by `requests[r].run`, which stands for the
order of the log).

### Bounds, and why they are enough

* `MaxGoldEdits` = 1: the properties compare two versions.
* `MaxAttempts` = 3 is the code's.
* `MaxClock` = 1, `MaxEvaluations` = 2: two
  evaluations, in one second or in two, suffice for an overtaking, a duplicate
  id, an overwritten report and a history of two. Scores are only compared, so
  that two positive values and zero are enough. A row that falls back needs three
  evaluations, two in the history and one that writes over the second; the safety
  properties were checked once at three without stray files (1,370,171 states), and
  are proved for any number.
* `EventuallyShown` speaks of the first three commits; the instance makes more,
  but each new commit plays the same part.
* `MaxRuns` = 2: what a run leaves matters to the next one only through the
  directories. `MaxTotals` = {0, 2}: two papers make an order, a failure beside a
  success and a torn manifest; a limit of 0 still harvests one, the limit being
  compared after the insertion. `MaxPolls` = 1: a task that is not ready once, and
  one that is never.
* `page_size` = 2 with feeds of up to eight entries makes four pages, the last
  one short, full or empty; `MaxResults` = {0, 1, 3, 9} is none, less than a page,
  not a multiple of one, and more than there is; `MaxTotals` = {0, 3, 9} stops the
  run within a page, between two, or never.
* `max_iterations` = 2: a loop that stops early, one that stops at its bound.
  `MaxAttempts` = 2: a container of an earlier attempt and a later one. `MCBodies`
  differ from an accepted body in at most one field; `CapsuleTheorem` is for all.

Each property of the passing runs has a mutant (`PROJECT.json`, "mutants"): an
operator marked "A plausible bug" beside the definition it alters. With it the
property fails.

### Fairness

* `JudgeStack`: weak fairness of the program's steps together: every request
  has a timeout. Nothing is assumed of the reviewers.
* `Leaderboard`: weak fairness of `StartRun` and of the end of a running
  workflow (ten minutes' timeout in `leaderboard.yml`). Nothing is assumed of
  the operators; a run may always fail, and then `EventuallyShown` promises
  nothing until another push.
* `CorpusBuild`: weak fairness of the run's steps; MinerU may answer "running"
  for ever.
* `ArxivSearch`: weak fairness of the harvest's steps together: a request to arXiv
  has a timeout, and a failure is an outcome as good as a page. Nothing is assumed
  of the authors, nor that arXiv ever answers.
* `HarnessRun`: weak fairness of the handlers of a run (`httpx` has a timeout, and
  a handler that was called runs) and of the end of `run_in_sandbox`
  (`max_wall_time_seconds`). Nothing is assumed of OpenRouter or of the harness,
  which may hang.

`CHECK_DEADLOCK FALSE` in all: an evaluation ends, and the bounded worlds run
out of events.

## 4. The proofs

`RubricProofs` and the first part of `JudgeStackProofs` (pure): a clamped score is in range, the
weighted score of six such is between 0 and 100 points (the percentages add up to
100), the final score is the lowest of score and caps, RANKED means no caps and a
positive score; every judge's result has its type for every answer; the carve-out
for the public statement of the conjecture leaves no cap (`ConjectureCarveOut`).

`JudgeStackProofs`, for every set of submissions and of answers and any number
of edits of the gold graph, from `JudgesAssumption` and `StackAssumption` (the
constants have the shapes of `Judges`; `None` is no report):

* `NoCallTheorem`, from its own small invariant `ShortCircuited`: a
  disqualified submission never enters a call;
* `TypeTheorem`, `RankedTheorem`, `AppliedCapsTheorem`, `ContaminatedTheorem`,
  all from one inductive invariant
  `Inv == TypeOK /\ AttemptsLeft /\ Sequenced /\ ReportIsComputed`.
  `TypeOK` alone is not inductive: the range of `report` follows from the
  results being *there* when the rubric is applied and being *conclusions* of
  the judges (`Sequenced`), the range of `attempt` from no attempt being left
  when the call gives up (`AttemptsLeft`). `ReportIsComputed` ties the report to
  the results for good, although the gold graph may change after it;
* `AheadTheorem`: every step goes on to a further judge or a further attempt, so
  that an evaluation pays for twelve calls at most;
* `GoldTheorem`, the one reason for the finding of `judge_gold`: a gold graph that
  was not edited since Judge C read it is the one the report records;
* `ContractTheorem`: `Spec => ImplementsContract`, by the refinement mapping of
  `JudgeStack`; each step publishes a sound score, gives up, or stutters;
* `CapsTheorem`: the weighted score and the caps an evaluation ends with are what
  `Leaderboard` assumes of its constant `Outcomes`: caps with a grave reason are
  zero (`GraveCapsAreZero`). It joins the two halves of the development.

`BaselineProofs`, for any set of runs and every answer of the baselines' and the
judges' models: `SurveyTheorem` and `RulesTheorem`, the two properties about
baselines, from `Inv` and what `Outputs` keeps.

`LeaderboardProofs`, for any finite set of submissions, any outcomes and number of
evaluations and pushes, from `LeaderboardAssumption`, `GraveCapsAreZero` (see
`CapsTheorem`) and `MarksAreNoReports` (`None`, `Garbage` and `Broken` are not
reports): `TypeTheorem`, `FairTheorem`, `VisibleTheorem`, `SplitTheorem`,
`StrayTheorem`, `UnloggedTheorem`, `ForwardTheorem`, from
`Inv == Types /\ Reports /\ Queue`. `UnloggedTheorem` needs of every report there is
that a cap of zero comes with a verdict that says "out" (`Sound`), which is a fact
about the rubric that wrote it and travels with the file through `runs/`, the tree
and the queue. It and `VisibleTheorem` speak of all reports of a checkout: what
`load_reports` does not drop for another judgement it loads, itself or a copy
(`CopyIsLoaded`), and a copy has the same verdict and caps. The exception is part of
both statements, and is not excused by any assumption. `Queue` is what makes `NeverGoesBack` hold:
the site, a running and a waiting workflow run and the tree are each no newer than
the next, path by path. `Reports` says that no report is of the future, so that
judging again never turns a path back. That `aggregate` has a row for every history
needs no induction: histories above one another have different ranks
(`MoreAbove`), and as many ranks as places fill them (`EveryPlaceIsTaken`).

`CorpusProofs`, for any finite set of papers, any seed files, replies, kills and
number of runs, from `MarksAreNoData` (`Torn` and `None` are not data): nine
theorems, one for each invariant of the `corpus` run and one for `RunAdvances`. The invariant has the parts
`Types`, `Cutoffs` (no run goes on with a later cutoff than the benchmark's, and what it
writes passed the filters), `Places` (what
is being processed), `FilesKept` (every file in a directory is of that
directory's version, after any number of killed runs), `Writing` (the manifest on
disk is the part of the canonical one written so far), `GoodLines`, `Finished` and
`FirstRun`. `OrderTheorem` (the canonical order has one sequence for a set of
entries) takes a least place at which two such sequences differ.

`SearchProofs`, for any papers with any revisions, any queries, limits and page
size, and pages that fail or come short at will, from `SearchAssumption` (papers are
numbers and finitely many, each with a first version; a page is of at least one
entry): `TypeTheorem`, `OneVersionTheorem`, `CompletenessTheorem`, `AdvancesTheorem`
and the refinement `HarvestTheorem`, from
`Inv == Types /\ Phase /\ Progress /\ OneVersionEach /\ SearchIsComplete`.
`SearchIsComplete` alone is not inductive, since it speaks of queries that are
over; `Progress` says where the current one is: as long as its feed stood still and
its pages were whole, what it wants of the first `start` papers (`Behind`) is
harvested, and `emitted` is how many these are. `Phase` says that a search that
goes on has room for another paper, and an attempt left.

The argument is about places in a feed. No two papers share a place and none is
left free (`PlacesDiffer`, `PlacesAreTaken`), so that a window of a feed has as many
papers as it is long, or the feed ends in it (`SliceSize`); so a full page goes on
where the next begins (`NextPage`, `FullPage`) and a short one is the last
(`NoGap`, `QueryIsThrough`). `AdvancesTheorem` is the safety half of `SearchEnds`: with
the bounds of `TypeTheorem` the counters cannot rise for ever. `HarvestTheorem` maps
each page to `CorpusBuild!HarvestPage` or, if it brought nothing new, to a stutter,
so that what `CorpusProofs` says of a harvest is true of the pager.

`HarnessProofs`, for any number of attempts and iterations and any set of bodies,
from `HarnessAssumption` (attempts are numbered from 1, `None` is no file's
content):

* `CapsuleTheorem` and `StoryTheorem`, from `ProxyInv`: a request that waits for its
  handler has no line in the log, one that is upstream has exactly its own, one
  that is finished one of the stories. The properties alone are not inductive, since
  `Receive` and `Finish` add a line to those that are there. The lemmas
  `EnforceRequest` (an allowed body, normalized, is within the rules) and
  `OneRequest` (a step about one request leaves the others alone) carry the proof;
* `SuccessTheorem`, from `RunInv == RunType /\ OneAlive /\ Progress`: at most one
  container lives, and while it does no later one has started (`OneAlive`, which
  is what the name gives); a living container's first `written` files are its own,
  and one of a baseline that exited with 0 has all five, or later ones (`Progress`). That
  no earlier container is alive when a run has returned 0 follows from `OneAlive`
  for every program.

`AuditProofs`, on top of it: `TraceTheorem`, from a count of the completions each
attempt's audit lines add up to (`Tally`: the trace a living container keeps is as long
as the log has completions for it, not counting the call it waits for),
and `HarnessTypeTheorem`, which bounds the rounds of the agentic loop.

TLC has checked the inductive invariants on the instances as well.

Every invariant, every action property and both refinements that the passing runs
check are proved. Only model-checked: liveness (`Terminates`, `EventuallyShown`,
`RunsEnd`, `SearchEnds`, `HandlersEnd`, `RunsReturn`), which needs fairness and
ENABLED, beyond what the prover handles, and the seven disagreements. Half of liveness is
proved for `Terminates`, `RunsEnd` and `SearchEnds`: `AheadTheorem` and the two
`AdvancesTheorem`s say that no step leads back, and the type theorems bound what
rises. No module uses recursive operators.

## 5. What is not modelled

* prompts, regular expressions, schemas, HTML, redacted fields: inputs or
  wording;
* floats' rounding;
* the local build into a directory (only the workflow's, which is uploaded when
  finished);
* `verify_judge_key.py` and `canary_gemma.py`, which print diagnoses; the
  command line;
* docker's resource limits (a kill stands for what they do), retrieval and the
  normalisation of the proof graph in the baselines, token counts;
* the vault scripts. Each runs once, by hand, and calls what is modelled elsewhere
  (`parse_pdf_url`, `JudgeClient.chat`); `JudgeStack` takes `gold_graph.json` as a
  file that others write. The extractor writes it in place and `gold_graph_meta.json`
  after it, so that a kill in between leaves the two apart, but no code reads the
  second, and Judge C passes on whatever text the first holds;
* the header `X-Run-Id`, which the baselines do not send: the model tells runs apart
  by a field of its own.

## 6. Plan

Done, in this order: `Rubric`, `Judges`, `JudgeStack` with `EvaluationContract`;
`Leaderboard`; `CorpusBuild`; `Policy`, `Proxy`, `HarnessRun`; `Mineru` and
`ArxivSearch`; `Baselines` and `BaselineJudging`; and the proofs of every safety
property the runs check. What would add most next:

1. `Submission`: `HarnessRun`'s output directory judged while a container still
   writes. Judges A to E each read the files anew; abstract specification: an
   evaluation of one snapshot.
2. The vault as the writer of the gold graph `JudgeStack` reads, an extraction that
   is cut short and one that overwrites a reviewer's edits included.
