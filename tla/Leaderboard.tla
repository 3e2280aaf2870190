---------------------------- MODULE Leaderboard -----------------------------
(***************************************************************************)
(* From an evaluation report to the public page.  An operator judges a     *)
(* submission (the report lands in runs/, where the next one overwrites    *)
(* it), redacts the report into the repository's submissions/ tree and     *)
(* pushes; the Leaderboard workflow then checks the commit out, loads and  *)
(* aggregates every report (leaderboard/aggregate.py), renders the site    *)
(* (leaderboard/render.py) and deploys it.                                 *)
(*                                                                         *)
(* Time is counted in seconds, the resolution of an evaluation_id.         *)
(***************************************************************************)
EXTENDS Rubric, FiniteSets

CONSTANTS
  Submissions,     \* harnesses, numbered in the order of their names
  NoName,          \* a report that carries no harness_name
  Manifests,       \* per submission, the names and versions it may report
  Outcomes,        \* weighted scores with the caps of the judges
  Garbage, Broken, \* files that are no reports, see below
  Strays,          \* what the tree holds at first
  None,
  MaxClock, MaxEvaluations    \* bounds

(* A directory under submissions/<harness>/ is named after an evaluation   *)
(* id; Flat is a report directly in the harness's directory, which sorts   *)
(* after them.                                                             *)
Times == 0 .. MaxClock
Flat  == MaxClock + 1
Paths == [top : Submissions, dir : Times \cup {Flat}]

(* Names of harnesses; a directory eval-<t> can come to be one as well.    *)
(* Such names are in the order of the times, and below those of harnesses. *)
DirName(t) == t - MaxClock - 1
Names == Submissions \cup {DirName(t) : t \in Times}

ASSUME LeaderboardAssumption ==
  /\ Submissions \subseteq Nat /\ IsFiniteSet(Submissions)
  /\ MaxClock \in Nat /\ MaxEvaluations \in Nat
  /\ NoName \notin Int
  /\ Manifests \in [Submissions ->
                      SUBSET [name : Submissions \cup {NoName}, version : Nat]]
  /\ Outcomes \subseteq [weighted : 0 .. FullScore, caps : SUBSET Cap]
  /\ \A files \in Strays : /\ DOMAIN files \subseteq Paths
                           /\ \A p \in DOMAIN files : files[p] \in {Garbage, Broken}

(* The judges' caps for evidence of cheating, and for missing outputs, are *)
(* zero (JudgeStackProofs.CapsTheorem).                                    *)
SaysGrave == SaysDisqualified \cup SaysContamin \cup SaysMissing

ASSUME GraveCapsAreZero ==
  \A o \in Outcomes : \A k \in o.caps : k.reason \in SaysGrave => k.cap = DQ_VALUE

(* An evaluation_report.json. *)
Report ==
  [name : Submissions \cup {NoName}, version : Nat, id : Times,
   weighted : 0 .. FullScore, final : 0 .. FullScore, applied : SUBSET Cap,
   verdict : Verdicts]

ASSUME MarksAreNoReports == {None, Garbage, Broken} \cap Report = {}

VARIABLES
  clock,
  evaluations,   \* evaluations made
  runs,          \* per submission, runs/<submission>/evaluation_report.json
  tree,          \* the submissions/ tree of the main branch: path -> file
  commit,        \* its commit number
  pending,       \* the workflow run that waits for the group "pages"
  running,       \* the workflow runs under way
  failed,        \* the last commit whose run failed
  site           \* the checkout that the deployed site was rendered from

vars == <<clock, evaluations, runs, tree, commit, pending, running, failed, site>>

-----------------------------------------------------------------------------
(* aggregate.py: EvaluationRecord, a report and its path.                  *)

Record(p, report) ==
  [path |-> p, name |-> report.name, version |-> report.version, id |-> report.id,
   weighted |-> report.weighted, final |-> report.final,
   applied |-> report.applied, verdict |-> report.verdict]

(* A plausible bug: the directory counts for every layout. *)
NameOfDirectory(r) ==
  IF r.name # NoName THEN r.name ELSE DirName(r.path.dir)

(* The name in the report; else the directory's, which is the harness's    *)
(* only in a flat layout or when the directory bears the evaluation's id.  *)
harness_name(r) ==
  IF r.name # NoName THEN r.name
  ELSE IF r.path.dir \in {r.id, Flat} THEN r.path.top
  ELSE DirName(r.path.dir)

harness_key(r) == <<harness_name(r), r.version>>

(* the reasons in which "contamin", "leak" or "disqual" occurs *)
SaysLeakOrDQ == SaysDisqualified \cup SaysContamin \cup {"b_disqualify"}

is_contaminated(r) ==
  \/ r.verdict \in {"CONTAMINATED", "DISQUALIFIED"}
  \/ Mentions(r.applied, SaysLeakOrDQ)

(* Garbage is no JSON object: skipped.  Broken is one that the renderer    *)
(* fails on (a subscore that is not a number).                             *)
Fails(files) == \E p \in DOMAIN files : files[p] = Broken

Records(files) ==
  {Record(p, files[p]) : p \in {q \in DOMAIN files : files[q] \notin {Garbage, Broken}}}

(* What load_reports takes for one evaluation: it does not look further    *)
(* into the reports, so that two judgements of one second can pass for one.*)
SameEvaluation(s, r) == harness_key(s) = harness_key(r) /\ s.id = r.id

SortsBefore(p, q) == p.top < q.top \/ (p.top = q.top /\ p.dir < q.dir)

(* A plausible bug: evaluations are told apart by their ids alone. *)
LoadOnePerId(files) ==
  LET all == Records(files)
  IN  {r \in all : ~ \E s \in all : s.id = r.id /\ SortsBefore(s.path, r.path)}

(* Of the records of one evaluation, the one whose path sorts first. *)
load_reports(files) ==
  LET all == Records(files)
  IN  {r \in all : ~ \E s \in all : SameEvaluation(s, r) /\ SortsBefore(s.path, r.path)}

(* HarnessHistory.latest: evaluations are sorted newest first *)
LatestOf(records, key) ==
  CHOOSE r \in records : /\ harness_key(r) = key
                         /\ \A s \in records : harness_key(s) = key => s.id <= r.id

(* A plausible bug: the order of the weighted scores. *)
RanksAboveByWeighted(g, h) ==
  \/ g.latest.weighted > h.latest.weighted
  \/ g.latest.weighted = h.latest.weighted /\ g.key[1] > h.key[1]
  \/ /\ g.latest.weighted = h.latest.weighted /\ g.key[1] = h.key[1]
     /\ SortsBefore(g.first, h.first)

(* The order of the histories: latest final score, then name, descending;  *)
(* of two versions of a harness, the one met first in path order.          *)
RanksAbove(g, h) ==
  \/ g.latest.final > h.latest.final
  \/ g.latest.final = h.latest.final /\ g.key[1] > h.key[1]
  \/ /\ g.latest.final = h.latest.final /\ g.key[1] = h.key[1]
     /\ SortsBefore(g.first, h.first)

(* HarnessHistory *)
EvaluationsOf(records, key) == {r \in records : harness_key(r) = key}

FirstOf(records, key) ==
  CHOOSE p \in {r.path : r \in EvaluationsOf(records, key)} :
    \A r \in EvaluationsOf(records, key) : ~ SortsBefore(r.path, p)

History(records, key) ==
  [key         |-> key,
   evaluations |-> EvaluationsOf(records, key),
   latest      |-> LatestOf(records, key),
   first       |-> FirstOf(records, key)]

Histories(records) == {History(records, harness_key(r)) : r \in records}

(* aggregate: the histories in display order, the i-th below i - 1 others  *)
Above(histories, h) == {g \in histories : RanksAbove(g, h)}

aggregate(records) ==
  LET histories == Histories(records)
  IN  [i \in 1 .. Cardinality(histories) |->
         CHOOSE h \in histories : Cardinality(Above(histories, h)) = i - 1]

(* A plausible bug: only the evaluations that are shown are looked at.     *)
EventsOfLatest(histories) ==
  {histories[i].latest : i \in {j \in DOMAIN histories : is_contaminated(histories[j].latest)}}

contamination_events(histories) ==
  {r \in UNION {histories[i].evaluations : i \in DOMAIN histories} : is_contaminated(r)}

-----------------------------------------------------------------------------
(* render.py *)

Slug(history, id) == <<history.key[1], id>>

(* A plausible bug: every link bears the first harness's name. *)
DetailPageOfFirst(histories, id) == Slug(histories[1], id)

(* Pages are found by evaluation id alone: of two evaluations with one id, *)
(* the link leads to the one rendered last.                                *)
DetailPage(histories, id) ==
  LET withId == {i \in DOMAIN histories :
                   \E r \in histories[i].evaluations : r.id = id}
  IN  Slug(histories[CHOOSE i \in withId : \A j \in withId : j <= i], id)

render_site(files) ==
  LET histories == aggregate(load_reports(files))
  IN  [index  |-> [i \in DOMAIN histories |->
                     [key    |-> histories[i].key,
                      latest |-> histories[i].latest,
                      runs   |-> Cardinality(histories[i].evaluations),
                      href   |-> DetailPage(histories, histories[i].latest.id)]],
       events |-> contamination_events(histories)]

-----------------------------------------------------------------------------
NoSite == [commit |-> 0, files |-> <<>>]

Init ==
  /\ clock = 0
  /\ evaluations = 0
  /\ runs = [s \in Submissions |-> None]
  /\ tree \in Strays
  /\ commit = 0
  /\ pending = None
  /\ running = {}
  /\ failed = 0
  /\ site = NoSite

Tick ==
  /\ clock < MaxClock
  /\ clock' = clock + 1
  /\ UNCHANGED <<evaluations, runs, tree, commit, pending, running, failed, site>>

(* scripts/judge_submission.py, seen from here: the report of this second. *)
Judge(s) ==
  /\ evaluations < MaxEvaluations
  /\ evaluations' = evaluations + 1
  /\ \E m \in Manifests[s], o \in Outcomes :
       runs' = [runs EXCEPT ![s] =
         LET final == FinalScore(o.weighted, o.caps)
         IN  [name |-> m.name, version |-> m.version, id |-> clock,
              weighted |-> o.weighted, final |-> final,
              applied |-> BindingCaps(o.weighted, o.caps),
              verdict |-> verdict_from(final, o.caps)]]
  /\ UNCHANGED <<clock, tree, commit, pending, running, failed, site>>

(* A plausible bug: a push while a run is under way starts no other.       *)
PushIfIdle(files) ==
  /\ tree' = files
  /\ commit' = commit + 1
  /\ pending' = IF running = {} THEN [commit |-> commit', files |-> files] ELSE pending
  /\ UNCHANGED <<clock, evaluations, runs, running, failed, site>>

(* A push to main.  Of the runs that wait for the group only the newest is *)
(* kept.                                                                   *)
Push(files) ==
  /\ tree' = files
  /\ commit' = commit + 1
  /\ pending' = [commit |-> commit', files |-> files]
  /\ UNCHANGED <<clock, evaluations, runs, running, failed, site>>

(* scripts/redact_report.py, add, commit and push.  The directory is named *)
(* after the evaluation, as submissions/README.md has it, or after the     *)
(* time of redaction, as the loop in docs/PRODUCTION.md does.              *)
Publish(s) ==
  /\ runs[s] # None
  /\ \E dir \in {runs[s].id, clock} :
       LET path == [top |-> s, dir |-> dir]
       IN  /\ ~ (path \in DOMAIN tree /\ tree[path] = runs[s])
           /\ Push([q \in DOMAIN tree \cup {path} |->
                     IF q = path THEN runs[s] ELSE tree[q]])

RemoveStray ==
  \E p \in DOMAIN tree :
    /\ tree[p] \in {Garbage, Broken}
    /\ Push([q \in DOMAIN tree \ {p} |-> tree[q]])

(* workflow_dispatch *)
Dispatch ==
  /\ pending = None /\ commit > 0
  /\ pending' = [commit |-> commit, files |-> tree]
  /\ UNCHANGED <<clock, evaluations, runs, tree, commit, running, failed, site>>

(* A plausible bug: no concurrency group. *)
StartAnyRun ==
  /\ pending # None
  /\ running' = running \cup {pending}
  /\ pending' = None
  /\ UNCHANGED <<clock, evaluations, runs, tree, commit, failed, site>>

(* concurrency: group: pages, cancel-in-progress: false *)
StartRun ==
  /\ pending # None
  /\ running = {}
  /\ running' = {pending}
  /\ pending' = None
  /\ UNCHANGED <<clock, evaluations, runs, tree, commit, failed, site>>

Deploy ==
  \E run \in running :
    /\ ~ Fails(run.files)
    /\ site' = run
    /\ running' = running \ {run}
    /\ UNCHANGED <<clock, evaluations, runs, tree, commit, pending, failed>>

(* On a broken report, or because the runner gives up. *)
RunFails ==
  \E run \in running :
    /\ failed' = run.commit
    /\ running' = running \ {run}
    /\ UNCHANGED <<clock, evaluations, runs, tree, commit, pending, site>>

Workflow == StartRun \/ Deploy \/ RunFails

Next ==
  \/ Tick
  \/ \E s \in Submissions : Judge(s)
  \/ \E s \in Submissions : Publish(s)
  \/ RemoveStray
  \/ Dispatch
  \/ Workflow

Spec == Init /\ [][Next]_vars

(* The service starts a waiting run and ends one that runs (its timeout is *)
(* 10 minutes).  No operator need do anything.                             *)
FairSpec == Spec /\ WF_vars(StartRun) /\ WF_vars(Deploy \/ RunFails)

-----------------------------------------------------------------------------
(* Properties *)

IsTree(files) ==
  /\ DOMAIN files \subseteq Paths
  /\ \A p \in DOMAIN files : files[p] \in Report \cup {Garbage, Broken}

IsRun(run) == run.commit \in 0 .. commit /\ IsTree(run.files)

(* Every variable keeps its type; a site is never that of a later commit   *)
(* than there is, and its links lead to pages that were written.           *)
TypeOK ==
  /\ clock \in Times
  /\ evaluations \in 0 .. MaxEvaluations
  /\ \A s \in Submissions : runs[s] \in Report \cup {None}
  /\ IsTree(tree)
  /\ commit \in Nat
  /\ pending = None \/ IsRun(pending)
  /\ \A run \in running : IsRun(run)
  /\ failed \in 0 .. commit
  /\ IsRun(site)
  /\ LET rows == render_site(site.files).index
     IN  \A i \in DOMAIN rows : \E r \in load_reports(site.files) :
           rows[i].href = <<harness_name(r), r.id>>

(* The index ranks harnesses by what their newest evaluation deserves:     *)
(* each harness and version of the checkout has exactly one row, which     *)
(* shows its newest evaluation, and no disqualified, contaminated or       *)
(* failed evaluation stands above one with a positive score                *)
(* (aggregate.py:142-162 on the scores of rubric.py:73-103).               *)
IndexIsFair ==
  LET rows == render_site(site.files).index
      records == Records(site.files)
  IN  /\ \A r \in records :
           Cardinality({i \in DOMAIN rows : rows[i].key = harness_key(r)}) = 1
      /\ \A i \in DOMAIN rows : \A r \in records :
           harness_key(r) = rows[i].key => r.id <= rows[i].latest.id
      /\ \A i, j \in DOMAIN rows :
           i < j /\ rows[i].latest.verdict \in {"DISQUALIFIED", "CONTAMINATED", "FAILED"}
             => rows[j].latest.final = 0

(* The same report at another path. *)
IsCopyOf(v, r) == v = [r EXCEPT !.path = v.path]

(* load_reports drops r, and not for a copy of it: another judgement, of   *)
(* the same second and with the same name and version, stands before it.   *)
DroppedForAnother(r, records) ==
  \E v \in records : SameEvaluation(v, r) /\ SortsBefore(v.path, r.path) /\ ~ IsCopyOf(v, r)

(* Contamination does not go away with a better evaluation: every report   *)
(* of the checkout with a cap for leaked or outside sources, or a verdict  *)
(* that says so, is itself in the anti-cheat log, under its own path or    *)
(* that of a copy, whether or not it is its harness's latest               *)
(* (aggregate.py:165-187).  One exception: the deduplication of            *)
(* aggregate.py:134-136 may drop it for another judgement of its second,   *)
(* which ContaminationIsLogged below shows to happen.                      *)
ContaminationStaysVisible ==
  LET records == Records(site.files)
      events  == render_site(site.files).events
  IN  \A r \in records :
        /\ \/ r.verdict \in {"CONTAMINATED", "DISQUALIFIED"}
           \/ Mentions(r.applied, SaysDisqualified \cup SaysContamin)
        /\ ~ DroppedForAnother(r, records)
        => \E v \in events : IsCopyOf(v, r)

(* A harness falls apart into several rows for one reason only: reports    *)
(* without a name in directories not named after their evaluations         *)
(* (aggregate.py:39-46).                                                   *)
ProperlyNamed(r) == r.name # NoName \/ r.path.dir \in {r.id, Flat}

RowsSplitByDirectoryOnly ==
  LET rows == render_site(site.files).index
  IN  \A i, j \in DOMAIN rows :
        /\ rows[i].latest.path.top = rows[j].latest.path.top
        /\ rows[i].latest.name = rows[j].latest.name
        /\ rows[i].latest.version = rows[j].latest.version
        /\ ProperlyNamed(rows[i].latest) /\ ProperlyNamed(rows[j].latest)
        => i = j

(* A row's link leads astray for one reason only: another harness, or      *)
(* another version, was evaluated in the second of its newest evaluation   *)
(* (render.py:61-65).                                                      *)
LinksStrayWithinASecondOnly ==
  LET rows == render_site(site.files).index
  IN  \A i \in DOMAIN rows :
        (\A r \in load_reports(site.files) :
           r.id = rows[i].latest.id => harness_key(r) = rows[i].key)
        => rows[i].href = <<rows[i].key[1], rows[i].latest.id>>

(* A report of the checkout with a disqualifying cap is missing in the     *)
(* anti-cheat log for two reasons only: its verdict is FAILED              *)
(* (aggregate.py:93-101), or it was dropped for another judgement of its   *)
(* second (aggregate.py:134-136).                                          *)
UnloggedForTwoReasonsOnly ==
  LET records == Records(site.files)
      events  == render_site(site.files).events
  IN  \A r \in records :
        (\E k \in r.applied : k.cap = DQ_VALUE) /\ ~ (\E v \in events : IsCopyOf(v, r))
          => r.verdict = "FAILED" \/ DroppedForAnother(r, records)

(* From one deployment to the next. *)
GoesForward ==
  LET IsReport(file) == file \notin {Garbage, Broken}
      old == render_site(site.files).index
      new == render_site(site'.files).index
  IN  /\ site'.commit >= site.commit
      /\ \A p \in DOMAIN site.files \cap DOMAIN site'.files :
           IsReport(site.files[p]) =>
             IsReport(site'.files[p]) /\ site.files[p].id <= site'.files[p].id
      /\ \A i \in DOMAIN old :
           old[i].latest \in Records(site'.files) =>
             \E j \in DOMAIN new : /\ new[j].key = old[i].key
                                   /\ old[i].latest.id <= new[j].latest.id

(* A deployment never takes the leaderboard back: neither to an earlier    *)
(* commit (leaderboard.yml:25-27), nor a path to an earlier evaluation     *)
(* (redact_report.py writes over the report that is there), nor the row of *)
(* a harness and version (aggregate.py:142-162), which keeps the           *)
(* evaluation it showed or a later one unless that very report was written *)
(* over.                                                                   *)
NeverGoesBack == [][GoesForward]_site

(* Whatever was pushed is shown in the end, by its own run or by a later   *)
(* one that took its place in the queue, unless such a run failed.         *)
EventuallyShown ==
  \A n \in 1 .. 3 :
    commit >= n ~> site.commit >= n \/ failed >= n

-----------------------------------------------------------------------------
(* What the documentation says and the code does not do *)

(* leaderboard/render.py:180: "Click a name for per-axis breakdown": the   *)
(* page behind a row is that of a report in the same harness's directory.  *)
LinksToOwnPage ==
  LET rows == render_site(site.files).index
  IN  \A i \in DOMAIN rows : \A r \in load_reports(site.files) :
        rows[i].href = <<harness_name(r), r.id>> => r.path.top = rows[i].latest.path.top

(* leaderboard/render.py:183-184: the log has "Every evaluation that       *)
(* triggered a contamination or disqualification cap, current or           *)
(* historical": every report of the checkout with a cap for contamination. *)
ContaminationIsLogged ==
  LET events == render_site(site.files).events
  IN  \A r \in Records(site.files) :
        Mentions(r.applied, SaysContamin) => \E v \in events : IsCopyOf(v, r)
=============================================================================
