----------------------------- MODULE HarnessRun -----------------------------
(***************************************************************************)
(* runner/sandbox.py, the baselines and the proxy together: a harness is   *)
(* run in a container, asks the proxy for completions one after the other  *)
(* and writes its five output files.  The runner waits for it at most      *)
(* max_wall_time_seconds; a run that failed is tried again with the same   *)
(* SandboxConfig, over the same output directory, while the container or a *)
(* handler of the proxy may live on.                                       *)
(***************************************************************************)
EXTENDS Proxy, FiniteSets

CONSTANTS
  max_iterations,  \* of baselines/agentic_self_critique.py
  Bodies,          \* what a harness other than the baselines may post
  None,
  MaxAttempts      \* bound

ASSUME HarnessAssumption ==
  /\ max_iterations \in Nat /\ MaxAttempts \in Nat
  /\ Attempts = 1 .. MaxAttempts
  /\ Bodies \subseteq Body
  /\ None \notin [by : Attempts, whole : BOOLEAN]

VARIABLES
  program,      \* what the image runs
  immutable,    \* whether image_ref is name@sha256:...
  attempt,      \* run_in_sandbox: calls so far,
  running,      \* whether the last one is under way,
  results,      \* and what they returned or raised
  containers,   \* the container each of them started
  output_dir    \* the files of /output

config  == <<program, immutable>>
sandbox == <<attempt, running, results>>
vars    == <<proxy_vars, config, sandbox, containers, output_dir>>

REGISTRY == {"zero_shot", "rag_synthesis", "planner_verifier", "agentic_self_critique"}
Programs == REGISTRY \cup {"participant"}

Purposes == {"synthesis", "planner", "verifier", "reviser",
             "propose", "critique", "final_summary"}

(* In the order write_baseline_outputs writes them. *)
REQUIRED_OUTPUTS == <<"final_proof.md", "proof_graph.json", "cited_sources.json",
                      "self_critique.md", "trace.jsonl">>
Files == {REQUIRED_OUTPUTS[i] : i \in DOMAIN REQUIRED_OUTPUTS}

Results == {"refused", "0", "1", "125", "137", "timeout"}

Container ==
  [stage : {"absent", "run", "wait", "exited"}, call : Nat, trace : Seq(Purposes),
   stop : BOOLEAN, written : 0 .. Len(REQUIRED_OUTPUTS), exit_code : Results \cup {"none"}]

NoContainer ==
  [stage |-> "absent", call |-> 0, trace |-> <<>>, stop |-> FALSE,
   written |-> 0, exit_code |-> "none"]

Alive(a) == containers[a].stage \in {"run", "wait"}

(* A file as an attempt wrote it; FALSE: the attempt was killed meanwhile. *)
Written == [by : Attempts, whole : BOOLEAN]

Init ==
  /\ InitProxy
  /\ program \in Programs /\ immutable \in BOOLEAN
  /\ attempt = 0 /\ running = FALSE /\ results = [a \in Attempts |-> "none"]
  /\ containers = [a \in Attempts |-> NoContainer]
  /\ output_dir = [f \in Files |-> None]

-----------------------------------------------------------------------------
(* The harness in its container.                                           *)

BaselineBody ==
  [NoBody EXCEPT !.model = GEMMA_MODEL_ID,
                 !.messages = [shape |-> "list", entries |-> {"plain"}]]

BodiesOf(p) == IF p = "participant" THEN Bodies ELSE {BaselineBody}

(* The purposes of the model calls of a program that has no loop. *)
Script(p) ==
  IF p = "planner_verifier" THEN <<"planner", "verifier", "reviser">> ELSE <<"synthesis">>

(* A plausible bug: one round too many. *)
NextCallExtraRound(p, c) ==
  LET n == Len(c.trace) IN
  IF p # "agentic_self_critique"
    THEN {Script(p)[i] : i \in {n + 1} \cap DOMAIN Script(p)}
    ELSE IF n > 0 /\ c.trace[n] = "final_summary" THEN {}
    ELSE IF n % 2 = 1 THEN {"critique"}
    ELSE IF c.stop \/ n > 2 * max_iterations THEN {"final_summary"}
    ELSE {"propose"}

(* The purpose of the call that comes next, if one does: rounds of propose *)
(* and critique until a critique says stop or the rounds are up.           *)
NextCall(p, c) ==
  LET n == Len(c.trace) IN
  IF p # "agentic_self_critique"
    THEN {Script(p)[i] : i \in {n + 1} \cap DOMAIN Script(p)}
    ELSE IF n > 0 /\ c.trace[n] = "final_summary" THEN {}
    ELSE IF n % 2 = 1 THEN {"critique"}
    ELSE IF c.stop \/ n = 2 * max_iterations THEN {"final_summary"}
    ELSE {"propose"}

(* The process ends; its trace is kept as history. *)
Exit(a, code) ==
  containers' = [containers EXCEPT ![a] =
                   [stage |-> "exited", call |-> 0, trace |-> @.trace, stop |-> FALSE,
                    written |-> 0, exit_code |-> code]]

(* default_chat posts. *)
Chat(a) ==
  /\ containers[a].stage = "run" /\ NextCall(program, containers[a]) # {}
  /\ \E body \in BodiesOf(program) : Post(a, body)
  /\ containers' = [containers EXCEPT ![a].stage = "wait", ![a].call = Len(requests) + 1]
  /\ UNCHANGED <<config, sandbox, output_dir>>

(* A plausible bug: the status is not looked at. *)
ChatReturnsAnything(a) ==
  LET c == containers[a] IN
  /\ c.stage = "wait" /\ requests[c.call].stage = "finished"
  /\ \E purpose \in NextCall(program, c), verdict \in BOOLEAN :
       containers' = [containers EXCEPT ![a].stage = "run",
                        ![a].trace = Append(@, purpose), ![a].stop = verdict]
  /\ UNCHANGED <<proxy_vars, config, sandbox, output_dir>>

(* default_chat returns the completion, which _call adds to the trace, or  *)
(* raises RealChatError, which no baseline catches.                        *)
ChatReturns(a) ==
  LET c == containers[a] IN
  /\ c.stage = "wait" /\ requests[c.call].stage = "finished"
  /\ IF requests[c.call].status = "200"
       THEN \E purpose \in NextCall(program, c), verdict \in BOOLEAN :
              /\ purpose # "critique" => ~verdict
              /\ containers' = [containers EXCEPT ![a].stage = "run",
                                  ![a].trace = Append(@, purpose), ![a].stop = verdict]
       ELSE Exit(a, "1")
  /\ UNCHANGED <<proxy_vars, config, sandbox, output_dir>>

(* httpx.ReadTimeout in default_chat: the handler is not told. *)
ChatTimesOut(a) ==
  /\ containers[a].stage = "wait" /\ Exit(a, "1")
  /\ UNCHANGED <<proxy_vars, config, sandbox, output_dir>>

Put(a, file, whole) == output_dir' = [output_dir EXCEPT ![file] = [by |-> a, whole |-> whole]]

(* One of the five writes of write_baseline_outputs. *)
WriteFile(a) ==
  LET c == containers[a] IN
  /\ c.stage = "run" /\ NextCall(program, c) = {} /\ c.written < Len(REQUIRED_OUTPUTS)
  /\ Put(a, REQUIRED_OUTPUTS[c.written + 1], TRUE)
  /\ containers' = [containers EXCEPT ![a].written = @ + 1]
  /\ UNCHANGED <<proxy_vars, config, sandbox>>

(* run returns, and a baseline's main with it, after the last write.  The  *)
(* image of a participant may exit with 0 whenever it likes, with some of  *)
(* its files written or none: docker's exit code is passed on, and nothing *)
(* calls validate_outputs.                                                 *)
ExitsZero(a) ==
  /\ containers[a].stage = "run"
  /\ program = "participant" \/ containers[a].written = Len(REQUIRED_OUTPUTS)
  /\ Exit(a, "0")
  /\ UNCHANGED <<proxy_vars, config, sandbox, output_dir>>

(* The kernel kills the container (--memory), perhaps in a write; an       *)
(* exception between two calls or before the writes is a kill as well.     *)
Killed(a) ==
  LET c == containers[a] IN
  /\ Alive(a) /\ Exit(a, "137")
  /\ \/ UNCHANGED output_dir
     \/ /\ c.stage = "run" /\ NextCall(program, c) = {} /\ c.written < Len(REQUIRED_OUTPUTS)
        /\ Put(a, REQUIRED_OUTPUTS[c.written + 1], FALSE)
  /\ UNCHANGED <<proxy_vars, config, sandbox>>

-----------------------------------------------------------------------------
(* The runner.                                                             *)

Returned(a, result) == running' = FALSE /\ results' = [results EXCEPT ![a] = result]

Started(a) == /\ running' = TRUE /\ UNCHANGED results
              /\ containers' = [containers EXCEPT ![a].stage = "run"]

(* A plausible bug: a container without --name. *)
RunUnnamed ==
  /\ ~running /\ attempt < MaxAttempts
  /\ attempt' = attempt + 1
  /\ IF immutable THEN Started(attempt + 1)
                  ELSE Returned(attempt + 1, "refused") /\ UNCHANGED containers
  /\ UNCHANGED <<proxy_vars, config, output_dir>>

(* run_in_sandbox: build_docker_command refuses a floating tag; docker run *)
(* refuses a name, kakeya-<run_id>, that a container still has, and starts *)
(* the container otherwise.                                                *)
Run ==
  LET a == attempt + 1 IN
  /\ ~running /\ attempt < MaxAttempts
  /\ attempt' = a
  /\ \/ ~immutable /\ Returned(a, "refused") /\ UNCHANGED containers
     \/ immutable /\ (\E b \in Attempts : Alive(b)) /\ Returned(a, "125") /\ UNCHANGED containers
     \/ immutable /\ (\A b \in Attempts : ~Alive(b)) /\ Started(a)
  /\ UNCHANGED <<proxy_vars, config, output_dir>>

(* subprocess.run returns the exit code of docker run. *)
RunCompletes ==
  /\ running /\ containers[attempt].stage = "exited"
  /\ Returned(attempt, containers[attempt].exit_code)
  /\ UNCHANGED <<proxy_vars, config, attempt, containers, output_dir>>

(* A plausible bug: waiting for the container to go. *)
RunTimesOutAfterExit ==
  /\ running /\ ~Alive(attempt) /\ Returned(attempt, "timeout")
  /\ UNCHANGED <<proxy_vars, config, attempt, containers, output_dir>>

(* subprocess.TimeoutExpired: docker run is killed, the container is not.  *)
RunTimesOut ==
  /\ running /\ Returned(attempt, "timeout")
  /\ UNCHANGED <<proxy_vars, config, attempt, containers, output_dir>>

-----------------------------------------------------------------------------

Proxied == ProxyOrUpstream /\ UNCHANGED <<config, sandbox, containers, output_dir>>

Harness(a) ==
  \/ Chat(a) \/ ChatReturns(a) \/ ChatTimesOut(a)
  \/ WriteFile(a) \/ ExitsZero(a) \/ Killed(a)

Next ==
  \/ Proxied
  \/ \E a \in Attempts : Harness(a)
  \/ Run \/ RunCompletes \/ RunTimesOut

Spec == Init /\ [][Next]_vars

(* The proxy's handlers and the runner have timeouts; nothing makes a      *)
(* harness go on.                                                          *)
FairSpec ==
  /\ Spec
  /\ \A a \in Attempts : WF_vars(Handle(a) /\ UNCHANGED <<config, sandbox, containers, output_dir>>)
  /\ WF_vars(RunCompletes \/ RunTimesOut)

-----------------------------------------------------------------------------
(* Properties.                                                             *)

(* Types; in particular a baseline makes at most two calls per iteration   *)
(* and one more.                                                           *)
TypeOK ==
  /\ TypeProxy
  /\ program \in Programs /\ immutable \in BOOLEAN
  /\ attempt \in 0 .. MaxAttempts /\ running \in BOOLEAN
  /\ results \in [Attempts -> Results \cup {"none"}]
  /\ containers \in [Attempts -> Container]
  /\ \A a \in Attempts :
       /\ containers[a].stage = "wait" => containers[a].call \in DOMAIN requests
       /\ program = "agentic_self_critique" => Len(containers[a].trace) <= 2 * max_iterations + 1
  /\ output_dir \in [Files -> Written \cup {None}]

(* What the exit code 0 of run_in_sandbox is worth.  Whatever the program, *)
(* no container that outlived the timeout of an earlier run is still there *)
(* to write into the directory (sandbox.py:107, the name).  If it was a    *)
(* baseline, its five files are there, whole, and nothing but the files of *)
(* a later run takes their place (outputs.py:29-36).  Of the outputs of a  *)
(* participant's image the code says nothing, see ExitsZero.               *)
SuccessIsWhole ==
  \A a \in Attempts :
    results[a] = "0" =>
      /\ \A b \in Attempts : b < a => ~Alive(b)
      /\ program \in REGISTRY =>
           \A f \in Files :
             /\ output_dir[f] # None /\ output_dir[f].by >= a
             /\ output_dir[f].by = a => output_dir[f].whole

(* audit_log.py, "Each model call is recorded": a trace.jsonl that was     *)
(* written names as many model calls as the audit log has completions for  *)
(* the run, whatever timed out, failed or was restarted on the way.        *)
TraceMatchesAudit ==
  LET trace == output_dir["trace.jsonl"] IN
  trace # None /\ trace.whole =>
    Len(containers[trace.by].trace) =
      Cardinality({rec \in audit : /\ rec.direction = "response" /\ ~rec.violation
                                   /\ requests[rec.request_id].run = trace.by})

(* sandbox.py: the runner gets an answer or a timeout, though the harness  *)
(* may hang.                                                               *)
RunsReturn == running ~> ~running

(* outputs.py: "Write all five required files atomically": when no harness *)
(* is at work, the output directory of a baseline, whose files are written *)
(* there, has the five files of one run or none.                           *)
WrittenAtomically ==
  program \in REGISTRY /\ (\A a \in Attempts : ~Alive(a)) =>
    \/ \A f \in Files : output_dir[f] = None
    \/ \E a \in Attempts : \A f \in Files : output_dir[f] = [by |-> a, whole |-> TRUE]
=============================================================================
