--------------------------- MODULE HarnessProofs ----------------------------
(***************************************************************************)
(* What is proved of HarnessRun: that the proxy forwards nothing outside   *)
(* the rules and nothing off the record, and that a baseline's run which   *)
(* returns 0 leaves whole outputs.  Both for every number of attempts and  *)
(* iterations and every body a harness may post.                           *)
(***************************************************************************)
EXTENDS HarnessRun, TLAPS

-----------------------------------------------------------------------------
(* The policy.                                                             *)

(* The body of a handler that ended is one. *)
LEMMA NoBodyIsBody == NoBody \in Body
  BY DEF NoBody, Body, Plugins, Messages, Lists, Shapes

(* ... and so is that of a baseline, which the proxy lets through. *)
LEMMA BaselineBodyIsBody == BaselineBody \in Body
  BY DEF BaselineBody, NoBody, Body, Plugins, Messages, Lists, Shapes, GEMMA_MODEL_ID

(* enforce_request returns a request within the rules, or none. *)
LEMMA EnforceRequest ==
  ASSUME NEW b \in Body, Allowed(b)
  PROVE  Normalized(b) \in Body /\ InTimeCapsule(Normalized(b))
<1>1. [shape |-> "list", entries |-> {"web_off"}] \in Plugins
  BY DEF Plugins, Lists, Shapes
<1>2. /\ Normalized(b) = [b EXCEPT !.plugins = [shape |-> "list", entries |-> {"web_off"}],
                                   !.provider = "safe"]
      /\ b \in [kind      : {"object", "not_object", "not_json"},
                model     : {GEMMA_MODEL_ID, "google/gemma-4-31b-it:online", "absent"},
                forbidden : {"absent", "empty", "value"},
                plugins   : Plugins,
                messages  : Messages,
                provider  : {"absent", "participant", "safe"}]
  BY DEF Normalized, Body
<1>3. Normalized(b) \in Body
  BY <1>1, <1>2 DEF Body
<1>4. InTimeCapsule(Normalized(b))
  BY <1>2 DEF InTimeCapsule, Allowed, _check_model, _check_forbidden_keys,
              _check_server_tools_in_messages
<1> QED BY <1>3, <1>4

-----------------------------------------------------------------------------
(* The proxy.                                                              *)

Lines(r) == {rec \in audit : rec.request_id = r}

RequestLine(r) == Line(r, "request", FALSE)

(* What the log has of a request that is finished. *)
Told(r, status, lines) == lines \in Stories(r) /\ (status = "200" => lines = Completed(r))

ProxyInv ==
  /\ requests \in Seq(Requests)
  /\ \A rec \in audit : rec.request_id \in 1 .. Len(requests)
  /\ \A r \in 1 .. Len(requests) :
       /\ requests[r].stage = "received" => Lines(r) = {}
       /\ requests[r].stage = "upstream" =>
            InTimeCapsule(requests[r].body) /\ Lines(r) = {RequestLine(r)}
       /\ requests[r].stage = "finished" => Told(r, requests[r].status, Lines(r))
       /\ requests[r].status = "200" => requests[r].stage = "finished"

(* A request that is not finished has a part of the story. *)
LEMMA BeginningsAreStories ==
  ASSUME NEW r
  PROVE  {} \in Stories(r) /\ {RequestLine(r)} \in Stories(r)
<1>1. {RequestLine(r)} = {RequestLine(r)} \cup {}
  OBVIOUS
<1> QED BY <1>1 DEF Stories, RequestLine

(* What a handler's end makes of a request is one. *)
LEMMA EndedIsRequest ==
  ASSUME NEW q \in Requests, NEW status \in Statuses
  PROVE  /\ Ended(q, status) \in Requests
         /\ Ended(q, status).stage = "finished" /\ Ended(q, status).status = status
  BY NoBodyIsBody DEF Ended, Requests

(* A step that replaces one request, and adds lines for it only, has to    *)
(* say what it does to that request.                                       *)
LEMMA OneRequest ==
  ASSUME ProxyInv, NEW r \in 1 .. Len(requests), NEW q \in Requests,
         requests' = [requests EXCEPT ![r] = q],
         NEW lines, audit' = audit \cup lines,
         \A rec \in lines : rec.request_id = r,
         q.stage = "received" => requests[r].stage = "received" /\ lines = {},
         q.stage = "upstream" => InTimeCapsule(q.body) /\ Lines(r) \cup lines = {RequestLine(r)},
         q.stage = "finished" => Told(r, q.status, Lines(r) \cup lines),
         q.status = "200" => q.stage = "finished"
  PROVE  ProxyInv'
<1>1. requests' \in Seq(Requests) /\ Len(requests') = Len(requests)
  BY DEF ProxyInv
<1>2. \A rec \in audit' : rec.request_id \in 1 .. Len(requests')
  BY <1>1 DEF ProxyInv
<1>3. ASSUME NEW s \in 1 .. Len(requests')
      PROVE  /\ requests'[s].stage = "received" => Lines(s)' = {}
             /\ requests'[s].stage = "upstream" =>
                  InTimeCapsule(requests'[s].body) /\ Lines(s)' = {RequestLine(s)}
             /\ requests'[s].stage = "finished" => Told(s, requests'[s].status, Lines(s)')
             /\ requests'[s].status = "200" => requests'[s].stage = "finished"
  <2>1. CASE s = r
    <3>1. requests'[s] = q
      BY <1>1, <2>1 DEF ProxyInv
    <3>2. Lines(s)' = Lines(r) \cup lines
      BY <2>1 DEF Lines
    <3> QED BY <3>1, <3>2, <2>1 DEF ProxyInv
  <2>2. CASE s # r
    <3>1. requests'[s] = requests[s]
      BY <1>1, <2>2 DEF ProxyInv
    <3>2. Lines(s)' = Lines(s)
      BY <2>2 DEF Lines
    <3> QED BY <1>1, <3>1, <3>2 DEF ProxyInv
  <2> QED BY <2>1, <2>2
<1> QED BY <1>1, <1>2, <1>3 DEF ProxyInv, RequestLine, Told, Stories, Completed, Line

(* A request the proxy got, and what it is about. *)
LEMMA RequestType ==
  ASSUME ProxyInv, NEW r \in DOMAIN requests
  PROVE  r \in 1 .. Len(requests) /\ requests[r] \in Requests /\ requests[r].body \in Body
<1>1. r \in 1 .. Len(requests) /\ requests[r] \in Requests
  BY DEF ProxyInv
<1> QED BY <1>1 DEF Requests

(* A reply ends the request; the lines that come with it end its story. *)
LEMMA ReplyStep ==
  ASSUME ProxyInv, NEW r \in DOMAIN requests, NEW status \in Statuses, Reply(r, status),
         NEW lines, audit' = audit \cup lines, \A rec \in lines : rec.request_id = r,
         Told(r, status, Lines(r) \cup lines)
  PROVE  ProxyInv'
<1> DEFINE q == Ended(requests[r], status)
<1>1. r \in 1 .. Len(requests) /\ requests[r] \in Requests
  BY RequestType
<1>2. q \in Requests /\ q.stage = "finished" /\ q.status = status
  BY <1>1, EndedIsRequest
<1>3. requests' = [requests EXCEPT ![r] = q]
  BY DEF Reply
<1>4. /\ q.stage = "received" => requests[r].stage = "received" /\ lines = {}
      /\ q.stage = "upstream" => InTimeCapsule(q.body) /\ Lines(r) \cup lines = {RequestLine(r)}
      /\ q.stage = "finished" => Told(r, q.status, Lines(r) \cup lines)
      /\ q.status = "200" => q.stage = "finished"
  BY <1>2
<1> HIDE DEF q
<1> QED BY <1>1, <1>2, <1>3, <1>4, OneRequest, Zenon

(* ... one line, or none. *)
LEMMA RecordedReplyStep ==
  ASSUME ProxyInv, NEW r \in DOMAIN requests, NEW status \in Statuses, Reply(r, status),
         \/ UNCHANGED audit /\ Told(r, status, Lines(r))
         \/ \E direction, violation :
              /\ Record(r, direction, violation)
              /\ Told(r, status, Lines(r) \cup {Line(r, direction, violation)})
  PROVE  ProxyInv'
<1>1. CASE UNCHANGED audit /\ Told(r, status, Lines(r))
  <2> DEFINE lines == {}
  <2>1. audit' = audit \cup lines /\ \A rec \in lines : rec.request_id = r
    BY <1>1
  <2>2. Lines(r) \cup lines = Lines(r)
    OBVIOUS
  <2> HIDE DEF lines
  <2>3. Told(r, status, Lines(r) \cup lines)
    BY <1>1, <2>2
  <2> QED BY <2>1, <2>3, ReplyStep
<1>2. CASE \E direction, violation :
             /\ Record(r, direction, violation)
             /\ Told(r, status, Lines(r) \cup {Line(r, direction, violation)})
  <2>1. PICK direction, violation :
          /\ Record(r, direction, violation)
          /\ Told(r, status, Lines(r) \cup {Line(r, direction, violation)})
    BY <1>2
  <2> DEFINE line == Line(r, direction, violation)
  <2>2. /\ audit' = audit \cup {line} /\ line.request_id = r
        /\ Told(r, status, Lines(r) \cup {line})
    BY <2>1 DEF Record, Line
  <2> HIDE DEF line
  <2> QED BY <2>2, ReplyStep
<1> QED BY <1>1, <1>2

(* The steps of the proxy's handlers, of OpenRouter and of a restart. *)
LEMMA ProxyStep ==
  ASSUME ProxyInv, ProxyOrUpstream
  PROVE  ProxyInv'
<1>1. ASSUME NEW r \in DOMAIN requests, Receive(r)
      PROVE  ProxyInv'
  <2> DEFINE body == requests[r].body
  <2>1. r \in 1 .. Len(requests) /\ requests[r] \in Requests /\ body \in Body
    BY RequestType
  <2>2. requests[r].stage = "received" /\ Lines(r) = {}
    BY <1>1, <2>1 DEF Receive, ProxyInv
  <2>3. /\ Told(r, "error", Lines(r))
        /\ Told(r, "error", Lines(r) \cup {Line(r, "violation", TRUE)})
        /\ Told(r, "error", Lines(r) \cup {Line(r, "request", FALSE)})
    BY <2>2, BeginningsAreStories DEF Told, Stories, RequestLine
  <2>5. ASSUME Reply(r, "error"),
               \/ UNCHANGED audit
               \/ Record(r, "violation", TRUE)
               \/ Record(r, "request", FALSE)
        PROVE  ProxyInv'
    BY <2>3, <2>5, RecordedReplyStep DEF Statuses
  <2>4. ASSUME Allowed(body), Record(r, "request", FALSE),
               requests' = [requests EXCEPT ![r].stage = "upstream", ![r].body = Normalized(body)]
        PROVE  ProxyInv'
    <3> DEFINE q == [requests[r] EXCEPT !.stage = "upstream", !.body = Normalized(body)]
    <3>1. requests' = [requests EXCEPT ![r] = q]
      BY <2>1, <2>4 DEF ProxyInv, Requests
    <3>2. Normalized(body) \in Body /\ InTimeCapsule(Normalized(body))
      BY <2>1, <2>4, EnforceRequest
    <3>3. q \in Requests /\ q.stage = "upstream" /\ q.body = Normalized(body)
      BY <2>1, <3>2 DEF Requests
    <3>4. Lines(r) \cup {RequestLine(r)} = {RequestLine(r)} /\ RequestLine(r).request_id = r
      BY <2>2 DEF RequestLine, Line
    <3>5. audit' = audit \cup {RequestLine(r)}
      BY <2>4 DEF Record, RequestLine
    <3>6. q.status # "200"
      BY <2>1, <2>2 DEF ProxyInv, Requests
    <3> HIDE DEF q
    <3> QED BY <2>1, <3>1, <3>2, <3>3, <3>4, <3>5, <3>6, OneRequest
  <2> QED BY <1>1, <2>4, <2>5 DEF Receive
<1>2. ASSUME NEW r \in DOMAIN requests, Finish(r)
      PROVE  ProxyInv'
  <2>1. Lines(r) = {RequestLine(r)}
    BY <1>2, RequestType DEF Finish, ProxyInv
  <2>2. /\ Told(r, "error", Lines(r))
        /\ Told(r, "error", Lines(r) \cup {Line(r, "response", TRUE)})
        /\ Told(r, "error", Lines(r) \cup {Line(r, "response", FALSE)})
    BY <2>1, BeginningsAreStories DEF Told, Stories, RequestLine
  <2>3. Told(r, "200", Lines(r) \cup {Line(r, "response", FALSE)})
    BY <2>1 DEF Told, Stories, Completed, RequestLine
  <2>4. ASSUME Reply(r, "error"),
               \/ UNCHANGED audit
               \/ Record(r, "response", TRUE)
               \/ Record(r, "response", FALSE)
        PROVE  ProxyInv'
    BY <2>2, <2>4, RecordedReplyStep DEF Statuses
  <2>5. ASSUME Reply(r, "200"), Record(r, "response", FALSE)
        PROVE  ProxyInv'
    BY <2>3, <2>5, RecordedReplyStep DEF Statuses
  <2> QED BY <1>2, <2>4, <2>5 DEF Finish, Statuses
<1>3. ASSUME NEW r \in DOMAIN requests, NEW answer \in Answers, Upstream(r, answer)
      PROVE  ProxyInv'
  <2> DEFINE q == [requests[r] EXCEPT !.answer = answer]
  <2>1. r \in 1 .. Len(requests) /\ requests[r] \in Requests
    BY DEF ProxyInv
  <2> DEFINE lines == {}
  <2>2. requests' = [requests EXCEPT ![r] = q] /\ audit' = audit \cup lines
    BY <1>3, <2>1 DEF Upstream
  <2>3. q \in Requests /\ q.stage = "upstream" /\ q.body = requests[r].body
    BY <1>3, <2>1 DEF Requests, Upstream
  <2>4. InTimeCapsule(requests[r].body) /\ Lines(r) \cup {} = {RequestLine(r)}
    BY <1>3, <2>1 DEF Upstream, ProxyInv
  <2>5. /\ q.stage = "received" => requests[r].stage = "received" /\ lines = {}
        /\ q.stage = "upstream" => InTimeCapsule(q.body) /\ Lines(r) \cup lines = {RequestLine(r)}
        /\ \A rec \in lines : rec.request_id = r
        /\ q.stage # "finished"
    BY <2>3, <2>4
  <2>6. q.status # "200"
    BY <1>3, <2>1 DEF Upstream, ProxyInv, Requests
  <2> HIDE DEF q, lines
  <2> QED BY <2>1, <2>2, <2>3, <2>5, <2>6, OneRequest
<1>4. ASSUME Restart
      PROVE  ProxyInv'
  <2>1. /\ requests' \in Seq(Requests) /\ Len(requests') = Len(requests)
        /\ \A r \in 1 .. Len(requests') : requests'[r].stage = "finished"
    <3>1. requests' = [r \in 1 .. Len(requests) |->
                        IF requests[r].stage = "finished" THEN requests[r]
                                                          ELSE Ended(requests[r], "error")]
      BY <1>4 DEF Restart, ProxyInv
    <3>2. \A r \in 1 .. Len(requests) :
            requests'[r] \in Requests /\ requests'[r].stage = "finished"
      BY <3>1, EndedIsRequest DEF ProxyInv, Statuses
    <3> QED BY <3>1, <3>2 DEF ProxyInv
  <2>2. ASSUME NEW r \in 1 .. Len(requests)
        PROVE  Told(r, requests'[r].status, Lines(r))
    <3>1. CASE requests[r].stage = "finished"
      BY <1>4, <3>1 DEF Restart, ProxyInv
    <3>2. CASE requests[r].stage # "finished"
      <4>0. requests[r] \in Requests
        BY DEF ProxyInv
      <4>1. requests[r] \in Requests /\ requests[r].stage \in {"received", "upstream"}
        BY <3>2, <4>0 DEF Requests
      <4>2. Lines(r) \in Stories(r)
        BY <4>1, BeginningsAreStories DEF ProxyInv
      <4>3. requests'[r] = Ended(requests[r], "error")
        BY <1>4, <3>2 DEF Restart, ProxyInv
      <4>4. requests'[r].status = "error"
        BY <4>1, <4>3, EndedIsRequest DEF Statuses
      <4> QED BY <4>2, <4>4 DEF Told
    <3> QED BY <3>1, <3>2
  <2>3. \A r : Lines(r)' = Lines(r)
    BY <1>4 DEF Restart, Lines
  <2>4. \A rec \in audit' : rec.request_id \in 1 .. Len(requests')
    BY <1>4, <2>1 DEF Restart, ProxyInv
  <2> QED BY <2>1, <2>2, <2>3, <2>4 DEF ProxyInv, Told, Stories, Completed, Line, RequestLine
<1> QED BY <1>1, <1>2, <1>3, <1>4 DEF ProxyOrUpstream, Handle

(* A harness posts a request. *)
LEMMA PostStep ==
  ASSUME ProxyInv, NEW run \in Attempts, NEW body \in Body, Post(run, body)
  PROVE  ProxyInv'
<1> DEFINE q == [run |-> run, body |-> body, stage |-> "received",
                 answer |-> "none", status |-> "none"]
<1>1. q \in Requests /\ q.stage = "received" /\ q.status = "none"
  BY DEF Requests
<1>2. requests' = Append(requests, q) /\ audit' = audit
  BY DEF Post
<1> HIDE DEF q
<1>3. /\ requests' \in Seq(Requests) /\ Len(requests') = Len(requests) + 1
      /\ \A r \in 1 .. Len(requests) : requests'[r] = requests[r]
      /\ requests'[Len(requests) + 1] = q
  BY <1>1, <1>2 DEF ProxyInv
<1>4. Len(requests) \in Nat /\ Lines(Len(requests) + 1) = {}
  BY DEF ProxyInv, Lines
<1>5. \A r : Lines(r)' = Lines(r)
  BY <1>2 DEF Lines
<1> QED BY <1>1, <1>2, <1>3, <1>4, <1>5
    DEF ProxyInv, RequestLine, Told, Stories, Completed, Line

(* The invariant of the proxy is inductive. *)
LEMMA ProxyInvariant ==
  /\ Init => ProxyInv
  /\ ProxyInv /\ [Next]_vars => ProxyInv'
<1>1. Init => ProxyInv
  BY DEF Init, InitProxy, ProxyInv
<1>2. ProxyInv /\ [Next]_vars => ProxyInv'
  <2> SUFFICES ASSUME ProxyInv, [Next]_vars
               PROVE  ProxyInv'
    OBVIOUS
  <2>1. ASSUME NEW a \in Attempts, Chat(a)
        PROVE  ProxyInv'
    <3>1. BodiesOf(program) \subseteq Body
      BY HarnessAssumption, BaselineBodyIsBody DEF BodiesOf
    <3> QED BY <2>1, <3>1, PostStep DEF Chat
  <2>2. ASSUME UNCHANGED proxy_vars
        PROVE  ProxyInv'
    BY <2>2 DEF proxy_vars, ProxyInv, Lines, RequestLine, Told, Stories, Completed, Line
  <2> QED BY <2>1, <2>2, ProxyStep
      DEF Next, Harness, Proxied, ChatReturns, ChatTimesOut, WriteFile, ExitsZero, Killed,
          Run, RunCompletes, RunTimesOut, vars
<1> QED BY <1>1, <1>2

(* policy.py and main.py: OpenRouter is only asked what the rules allow,   *)
(* and the audit log has it.                                               *)
THEOREM CapsuleTheorem == Spec => []UpstreamIsCapsuleAndAudited
<1>1. ProxyInv => UpstreamIsCapsuleAndAudited
  <2> SUFFICES ASSUME ProxyInv, NEW r \in DOMAIN requests, requests[r].stage = "upstream"
               PROVE  InTimeCapsule(requests[r].body) /\ Lines(r) = {RequestLine(r)}
    BY DEF UpstreamIsCapsuleAndAudited, Lines, RequestLine
  <2> QED BY RequestType DEF ProxyInv
<1> QED BY <1>1, ProxyInvariant, PTL DEF Spec

(* main.py and audit_log.py: what the log says of a request is one of five *)
(* stories, and a caller that got a completion is on record with it.       *)
THEOREM StoryTheorem == Spec => []LogTellsTheStory
<1>1. ProxyInv => LogTellsTheStory
  <2> SUFFICES ASSUME ProxyInv, NEW r \in DOMAIN requests
               PROVE  Told(r, requests[r].status, Lines(r))
    BY DEF LogTellsTheStory, Told, Lines
  <2>1. r \in 1 .. Len(requests) /\ requests[r] \in Requests
    BY RequestType
  <2>2. CASE requests[r].stage = "finished"
    BY <2>1, <2>2 DEF ProxyInv
  <2>3. CASE requests[r].stage \in {"received", "upstream"}
    BY <2>1, <2>3, BeginningsAreStories DEF ProxyInv, Told
  <2> QED BY <2>1, <2>2, <2>3 DEF Requests
<1> QED BY <1>1, ProxyInvariant, PTL DEF Spec

-----------------------------------------------------------------------------
(* The runner and the output directory.                                    *)

Mine(a, f) == output_dir[f] = [by |-> a, whole |-> TRUE]

(* What the five files are like once attempt a has written them all: they  *)
(* are its own, or of an attempt after it.                                 *)
Kept(a) ==
  \A f \in Files :
    /\ output_dir[f] # None /\ output_dir[f].by >= a
    /\ output_dir[f].by = a => output_dir[f].whole

RunType ==
  /\ attempt \in Nat
  /\ results \in [Attempts -> Results \cup {"none"}]
  /\ containers \in [Attempts -> Container]
  /\ output_dir \in [Files -> Written \cup {None}]
  /\ running => attempt \in Attempts
  /\ \A a \in Attempts : containers[a].stage = "exited" => containers[a].exit_code \in Results

(* The container of one attempt is alive at most, and while it is none of  *)
(* a later attempt has started.                                            *)
OneAlive ==
  \A a \in Attempts :
    /\ Alive(a) => \A b \in Attempts : b # a => ~Alive(b)
    /\ Alive(a) => \A b \in Attempts : b > a => containers[b].stage = "absent"
    /\ a > attempt => containers[a].stage = "absent"
    /\ containers[a].stage = "absent" => containers[a].written = 0

(* How far each attempt came with its files. *)
Progress ==
  \A a \in Attempts :
    /\ Alive(a) => \A i \in 1 .. containers[a].written : Mine(a, REQUIRED_OUTPUTS[i])
    /\ containers[a].stage = "exited" /\ containers[a].exit_code = "0" /\ program \in REGISTRY
         => Kept(a)
    /\ results[a] = "0" => containers[a].stage = "exited" /\ containers[a].exit_code = "0"

RunInv == RunType /\ OneAlive /\ Progress

(* The purpose of a call is one. *)
LEMMA NextCallType ==
  ASSUME NEW c \in Container
  PROVE  NextCall(program, c) \subseteq Purposes
<1>1. \A i \in DOMAIN Script(program) : Script(program)[i] \in Purposes
  BY DEF Script, Purposes
<1> QED BY <1>1 DEF NextCall, Purposes

(* The five names. *)
LEMMA OutputNames ==
  /\ Len(REQUIRED_OUTPUTS) = 5
  /\ \A i \in 1 .. 5 : REQUIRED_OUTPUTS[i] \in Files
  /\ \A f \in Files : \E i \in 1 .. 5 : f = REQUIRED_OUTPUTS[i]
<1>1. Len(REQUIRED_OUTPUTS) = 5 /\ DOMAIN REQUIRED_OUTPUTS = 1 .. 5
  BY DEF REQUIRED_OUTPUTS
<1> QED BY <1>1 DEF Files

(* A living container goes on or exits, and touches no file but its own:   *)
(* what earlier attempts that returned 0 left is replaced by its files.    *)
LEMMA ContainerStep ==
  ASSUME RunInv, NEW a \in Attempts, Alive(a),
         NEW c \in Container, containers' = [containers EXCEPT ![a] = c],
         c.stage \in {"run", "wait", "exited"},
         UNCHANGED <<program, attempt, running, results>>,
         output_dir' \in [Files -> Written \cup {None}],
         \A f \in Files : \/ output_dir'[f] = output_dir[f]
                          \/ output_dir'[f] # None /\ output_dir'[f].by = a,
         c.stage \in {"run", "wait"} => \A i \in 1 .. c.written : Mine(a, REQUIRED_OUTPUTS[i])',
         c.stage = "exited" => c.exit_code \in Results,
         c.stage = "exited" /\ c.exit_code = "0" /\ program \in REGISTRY => Kept(a)'
  PROVE  RunInv'
<1>1. /\ containers' \in [Attempts -> Container]
      /\ containers'[a] = c
      /\ \A b \in Attempts \ {a} : containers'[b] = containers[b]
  BY DEF RunInv, RunType
<1>2. RunType'
  BY <1>1 DEF RunInv, RunType
<1>3. Attempts \subseteq Nat
  BY HarnessAssumption
<1>4. OneAlive'
  BY <1>1, <1>3 DEF RunInv, OneAlive, Alive, RunType
<1>5. Progress'
  <2> SUFFICES ASSUME NEW b \in Attempts
               PROVE  /\ Alive(b)' => \A i \in 1 .. containers'[b].written :
                                        Mine(b, REQUIRED_OUTPUTS[i])'
                      /\ /\ containers'[b].stage = "exited" /\ containers'[b].exit_code = "0"
                         /\ program' \in REGISTRY
                         => Kept(b)'
                      /\ results'[b] = "0" => containers'[b].stage = "exited" /\ containers'[b].exit_code = "0"
    BY DEF Progress
  <2>1. CASE b = a
    BY <1>1, <2>1 DEF RunInv, Progress, Alive
  <2>2. CASE b # a
    <3>1. ~Alive(b)' /\ containers'[b] = containers[b]
      BY <1>1, <2>2 DEF RunInv, OneAlive, Alive
    <3>2. ASSUME containers[b].stage = "exited", Kept(b)
          PROVE  Kept(b)'
      <4>1. b < a
        BY <3>2, <2>2, <1>3 DEF RunInv, OneAlive
      <4> QED BY <3>2, <4>1, <1>3 DEF Kept
    <3> QED BY <3>1, <3>2 DEF RunInv, Progress
  <2> QED BY <2>1, <2>2
<1> QED BY <1>2, <1>4, <1>5 DEF RunInv

(* ... one that exits with another code than 0 may have done anything to   *)
(* its own files.                                                          *)
LEMMA ExitStep ==
  ASSUME RunInv, NEW a \in Attempts, Alive(a),
         NEW code \in Results, Exit(a, code),
         code = "0" /\ program \in REGISTRY => Kept(a)',
         UNCHANGED <<program, attempt, running, results>>,
         output_dir' \in [Files -> Written \cup {None}],
         \A f \in Files : \/ output_dir'[f] = output_dir[f]
                          \/ output_dir'[f] # None /\ output_dir'[f].by = a
  PROVE  RunInv'
<1> DEFINE c == [stage |-> "exited", call |-> 0, trace |-> containers[a].trace,
                 stop |-> FALSE, written |-> 0, exit_code |-> code]
<1>1. containers[a].trace \in Seq(Purposes)
  BY DEF RunInv, RunType, Container
<1>2. c \in Container /\ c.stage = "exited" /\ c.exit_code = code
  BY <1>1, OutputNames DEF Container
<1>3. containers' = [containers EXCEPT ![a] = c]
  BY DEF Exit, RunInv, RunType
<1> HIDE DEF c
<1> QED BY <1>2, <1>3, ContainerStep

(* ... and one that exits without a write. *)
LEMMA QuietExitStep ==
  ASSUME RunInv, NEW a \in Attempts, Alive(a),
         NEW code \in Results, Exit(a, code),
         code = "0" /\ program \in REGISTRY => Kept(a),
         UNCHANGED <<program, attempt, running, results, output_dir>>
  PROVE  RunInv'
<1>1. output_dir' \in [Files -> Written \cup {None}]
  BY DEF RunInv, RunType
<1>2. code = "0" /\ program \in REGISTRY => Kept(a)'
  BY DEF Kept
<1> QED BY <1>1, <1>2, ExitStep

(* Putting a file changes that one. *)
LEMMA PutStep ==
  ASSUME RunType, NEW a \in Attempts, NEW file \in Files, NEW whole \in BOOLEAN, Put(a, file, whole)
  PROVE  /\ output_dir' \in [Files -> Written \cup {None}]
         /\ output_dir'[file] = [by |-> a, whole |-> whole]
         /\ output_dir'[file] # None /\ output_dir'[file].by = a
         /\ \A f \in Files \ {file} : output_dir'[f] = output_dir[f]
<1> DEFINE content == [by |-> a, whole |-> whole]
<1>1. content \in Written /\ content.by = a /\ content # None
  BY HarnessAssumption DEF Written
<1>2. output_dir' = [output_dir EXCEPT ![file] = content]
  BY DEF Put
<1> HIDE DEF content
<1>3. /\ output_dir' \in [Files -> Written \cup {None}]
      /\ output_dir'[file] = content
      /\ \A f \in Files \ {file} : output_dir'[f] = output_dir[f]
  BY <1>1, <1>2 DEF RunType
<1> QED BY <1>1, <1>3 DEF content

(* The steps of a harness. *)
LEMMA HarnessStep ==
  ASSUME RunInv, ProxyInv, NEW a \in Attempts, Harness(a)
  PROVE  RunInv'
<1> DEFINE c == containers[a]
<1>1. c \in Container /\ c.written \in 0 .. 5
  BY OutputNames DEF RunInv, RunType, Container
<1>2. \A i \in 1 .. 5 : REQUIRED_OUTPUTS[i] \in Files
  BY OutputNames
<1>3. output_dir \in [Files -> Written \cup {None}]
  BY DEF RunInv, RunType
<1>4. ASSUME NEW d \in Container, containers' = [containers EXCEPT ![a] = d], Alive(a),
             d.stage \in {"run", "wait"}, d.written = c.written,
             UNCHANGED <<program, attempt, running, results, output_dir>>
      PROVE  RunInv'
  <2>1. \A i \in 1 .. d.written : Mine(a, REQUIRED_OUTPUTS[i])'
    BY <1>4 DEF RunInv, Progress, Mine
  <2>2. output_dir' \in [Files -> Written \cup {None}]
    BY <1>3, <1>4
  <2>3. \A f \in Files : output_dir'[f] = output_dir[f]
    BY <1>4
  <2>4. d.stage # "exited"
    BY <1>4
  <2> QED BY <1>4, <2>1, <2>2, <2>3, <2>4, ContainerStep
<1>5. CASE Chat(a)
  <2> DEFINE d == [c EXCEPT !.stage = "wait", !.call = Len(requests) + 1]
  <2>1. Len(requests) + 1 \in Nat
    BY DEF ProxyInv
  <2>2. d \in Container /\ d.stage = "wait" /\ d.written = c.written
    BY <1>1, <2>1 DEF Container
  <2>3. containers' = [containers EXCEPT ![a] = d] /\ Alive(a)
    BY <1>5 DEF Chat, Alive
  <2> HIDE DEF d
  <2> QED BY <1>4, <1>5, <2>2, <2>3 DEF Chat, sandbox, config
<1>6. ASSUME NEW code \in Results \ {"0"}, Exit(a, code), Alive(a),
             UNCHANGED <<program, attempt, running, results, output_dir>>
      PROVE  RunInv'
  BY <1>6, QuietExitStep
<1>7. CASE ChatReturns(a)
  <2>1. ASSUME NEW purpose \in NextCall(program, c), NEW verdict \in BOOLEAN,
               containers' = [containers EXCEPT ![a].stage = "run",
                                ![a].trace = Append(@, purpose), ![a].stop = verdict]
        PROVE  RunInv'
    <3> DEFINE d == [c EXCEPT !.stage = "run", !.trace = Append(@, purpose), !.stop = verdict]
    <3>1. Append(c.trace, purpose) \in Seq(Purposes)
      BY <1>1, NextCallType DEF Container
    <3>2. d \in Container /\ d.stage = "run" /\ d.written = c.written
      BY <1>1, <3>1 DEF Container
    <3>3. containers' = [containers EXCEPT ![a] = d] /\ Alive(a)
      BY <1>7, <2>1 DEF ChatReturns, Alive
    <3> HIDE DEF d
    <3> QED BY <1>4, <1>7, <3>2, <3>3 DEF ChatReturns, sandbox, config
  <2>2. ASSUME Exit(a, "1")
        PROVE  RunInv'
    BY <1>6, <1>7, <2>2 DEF ChatReturns, sandbox, config, Alive, Results
  <2> QED BY <1>7, <2>1, <2>2 DEF ChatReturns
<1>8. CASE ChatTimesOut(a)
  BY <1>6, <1>8 DEF ChatTimesOut, sandbox, config, Alive, Results
<1>9. CASE WriteFile(a)
  <2> DEFINE d == [c EXCEPT !.written = @ + 1]
             file == REQUIRED_OUTPUTS[c.written + 1]
  <2>1. c.stage = "run" /\ c.written \in 0 .. 4 /\ Put(a, file, TRUE) /\ Alive(a)
    <3>1. c.stage = "run" /\ c.written < Len(REQUIRED_OUTPUTS) /\ Put(a, file, TRUE)
      BY <1>9 DEF WriteFile
    <3>2. c.written \in 0 .. 4
      BY <1>1, <3>1, OutputNames
    <3> QED BY <3>1, <3>2 DEF Alive
  <2>2. c.written + 1 \in 1 .. 5 /\ file \in Files
    BY <1>2, <2>1
  <2>3. d \in Container /\ d.stage = "run" /\ d.written = c.written + 1
    BY <1>1, <2>1, OutputNames DEF Container
  <2>4. containers' = [containers EXCEPT ![a] = d]
    BY <1>9 DEF WriteFile
  <2> HIDE DEF d, file
  <2>5. /\ output_dir' \in [Files -> Written \cup {None}]
        /\ output_dir'[file] = [by |-> a, whole |-> TRUE]
        /\ output_dir'[file] # None /\ output_dir'[file].by = a
        /\ \A f \in Files \ {file} : output_dir'[f] = output_dir[f]
    BY <2>1, <2>2, PutStep DEF RunInv
  <2>6. \A i \in 1 .. d.written : Mine(a, REQUIRED_OUTPUTS[i])'
    <3> SUFFICES ASSUME NEW i \in 1 .. d.written
                 PROVE  output_dir'[REQUIRED_OUTPUTS[i]] = [by |-> a, whole |-> TRUE]
      BY DEF Mine
    <3>1. i \in 1 .. 5 /\ REQUIRED_OUTPUTS[i] \in Files
      BY <1>2, <2>1, <2>3
    <3>2. CASE i = c.written + 1
      BY <2>5, <3>2 DEF file
    <3>3. CASE i # c.written + 1
      <4>1. i \in 1 .. c.written
        BY <2>1, <2>3, <3>3
      <4>2. output_dir[REQUIRED_OUTPUTS[i]] = [by |-> a, whole |-> TRUE]
        BY <2>1, <4>1 DEF RunInv, Progress, Mine
      <4> QED BY <2>5, <3>1, <4>2
    <3> QED BY <3>2, <3>3
  <2>7. UNCHANGED <<program, attempt, running, results>>
    BY <1>9 DEF WriteFile, sandbox, config
  <2>8. \A f \in Files : \/ output_dir'[f] = output_dir[f]
                         \/ output_dir'[f] # None /\ output_dir'[f].by = a
    BY <2>5
  <2>9. d.stage # "exited" /\ d.stage \in {"run", "wait", "exited"}
    BY <2>3
  <2> QED BY <2>1, <2>3, <2>4, <2>5, <2>6, <2>7, <2>8, <2>9, ContainerStep
<1>10. CASE ExitsZero(a)
  <2>1. Alive(a) /\ (program \in REGISTRY => c.written = 5)
    BY <1>10, OutputNames DEF ExitsZero, Alive, REGISTRY
  <2>2. program \in REGISTRY => \A f \in Files : output_dir[f] = [by |-> a, whole |-> TRUE]
    BY <2>1, OutputNames DEF RunInv, Progress, Mine
  <2>3. [by |-> a, whole |-> TRUE] # None
    <3> DEFINE content == [by |-> a, whole |-> TRUE]
    <3>1. content \in [by : Attempts, whole : BOOLEAN]
      OBVIOUS
    <3> HIDE DEF content
    <3>2. content # None
      BY <3>1, HarnessAssumption
    <3> QED BY <3>2 DEF content
  <2>4. a \in Nat
    BY HarnessAssumption
  <2>5. program \in REGISTRY => Kept(a)
    BY <2>2, <2>3, <2>4 DEF Kept
  <2> QED BY <1>10, <2>1, <2>5, QuietExitStep DEF ExitsZero, sandbox, config, Results
<1>11. CASE Killed(a)
  <2>1. CASE UNCHANGED output_dir
    BY <1>6, <1>11, <2>1 DEF Killed, sandbox, config, Results
  <2>2. CASE c.written < Len(REQUIRED_OUTPUTS) /\ Put(a, REQUIRED_OUTPUTS[c.written + 1], FALSE)
    <3> DEFINE file == REQUIRED_OUTPUTS[c.written + 1]
    <3>1. c.written + 1 \in 1 .. 5
      BY <1>1, <2>2, OutputNames
    <3>2. file \in Files
      BY <1>2, <3>1
    <3>3. Put(a, file, FALSE)
      BY <2>2
    <3> HIDE DEF file
    <3>4. /\ output_dir' \in [Files -> Written \cup {None}]
          /\ \A f \in Files : \/ output_dir'[f] = output_dir[f]
                              \/ output_dir'[f] # None /\ output_dir'[f].by = a
      BY <3>2, <3>3, PutStep DEF RunInv
    <3> QED BY <1>11, <3>4, ExitStep DEF Killed, sandbox, config, Results
  <2> QED BY <1>11, <2>1, <2>2 DEF Killed
<1> QED BY <1>5, <1>7, <1>8, <1>9, <1>10, <1>11 DEF Harness

(* The steps of the runner. *)
LEMMA RunnerStep ==
  ASSUME RunInv, Run \/ RunCompletes \/ RunTimesOut
  PROVE  RunInv'
<1>1. Attempts = 1 .. MaxAttempts /\ MaxAttempts \in Nat
  BY HarnessAssumption
<1>2. ASSUME NEW a \in Attempts, NEW result \in Results,
             results' = [results EXCEPT ![a] = result],
             result = "0" => containers[a].stage = "exited" /\ containers[a].exit_code = "0",
             attempt' \in Nat, attempt' >= attempt, running' => attempt' \in Attempts,
             UNCHANGED <<program, containers, output_dir>>
      PROVE  RunInv'
  <2>1. RunType'
    BY <1>2 DEF RunInv, RunType
  <2>2. OneAlive'
    BY <1>1, <1>2 DEF RunInv, RunType, OneAlive, Alive
  <2>3. Progress'
    BY <1>2 DEF RunInv, RunType, Progress, Alive, Mine, Kept
  <2> QED BY <2>1, <2>2, <2>3 DEF RunInv
<1>3. CASE Run
  <2> DEFINE a == attempt + 1
  <2>1. a \in Attempts /\ attempt' = a /\ attempt \in Nat
    BY <1>1, <1>3 DEF Run, RunInv, RunType
  <2>2. ASSUME NEW result \in {"refused", "125"}, Returned(a, result), UNCHANGED containers
        PROVE  RunInv'
    <3>1. results' = [results EXCEPT ![a] = result] /\ ~running'
      BY <2>2 DEF Returned
    <3>2. /\ attempt' \in Nat /\ attempt' >= attempt
          /\ UNCHANGED <<program, containers, output_dir>>
      BY <1>3, <2>1, <2>2 DEF Run, config
    <3>3. result \in Results /\ result # "0"
      BY DEF Results
    <3> HIDE DEF a
    <3> QED BY <1>2, <2>1, <3>1, <3>2, <3>3
  <2>3. ASSUME \A b \in Attempts : ~Alive(b), Started(a)
        PROVE  RunInv'
    <3> DEFINE d == [containers[a] EXCEPT !.stage = "run"]
    <3>1. containers[a].stage = "absent" /\ containers[a].written = 0
      BY <2>1, <1>1 DEF RunInv, OneAlive
    <3>2. d \in Container /\ d.stage = "run" /\ d.written = 0
      BY <2>1, <3>1 DEF RunInv, RunType, Container
    <3>3. containers' = [containers EXCEPT ![a] = d]
      BY <2>3 DEF Started
    <3> HIDE DEF d
    <3>4. /\ containers'[a] = d /\ containers' \in [Attempts -> Container]
          /\ \A b \in Attempts \ {a} : containers'[b] = containers[b]
      BY <2>1, <3>2, <3>3 DEF RunInv, RunType
    <3>5. UNCHANGED <<program, results, output_dir>>
      BY <1>3, <2>3 DEF Run, Started, config
    <3>6. RunType'
      <4>1. \A b \in Attempts : containers'[b].stage = "exited" => containers'[b].exit_code \in Results
        BY <3>2, <3>4 DEF RunInv, RunType
      <4>2. attempt' \in Nat /\ attempt' \in Attempts
        BY <2>1
      <4> QED BY <3>4, <3>5, <4>1, <4>2 DEF RunInv, RunType
    <3>7. OneAlive'
      BY <1>1, <2>1, <2>3, <3>2, <3>4 DEF RunInv, OneAlive, Alive
    <3>8. Progress'
      BY <2>1, <2>3, <3>1, <3>2, <3>4, <3>5 DEF RunInv, Progress, Alive, Mine, Kept
    <3> QED BY <3>6, <3>7, <3>8 DEF RunInv
  <2> QED BY <1>3, <2>2, <2>3 DEF Run
<1>4. CASE RunCompletes
  <2>1. attempt \in Attempts /\ containers[attempt].exit_code \in Results
    BY <1>4 DEF RunCompletes, RunInv, RunType
  <2>2. /\ results' = [results EXCEPT ![attempt] = containers[attempt].exit_code]
        /\ containers[attempt].stage = "exited" /\ ~running'
        /\ UNCHANGED <<program, attempt, containers, output_dir>>
    BY <1>4 DEF RunCompletes, Returned, config
  <2>3. attempt' \in Nat /\ attempt' >= attempt
    BY <2>2 DEF RunInv, RunType
  <2> QED BY <1>2, <2>1, <2>2, <2>3
<1>5. CASE RunTimesOut
  <2>1. attempt \in Attempts /\ "timeout" \in Results
    BY <1>5 DEF RunTimesOut, RunInv, RunType, Results
  <2>2. /\ results' = [results EXCEPT ![attempt] = "timeout"] /\ ~running'
        /\ UNCHANGED <<program, attempt, containers, output_dir>>
    BY <1>5 DEF RunTimesOut, Returned, config
  <2>3. attempt' \in Nat /\ attempt' >= attempt
    BY <2>2 DEF RunInv, RunType
  <2> QED BY <1>2, <2>1, <2>2, <2>3
<1> QED BY <1>3, <1>4, <1>5

(* The invariant of the runs is inductive. The proxy's is needed for the   *)
(* number of the request a harness waits for.                              *)
LEMMA InitRunInv == Init => RunInv
<1> SUFFICES ASSUME Init
             PROVE  RunInv
  OBVIOUS
<1>1. NoContainer \in Container
  BY OutputNames DEF NoContainer, Container
<1>2. /\ attempt = 0 /\ ~running
      /\ \A a \in Attempts : results[a] = "none" /\ containers[a].stage = "absent"
                             /\ containers[a].written = 0
  BY DEF Init, NoContainer
<1>3. RunType
  BY <1>1, <1>2 DEF Init, RunType
<1>4. OneAlive /\ Progress
  BY <1>2 DEF OneAlive, Progress, Alive
<1> QED BY <1>3, <1>4 DEF RunInv

LEMMA NextKeepsRunInv ==
  ASSUME RunInv, ProxyInv, [Next]_vars
  PROVE  RunInv'
<1>1. ASSUME UNCHANGED <<config, sandbox, containers, output_dir>>
      PROVE  RunInv'
  BY <1>1 DEF config, sandbox, RunInv, RunType, OneAlive, Progress, Alive, Mine, Kept
<1>2. ASSUME Run \/ RunCompletes \/ RunTimesOut
      PROVE  RunInv'
  BY <1>2, RunnerStep
<1>3. ASSUME NEW a \in Attempts, Harness(a)
      PROVE  RunInv'
  BY <1>3, HarnessStep
<1> QED BY <1>1, <1>2, <1>3 DEF Next, Proxied, vars

(* sandbox.py and outputs.py: when a run has returned 0, no container of an*)
(* earlier one is alive; and a baseline's run has left whole outputs, which*)
(* only the files of a later run replace.  No word on the outputs of a     *)
(* participant's image, which the code does not look at.                   *)
THEOREM SuccessTheorem == Spec => []SuccessIsWhole
<1>1. RunInv /\ ProxyInv /\ [Next]_vars => RunInv'
  BY NextKeepsRunInv
<1>2. ASSUME RunInv PROVE SuccessIsWhole
  <2> SUFFICES ASSUME NEW a \in Attempts, results[a] = "0"
               PROVE  /\ \A b \in Attempts : b < a => ~Alive(b)
                      /\ program \in REGISTRY => Kept(a)
    BY DEF SuccessIsWhole, Kept
  <2>1. containers[a].stage = "exited" /\ containers[a].exit_code = "0"
    BY <1>2 DEF RunInv, Progress
  <2>2. ASSUME NEW b \in Attempts, b < a PROVE ~Alive(b)
    <3>1. a \in Nat /\ b \in Nat
      BY HarnessAssumption
    <3> QED BY <1>2, <2>1, <2>2, <3>1 DEF RunInv, OneAlive
  <2> QED BY <1>2, <2>1, <2>2 DEF RunInv, Progress
<1> QED BY <1>1, <1>2, InitRunInv, ProxyInvariant, PTL DEF Spec
=============================================================================
