------------------------------- MODULE Proxy --------------------------------
(***************************************************************************)
(* proxy/main.py and proxy/audit_log.py: the handler of                    *)
(* /v1/chat/completions.  Between two awaits it runs alone, so that it has *)
(* two steps: from the body it received to the call of OpenRouter, and     *)
(* from OpenRouter's answer to its own.  In between, handlers of other     *)
(* requests run, their callers give up, and the process may be restarted.  *)
(*                                                                         *)
(* A request_id is the request's place in the order of arrival; the audit  *)
(* log is the set of its lines.                                            *)
(***************************************************************************)
EXTENDS Policy, Naturals, Sequences

CONSTANTS Attempts      \* the runs of a harness, which make the requests

VARIABLES
  requests,     \* every request the proxy ever got
  audit,        \* the lines of the audit log
  has_key       \* whether OPENROUTER_KEY is set

proxy_vars == <<requests, audit, has_key>>

Answers  == {"completion", "malformed", "error_status", "not_json"}
Statuses == {"200", "error"}    \* for its caller, any other than 200 is an error

NoBody ==
  [kind |-> "object", model |-> "absent", forbidden |-> "absent",
   plugins |-> [shape |-> "absent", entries |-> {}],
   messages |-> [shape |-> "absent", entries |-> {}], provider |-> "absent"]

Requests ==
  [run : Attempts, body : Body, stage : {"received", "upstream", "finished"},
   answer : Answers \cup {"none"}, status : Statuses \cup {"none"}]

AuditRecord ==
  [request_id : Nat, direction : {"request", "response", "violation"}, violation : BOOLEAN]

InitProxy == requests = <<>> /\ audit = {} /\ has_key \in BOOLEAN

(* A harness posts a request. *)
Post(run, body) ==
  /\ requests' = Append(requests, [run |-> run, body |-> body, stage |-> "received",
                                   answer |-> "none", status |-> "none"])
  /\ UNCHANGED <<audit, has_key>>

Line(r, direction, violation) ==
  [request_id |-> r, direction |-> direction, violation |-> violation]

Record(r, direction, violation) == audit' = audit \cup {Line(r, direction, violation)}

(* The handler's end: what it knew of the request is gone. *)
Ended(request, status) ==
  [request EXCEPT !.body = NoBody, !.stage = "finished", !.answer = "none", !.status = status]

Reply(r, status) == requests' = [requests EXCEPT ![r] = Ended(@, status)]

(* chat_completions up to its call of OpenRouter: an exception nothing     *)
(* catches, be it one of the audit log's own write (status 500), a         *)
(* violation of the policy (400), the call, or no key to make it (503).    *)
Receive(r) ==
  LET body == requests[r].body IN
  /\ requests[r].stage = "received"
  /\ \/ Reply(r, "error") /\ UNCHANGED audit
     \/ /\ body.kind # "not_json" /\ ~CannotBeHashed(body) /\ ~Allowed(body)
        /\ Record(r, "violation", TRUE) /\ Reply(r, "error")
     \/ /\ ~CannotBeHashed(body) /\ Allowed(body)
        /\ Record(r, "request", FALSE)
        /\ IF has_key
             THEN requests' = [requests EXCEPT ![r].stage = "upstream",
                                               ![r].body = Normalized(body)]
             ELSE Reply(r, "error")
  /\ UNCHANGED has_key

(* OpenRouter answers. *)
Upstream(r, answer) ==
  /\ requests[r].stage = "upstream" /\ requests[r].answer = "none"
  /\ requests' = [requests EXCEPT ![r].answer = answer]
  /\ UNCHANGED <<audit, has_key>>

(* A plausible bug: the call of OpenRouter has no timeout. *)
FinishOnAnswer(r) ==
  /\ requests[r].stage = "upstream" /\ requests[r].answer # "none"
  /\ Record(r, "response", requests[r].answer # "completion") /\ Reply(r, "200")
  /\ UNCHANGED has_key

(* A plausible bug: a failure of the audit log's write is swallowed. *)
FinishUnlogged(r) ==
  /\ requests[r].stage = "upstream"
  /\ \/ requests[r].answer \in {"none", "not_json"} /\ Reply(r, "error")
     \/ requests[r].answer = "completion" /\ Reply(r, "200")
  /\ UNCHANGED <<audit, has_key>>

(* The rest of chat_completions: the call failed or timed out or its       *)
(* answer is not JSON (502), the answer is an error to pass on or a        *)
(* completion, or an exception (500): of _parse_completion, for JSON of    *)
(* another shape, of the audit log's write, or after it of JSONResponse,   *)
(* which refuses a NaN.                                                    *)
Finish(r) ==
  LET answer == requests[r].answer IN
  /\ requests[r].stage = "upstream"
  /\ \/ answer \in {"none", "not_json"} /\ Reply(r, "error") /\ UNCHANGED audit
     \/ answer = "error_status" /\ Record(r, "response", TRUE) /\ Reply(r, "error")
     \/ answer = "completion" /\ Record(r, "response", FALSE)
          /\ \E status \in Statuses : Reply(r, status)
     \/ answer \in {"error_status", "completion", "malformed"}
          /\ Reply(r, "error") /\ UNCHANGED audit
  /\ UNCHANGED has_key

(* The proxy is restarted: its handlers are gone, their connections cut. *)
Restart ==
  /\ \E r \in DOMAIN requests : requests[r].stage # "finished"
  /\ requests' = [r \in DOMAIN requests |->
                    IF requests[r].stage = "finished" THEN requests[r]
                                                      ELSE Ended(requests[r], "error")]
  /\ UNCHANGED <<audit, has_key>>

Handle(run) ==
  \E r \in DOMAIN requests : requests[r].run = run /\ (Receive(r) \/ Finish(r))

ProxyOrUpstream ==
  \/ \E run \in Attempts : Handle(run)
  \/ \E r \in DOMAIN requests, answer \in Answers : Upstream(r, answer)
  \/ Restart

-----------------------------------------------------------------------------
(* Properties.                                                             *)

TypeProxy ==
  /\ requests \in Seq(Requests)
  /\ audit \subseteq AuditRecord
  /\ \A rec \in audit : rec.request_id \in DOMAIN requests
  /\ has_key \in BOOLEAN

(* policy.py, main.py: a request OpenRouter is asked is within the rules   *)
(* of the time capsule, whatever the harness posted, and the log has one   *)
(* line for it: that it was asked, and none that it was refused.           *)
UpstreamIsCapsuleAndAudited ==
  \A r \in DOMAIN requests :
    requests[r].stage = "upstream" =>
      /\ InTimeCapsule(requests[r].body)
      /\ {rec \in audit : rec.request_id = r} = {Line(r, "request", FALSE)}

(* What the audit log may say of a request. *)
Stories(r) ==
  {{}, {Line(r, "violation", TRUE)}} \cup
  {{Line(r, "request", FALSE)} \cup answer :
     answer \in {{}, {Line(r, "response", TRUE)}, {Line(r, "response", FALSE)}}}

Completed(r) == {Line(r, "request", FALSE), Line(r, "response", FALSE)}

(* audit_log.py, "Each model call is recorded": the log tells a consistent *)
(* story of every request, however handlers were interleaved, failed or    *)
(* were cut off: refused or asked, never both, no answer that was not      *)
(* asked for and no two of them.  A caller that got a completion is on     *)
(* record with it.                                                         *)
LogTellsTheStory ==
  \A r \in DOMAIN requests :
    LET lines == {rec \in audit : rec.request_id = r} IN
    lines \in Stories(r) /\ (requests[r].status = "200" => lines = Completed(r))

(* A request that reached the proxy is not pending for ever: the call of   *)
(* OpenRouter times out.                                                   *)
Pending(run) ==
  \E r \in DOMAIN requests : requests[r].run = run /\ requests[r].stage # "finished"

HandlersEnd == \A run \in Attempts : Pending(run) ~> ~Pending(run)
=============================================================================
