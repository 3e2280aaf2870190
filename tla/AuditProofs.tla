---------------------------- MODULE AuditProofs -----------------------------
(***************************************************************************)
(* What is proved of HarnessRun with the two invariants of HarnessProofs:  *)
(* its types, among them how many calls a baseline makes, and that the     *)
(* trace a run leaves in its output directory counts the completions the   *)
(* audit log has for it.                                                   *)
(***************************************************************************)
EXTENDS HarnessProofs, FiniteSetTheorems

-----------------------------------------------------------------------------
(* What the proxy's steps do to requests and log, seen from a harness.     *)

(* A finished request stays as it is, and new lines of the log are of      *)
(* requests that were not finished.                                        *)
Onward ==
  /\ Len(requests) <= Len(requests')
  /\ \A r \in 1 .. Len(requests) :
       /\ requests'[r].run = requests[r].run
       /\ requests[r].stage = "finished" => requests'[r] = requests[r]
  /\ audit \subseteq audit'
  /\ \A rec \in audit' \ audit :
       rec.request_id \in 1 .. Len(requests) /\ requests[rec.request_id].stage # "finished"

LEMMA RecordedOnward ==
  ASSUME NEW r \in 1 .. Len(requests), requests[r].stage # "finished",
         requests \in Seq(Requests), NEW q \in Requests, q.run = requests[r].run,
         requests' = [requests EXCEPT ![r] = q],
         \/ UNCHANGED audit
         \/ \E direction \in {"request", "response", "violation"}, violation \in BOOLEAN :
              Record(r, direction, violation)
  PROVE  /\ Onward /\ Len(requests') = Len(requests)
         /\ audit \subseteq AuditRecord => audit' \subseteq AuditRecord
         /\ IsFiniteSet(audit) => IsFiniteSet(audit')
<1>1. /\ Len(requests') = Len(requests) /\ requests'[r] = q
      /\ \A s \in 1 .. Len(requests) : s # r => requests'[s] = requests[s]
  OBVIOUS
<1>2. CASE UNCHANGED audit
  BY <1>1, <1>2 DEF Onward
<1>3. CASE \E direction \in {"request", "response", "violation"}, violation \in BOOLEAN :
             Record(r, direction, violation)
  <2>1. PICK direction \in {"request", "response", "violation"}, violation \in BOOLEAN :
          audit' = audit \cup {Line(r, direction, violation)}
    BY <1>3 DEF Record
  <2> DEFINE line == Line(r, direction, violation)
  <2>2. line \in AuditRecord /\ line.request_id = r
    BY DEF Line, AuditRecord
  <2> HIDE DEF line
  <2>3. audit' = audit \cup {line}
    BY <2>1 DEF line
  <2>4. IsFiniteSet(audit) => IsFiniteSet(audit')
    BY <2>3, FS_AddElement
  <2> QED BY <1>1, <2>2, <2>3, <2>4 DEF Onward
<1> QED BY <1>2, <1>3

LEMMA RepliedOnward ==
  ASSUME ProxyInv, NEW r \in DOMAIN requests, requests[r].stage # "finished",
         NEW status \in Statuses, Reply(r, status),
         \/ UNCHANGED audit
         \/ \E direction \in {"request", "response", "violation"}, violation \in BOOLEAN :
              Record(r, direction, violation)
  PROVE  /\ Onward /\ Len(requests') = Len(requests)
         /\ audit \subseteq AuditRecord => audit' \subseteq AuditRecord
         /\ IsFiniteSet(audit) => IsFiniteSet(audit')
<1> DEFINE q == Ended(requests[r], status)
<1>1. r \in 1 .. Len(requests) /\ requests[r] \in Requests /\ requests \in Seq(Requests)
  BY RequestType DEF ProxyInv
<1>2. q \in Requests
  BY <1>1, EndedIsRequest
<1>3. q.run = requests[r].run
  BY <1>1 DEF Ended, Requests
<1>4. requests' = [requests EXCEPT ![r] = q]
  BY DEF Reply
<1> HIDE DEF q
<1> QED BY <1>1, <1>2, <1>3, <1>4, RecordedOnward

LEMMA ProxyOnward ==
  ASSUME ProxyInv, ProxyOrUpstream
  PROVE  /\ Onward /\ Len(requests') = Len(requests) /\ has_key' = has_key
         /\ audit \subseteq AuditRecord => audit' \subseteq AuditRecord
         /\ IsFiniteSet(audit) => IsFiniteSet(audit')
<1>1. ASSUME NEW r \in DOMAIN requests, Receive(r)
      PROVE  /\ Onward /\ Len(requests') = Len(requests) /\ has_key' = has_key
             /\ audit \subseteq AuditRecord => audit' \subseteq AuditRecord
             /\ IsFiniteSet(audit) => IsFiniteSet(audit')
  <2> USE <1>1
  <2> DEFINE body == requests[r].body
             q == [requests[r] EXCEPT !.stage = "upstream", !.body = Normalized(body)]
  <2>1. /\ requests[r].stage # "finished" /\ has_key' = has_key /\ "error" \in Statuses
        /\ r \in 1 .. Len(requests) /\ requests[r] \in Requests /\ requests \in Seq(Requests)
    BY RequestType DEF Receive, Statuses, ProxyInv
  <2>2. CASE Reply(r, "error") /\ UNCHANGED audit
    BY <2>1, <2>2, RepliedOnward
  <2>3. CASE Record(r, "violation", TRUE) /\ Reply(r, "error")
    BY <2>1, <2>3, RepliedOnward
  <2>4. CASE Record(r, "request", FALSE) /\ Reply(r, "error")
    BY <2>1, <2>4, RepliedOnward
  <2>5. CASE /\ Allowed(body) /\ Record(r, "request", FALSE)
             /\ requests' = [requests EXCEPT ![r].stage = "upstream", ![r].body = Normalized(body)]
    <3>1. Normalized(body) \in Body
      BY <2>5, RequestType, EnforceRequest
    <3>2. q \in Requests /\ q.run = requests[r].run
      BY <2>1, <3>1 DEF Requests
    <3>3. requests' = [requests EXCEPT ![r] = q]
      BY <2>1, <2>5 DEF Requests
    <3> HIDE DEF q
    <3> QED BY <2>1, <2>5, <3>2, <3>3, RecordedOnward
  <2> QED BY <2>2, <2>3, <2>4, <2>5 DEF Receive
<1>2. ASSUME NEW r \in DOMAIN requests, Finish(r)
      PROVE  /\ Onward /\ Len(requests') = Len(requests) /\ has_key' = has_key
             /\ audit \subseteq AuditRecord => audit' \subseteq AuditRecord
             /\ IsFiniteSet(audit) => IsFiniteSet(audit')
  <2> USE <1>2
  <2>1. requests[r].stage # "finished" /\ has_key' = has_key /\ "error" \in Statuses
    BY DEF Finish, Statuses
  <2>2. PICK status \in Statuses : Reply(r, status)
    BY <2>1 DEF Finish
  <2>3. \/ UNCHANGED audit
        \/ \E direction \in {"request", "response", "violation"}, violation \in BOOLEAN :
             Record(r, direction, violation)
    BY DEF Finish
  <2> QED BY <2>1, <2>2, <2>3, RepliedOnward
<1>3. ASSUME NEW r \in DOMAIN requests, NEW answer \in Answers, Upstream(r, answer)
      PROVE  /\ Onward /\ Len(requests') = Len(requests) /\ has_key' = has_key
             /\ audit \subseteq AuditRecord => audit' \subseteq AuditRecord
             /\ IsFiniteSet(audit) => IsFiniteSet(audit')
  <2> USE <1>3
  <2> DEFINE q == [requests[r] EXCEPT !.answer = answer]
  <2>1. r \in 1 .. Len(requests) /\ requests[r] \in Requests /\ requests \in Seq(Requests)
    BY RequestType DEF ProxyInv
  <2>2. q \in Requests /\ q.run = requests[r].run
    BY <2>1 DEF Requests
  <2>3. /\ requests[r].stage # "finished" /\ has_key' = has_key /\ UNCHANGED audit
        /\ requests' = [requests EXCEPT ![r] = q]
    BY <2>1 DEF Upstream, Requests
  <2> HIDE DEF q
  <2> QED BY <2>1, <2>2, <2>3, RecordedOnward
<1>4. CASE Restart
  <2>1. /\ Len(requests') = Len(requests) /\ has_key' = has_key /\ audit' = audit
        /\ \A r \in 1 .. Len(requests) :
             requests'[r] = IF requests[r].stage = "finished" THEN requests[r]
                                                              ELSE Ended(requests[r], "error")
    BY <1>4 DEF Restart, ProxyInv
  <2>2. ASSUME NEW r \in 1 .. Len(requests)
        PROVE  Ended(requests[r], "error").run = requests[r].run
    <3>1. requests[r] \in Requests
      BY DEF ProxyInv
    <3> QED BY <3>1 DEF Ended, Requests
  <2>3. Len(requests) \in Nat
    BY DEF ProxyInv
  <2> QED BY <2>1, <2>2, <2>3 DEF Onward
<1> QED BY <1>1, <1>2, <1>3, <1>4 DEF ProxyOrUpstream, Handle

-----------------------------------------------------------------------------
(* The tally: what the audit log has of an attempt, and what it counted.   *)

(* The completions of an attempt, all of them or all but those of a call.  *)
Answered(a) ==
  {rec \in audit : /\ rec.direction = "response" /\ ~rec.violation
                   /\ requests[rec.request_id].run = a}

AnsweredBut(a, r) == {rec \in Answered(a) : rec.request_id # r}

Quiet(a) ==
  \A r \in 1 .. Len(requests) : requests[r].run = a => requests[r].stage = "finished"

Counted(a) == Quiet(a) /\ Cardinality(Answered(a)) = Len(containers[a].trace)

HasTrace(a) ==
  LET trace == output_dir["trace.jsonl"] IN trace # None /\ trace.whole /\ trace.by = a

Tally(a) ==
  LET c == containers[a] IN
  /\ c.stage = "absent" =>
       c.trace = <<>> /\ \A r \in 1 .. Len(requests) : requests[r].run # a
  /\ c.stage = "run" => Counted(a)
  /\ c.stage = "wait" =>
       /\ c.call \in 1 .. Len(requests) /\ requests[c.call].run = a
       /\ c.written = 0
       /\ \A r \in 1 .. Len(requests) :
            requests[r].run = a /\ r # c.call => requests[r].stage = "finished"
       /\ Cardinality(AnsweredBut(a, c.call)) = Len(c.trace)
  /\ c.stage = "run" /\ c.written > 0 => NextCall(program, c) = {}
  /\ HasTrace(a) =>
       /\ Counted(a)
       /\ c.stage = "exited" \/ (c.stage = "run" /\ NextCall(program, c) = {})

AuditInv == IsFiniteSet(audit) /\ \A a \in Attempts : Tally(a)

(* An attempt that a step leaves alone. *)
LEMMA TallyStays ==
  ASSUME ProxyInv, Onward, NEW b \in Attempts, Tally(b),
         containers'[b] = containers[b], program' = program,
         \A r \in Len(requests) + 1 .. Len(requests') : requests'[r].run # b,
         Len(requests') \in Nat,
         HasTrace(b)' => HasTrace(b)
  PROVE  Tally(b)'
<1>1. Len(requests) \in Nat /\ \A rec \in audit : rec.request_id \in 1 .. Len(requests)
  BY DEF ProxyInv
<1>2. ASSUME NEW r \in 1 .. Len(requests'), requests'[r].run = b
      PROVE  r \in 1 .. Len(requests) /\ requests[r].run = b
  <2>1. r \in 1 .. Len(requests) \/ r \in Len(requests) + 1 .. Len(requests')
    BY <1>1
  <2> QED BY <1>2, <2>1 DEF Onward
<1>3. Quiet(b) => Quiet(b)'
  BY <1>2 DEF Quiet, Onward
<1>4. ASSUME NEW rec \in audit' \ audit
      PROVE  /\ rec.request_id \in 1 .. Len(requests)
             /\ requests[rec.request_id].stage # "finished"
             /\ requests'[rec.request_id].run = requests[rec.request_id].run
  BY <1>4 DEF Onward
<1>5. \A rec \in audit : rec \in audit' /\ requests'[rec.request_id].run = requests[rec.request_id].run
  BY <1>1 DEF Onward
<1>6. Quiet(b) => Answered(b)' = Answered(b)
  BY <1>4, <1>5 DEF Quiet, Answered
<1>7. Counted(b) => Counted(b)'
  BY <1>3, <1>6 DEF Counted
<1>8. containers[b].stage = "wait" =>
        /\ containers[b].call \in 1 .. Len(requests')
        /\ requests'[containers[b].call].run = b
        /\ \A r \in 1 .. Len(requests') :
             requests'[r].run = b /\ r # containers[b].call => requests'[r].stage = "finished"
        /\ Cardinality(AnsweredBut(b, containers[b].call)') = Len(containers[b].trace)
  <2> SUFFICES ASSUME containers[b].stage = "wait"
               PROVE  /\ containers[b].call \in 1 .. Len(requests')
                      /\ requests'[containers[b].call].run = b
                      /\ \A r \in 1 .. Len(requests') :
                           requests'[r].run = b /\ r # containers[b].call => requests'[r].stage = "finished"
                      /\ Cardinality(AnsweredBut(b, containers[b].call)') = Len(containers[b].trace)
    OBVIOUS
  <2> DEFINE call == containers[b].call
  <2>1. /\ call \in 1 .. Len(requests) /\ requests[call].run = b
        /\ \A r \in 1 .. Len(requests) :
             requests[r].run = b /\ r # call => requests[r].stage = "finished"
        /\ Cardinality(AnsweredBut(b, call)) = Len(containers[b].trace)
    BY DEF Tally
  <2>2. call \in 1 .. Len(requests') /\ requests'[call].run = b
    BY <1>1, <2>1 DEF Onward
  <2>3. \A r \in 1 .. Len(requests') :
          requests'[r].run = b /\ r # call => requests'[r].stage = "finished"
    BY <1>2, <2>1 DEF Onward
  <2>4. {rec \in Answered(b)' : rec.request_id # call} = AnsweredBut(b, call)
    BY <1>4, <1>5, <2>1 DEF Answered, AnsweredBut
  <2>5. AnsweredBut(b, containers[b].call)' = {rec \in Answered(b)' : rec.request_id # call}
    BY DEF AnsweredBut
  <2> QED BY <2>1, <2>2, <2>3, <2>4, <2>5
<1>9. containers[b].stage = "absent" => \A r \in 1 .. Len(requests') : requests'[r].run # b
  BY <1>2 DEF Tally
<1> QED BY <1>7, <1>8, <1>9 DEF Tally

(* The attempts beside the one that moves. *)
LEMMA OtherTallies ==
  ASSUME ProxyInv, Onward, AuditInv, NEW a \in Attempts, program' = program,
         \A b \in Attempts \ {a} : containers'[b] = containers[b],
         \A r \in Len(requests) + 1 .. Len(requests') : requests'[r].run = a,
         Len(requests') \in Nat,
         \/ output_dir'["trace.jsonl"] = output_dir["trace.jsonl"]
         \/ output_dir'["trace.jsonl"].by = a
  PROVE  \A b \in Attempts \ {a} : Tally(b)'
<1> SUFFICES ASSUME NEW b \in Attempts \ {a}
             PROVE  Tally(b)'
  OBVIOUS
<1>1. HasTrace(b)' => HasTrace(b)
  BY DEF HasTrace
<1>2. Tally(b)
  BY DEF AuditInv
<1> QED BY <1>1, <1>2, TallyStays

(* A step of an attempt that leaves the proxy alone. *)
LEMMA TallyOf ==
  ASSUME ProxyInv, AuditInv, NEW a \in Attempts, NEW c, UNCHANGED proxy_vars,
         program' = program, containers \in [Attempts -> Container],
         containers' = [containers EXCEPT ![a] = c],
         \/ output_dir'["trace.jsonl"] = output_dir["trace.jsonl"]
         \/ output_dir'["trace.jsonl"].by = a,
         c.stage \in {"run", "exited"},
         c.stage = "run" => Quiet(a) /\ Cardinality(Answered(a)) = Len(c.trace),
         c.stage = "run" /\ c.written > 0 => NextCall(program, c) = {},
         HasTrace(a)' =>
           /\ Quiet(a) /\ Cardinality(Answered(a)) = Len(c.trace)
           /\ c.stage = "exited" \/ NextCall(program, c) = {}
  PROVE  AuditInv'
<1>1. /\ requests' = requests /\ audit' = audit /\ Len(requests) \in Nat
      /\ containers'[a] = c /\ \A b \in Attempts \ {a} : containers'[b] = containers[b]
  BY DEF proxy_vars, ProxyInv
<1>2. Onward
  BY <1>1 DEF Onward
<1>3. \A b \in Attempts \ {a} : Tally(b)'
  BY <1>1, <1>2, OtherTallies
<1>4. Counted(a)' <=> Quiet(a) /\ Cardinality(Answered(a)) = Len(c.trace)
  BY <1>1 DEF Counted, Quiet, Answered
<1>5. Tally(a)'
  BY <1>1, <1>4 DEF Tally
<1> QED BY <1>1, <1>3, <1>5 DEF AuditInv

LEMMA ExitTally ==
  ASSUME ProxyInv, AuditInv, RunInv, NEW a \in Attempts, Alive(a), NEW code, Exit(a, code),
         UNCHANGED proxy_vars, program' = program, HasTrace(a)' => HasTrace(a),
         \/ output_dir'["trace.jsonl"] = output_dir["trace.jsonl"]
         \/ output_dir'["trace.jsonl"].by = a
  PROVE  AuditInv'
<1> DEFINE c == [stage |-> "exited", call |-> 0, trace |-> containers[a].trace,
                 stop |-> FALSE, written |-> 0, exit_code |-> code]
<1>1. c.stage = "exited" /\ c.trace = containers[a].trace
  OBVIOUS
<1>2. containers' = [containers EXCEPT ![a] = c] /\ containers \in [Attempts -> Container]
  BY DEF Exit, RunInv, RunType
<1> HIDE DEF c
<1>3. HasTrace(a) => Quiet(a) /\ Cardinality(Answered(a)) = Len(c.trace)
  BY <1>1 DEF AuditInv, Tally, Counted
<1> QED BY <1>1, <1>2, <1>3, TallyOf

(* The call that returned was on record with one line more. *)
LEMMA OneMoreAnswer ==
  ASSUME ProxyInv, IsFiniteSet(audit), NEW a \in Attempts, NEW call \in 1 .. Len(requests),
         requests[call].run = a, requests[call].status = "200"
  PROVE  Cardinality(Answered(a)) = Cardinality(AnsweredBut(a, call)) + 1
<1> DEFINE line == Line(call, "response", FALSE)
           others == AnsweredBut(a, call)
<1>1. Lines(call) = {Line(call, "request", FALSE), line}
  BY DEF ProxyInv, Told, Completed
<1>2. /\ Line(call, "request", FALSE).direction = "request" /\ line.direction = "response"
      /\ ~line.violation /\ line.request_id = call /\ line \in audit
  BY <1>1 DEF Line, Lines
<1>3. \A rec \in Answered(a) : rec.request_id = call => rec = line
  BY <1>1, <1>2 DEF Answered, Lines
<1>4. line \in Answered(a) /\ line \notin others
  BY <1>2 DEF Answered, AnsweredBut
<1>5. Answered(a) = others \cup {line}
  BY <1>3, <1>4 DEF AnsweredBut
<1>6. IsFiniteSet(others)
  BY FS_Subset DEF AnsweredBut, Answered
<1> HIDE DEF line, others
<1>7. Cardinality(others \cup {line}) = Cardinality(others) + 1
  BY <1>4, <1>6, FS_AddElement
<1> QED BY <1>5, <1>7 DEF others

LEMMA ChatTally ==
  ASSUME ProxyInv, RunInv, AuditInv, NEW a \in Attempts, Chat(a)
  PROVE  AuditInv'
<1> DEFINE c == containers[a]
           call == Len(requests) + 1
           d == [c EXCEPT !.stage = "wait", !.call = call]
<1>1. c \in Container /\ containers \in [Attempts -> Container] /\ call \in Nat
      /\ Len(requests) \in Nat /\ c.written \in 0 .. 5
  BY OutputNames DEF RunInv, RunType, Container, ProxyInv
<1>2. /\ c.stage = "run" /\ NextCall(program, c) # {} /\ program' = program
      /\ output_dir' = output_dir /\ audit' = audit
  BY DEF Chat, Post, config
<1>3. Counted(a) /\ c.written = 0 /\ ~HasTrace(a)
  BY <1>1, <1>2 DEF AuditInv, Tally
<1>4. d.stage = "wait" /\ d.call = call /\ d.trace = c.trace /\ d.written = 0
  BY <1>1, <1>3 DEF Container
<1>5. containers' = [containers EXCEPT ![a] = d]
  BY DEF Chat
<1> HIDE DEF d
<1>6. containers'[a] = d /\ \A b \in Attempts \ {a} : containers'[b] = containers[b]
  BY <1>1, <1>5
<1>7. /\ Len(requests') = call /\ requests'[call].run = a
      /\ \A r \in 1 .. Len(requests) : requests'[r] = requests[r]
  <2>1. PICK body \in BodiesOf(program) : Post(a, body)
    BY DEF Chat
  <2> DEFINE q == [run |-> a, body |-> body, stage |-> "received",
                   answer |-> "none", status |-> "none"]
  <2>2. requests' = Append(requests, q) /\ q.run = a
    BY <2>1 DEF Post
  <2> HIDE DEF q
  <2> QED BY <2>2 DEF ProxyInv
<1>8. Onward /\ Len(requests') \in Nat /\ \A r \in Len(requests) + 1 .. Len(requests') : requests'[r].run = a
  BY <1>1, <1>2, <1>7 DEF Onward
<1>9. \A b \in Attempts \ {a} : Tally(b)'
  BY <1>2, <1>6, <1>8, OtherTallies
<1>10. Tally(a)'
  <2>1. ASSUME NEW r \in 1 .. Len(requests'), requests'[r].run = a, r # call
        PROVE  requests'[r].stage = "finished"
    <3>1. r \in 1 .. Len(requests)
      BY <1>1, <1>7, <2>1
    <3> QED BY <1>3, <1>7, <2>1, <3>1 DEF Counted, Quiet
  <2>2. {rec \in Answered(a)' : rec.request_id # call} = Answered(a)
    <3>1. \A rec \in audit : rec.request_id \in 1 .. Len(requests) /\ rec.request_id # call
      BY <1>1 DEF ProxyInv
    <3> QED BY <1>2, <1>7, <3>1 DEF Answered
  <2>3. AnsweredBut(a, containers[a].call)' = {rec \in Answered(a)' : rec.request_id # call}
    BY <1>4, <1>6 DEF AnsweredBut
  <2>4. Cardinality(AnsweredBut(a, containers[a].call)') = Len(d.trace)
    BY <1>3, <1>4, <2>2, <2>3 DEF Counted
  <2>5. ~HasTrace(a)'
    BY <1>2, <1>3 DEF HasTrace
  <2>6. call \in 1 .. Len(requests')
    BY <1>1, <1>7
  <2> QED BY <1>4, <1>6, <1>7, <2>1, <2>4, <2>5, <2>6 DEF Tally
<1> QED BY <1>2, <1>9, <1>10 DEF AuditInv

LEMMA ChatReturnsTally ==
  ASSUME ProxyInv, RunInv, AuditInv, NEW a \in Attempts, ChatReturns(a)
  PROVE  AuditInv'
<1> DEFINE c == containers[a]
<1>1. c \in Container /\ containers \in [Attempts -> Container]
  BY DEF RunInv, RunType
<1>2. /\ c.stage = "wait" /\ requests[c.call].stage = "finished" /\ UNCHANGED proxy_vars
      /\ program' = program /\ output_dir' = output_dir
  BY DEF ChatReturns, config
<1>3. ~HasTrace(a) /\ ~HasTrace(a)'
  BY <1>2 DEF AuditInv, Tally, HasTrace
<1>4. ASSUME Exit(a, "1")
      PROVE  AuditInv'
  BY <1>2, <1>3, <1>4, ExitTally DEF Alive
<1>5. ASSUME requests[c.call].status = "200",
             NEW purpose \in NextCall(program, c), NEW verdict \in BOOLEAN,
             containers' = [containers EXCEPT ![a].stage = "run",
                              ![a].trace = Append(@, purpose), ![a].stop = verdict]
      PROVE  AuditInv'
  <2> DEFINE d == [c EXCEPT !.stage = "run", !.trace = Append(@, purpose), !.stop = verdict]
  <2>1. c.trace \in Seq(Purposes) /\ purpose \in Purposes
    BY <1>1, NextCallType DEF Container
  <2>2. Len(Append(c.trace, purpose)) = Len(c.trace) + 1
    BY <2>1
  <2>3. /\ c.call \in 1 .. Len(requests) /\ requests[c.call].run = a /\ c.written = 0
        /\ \A r \in 1 .. Len(requests) :
             requests[r].run = a /\ r # c.call => requests[r].stage = "finished"
        /\ Cardinality(AnsweredBut(a, c.call)) = Len(c.trace) /\ IsFiniteSet(audit)
    BY <1>2 DEF AuditInv, Tally
  <2>4. d.stage = "run" /\ d.trace = Append(c.trace, purpose) /\ d.written = 0
    BY <1>1, <2>3 DEF Container
  <2>5. containers' = [containers EXCEPT ![a] = d]
    BY <1>5
  <2> HIDE DEF d
  <2>6. Cardinality(Answered(a)) = Len(d.trace)
    BY <1>5, <2>2, <2>3, <2>4, OneMoreAnswer
  <2>7. Quiet(a)
    BY <1>2, <2>3 DEF Quiet
  <2>8. d.stage \in {"run", "exited"} /\ ~(d.written > 0)
    BY <2>4
  <2>9. output_dir'["trace.jsonl"] = output_dir["trace.jsonl"]
    BY <1>2
  <2> QED BY <1>1, <1>2, <1>3, <2>5, <2>6, <2>7, <2>8, <2>9, TallyOf
<1> QED BY <1>4, <1>5 DEF ChatReturns

LEMMA WriteFileTally ==
  ASSUME ProxyInv, RunInv, AuditInv, NEW a \in Attempts, WriteFile(a)
  PROVE  AuditInv'
<1> DEFINE c == containers[a]
           d == [c EXCEPT !.written = @ + 1]
<1>1. /\ c \in Container /\ containers \in [Attempts -> Container] /\ c.written \in 0 .. 5
      /\ "trace.jsonl" \in Files
  BY OutputNames DEF RunInv, RunType, Container, Files, REQUIRED_OUTPUTS
<1>2. /\ c.stage = "run" /\ NextCall(program, c) = {} /\ UNCHANGED proxy_vars /\ program' = program
      /\ containers' = [containers EXCEPT ![a] = d] /\ c.written < 5
      /\ Put(a, REQUIRED_OUTPUTS[c.written + 1], TRUE)
  BY OutputNames DEF WriteFile, config
<1>3. d.stage = "run" /\ d.trace = c.trace /\ d.stop = c.stop
  BY <1>1, <1>2 DEF Container
<1> HIDE DEF d
<1>4. NextCall(program, d) = {}
  BY <1>2, <1>3 DEF NextCall
<1>5. Quiet(a) /\ Cardinality(Answered(a)) = Len(d.trace)
  BY <1>2, <1>3 DEF AuditInv, Tally, Counted
<1>6. \/ output_dir'["trace.jsonl"] = output_dir["trace.jsonl"]
      \/ output_dir'["trace.jsonl"].by = a
  <2> DEFINE file == REQUIRED_OUTPUTS[c.written + 1]
  <2>1. c.written + 1 \in 1 .. 5
    BY <1>1, <1>2
  <2>2. file \in Files /\ Put(a, file, TRUE)
    BY <1>2, <2>1, OutputNames
  <2> HIDE DEF file
  <2>3. /\ output_dir'[file].by = a
        /\ \A f \in Files \ {file} : output_dir'[f] = output_dir[f]
    BY <2>2, PutStep DEF RunInv
  <2> QED BY <1>1, <2>3
<1> QED BY <1>1, <1>2, <1>3, <1>4, <1>5, <1>6, TallyOf

LEMMA KilledTally ==
  ASSUME ProxyInv, RunInv, AuditInv, NEW a \in Attempts, Killed(a)
  PROVE  AuditInv'
<1> DEFINE c == containers[a]
<1>1. Alive(a) /\ Exit(a, "137") /\ UNCHANGED proxy_vars /\ program' = program
  BY DEF Killed, config
<1>2. CASE UNCHANGED output_dir
  <2>1. HasTrace(a)' => HasTrace(a)
    BY <1>2 DEF HasTrace
  <2> QED BY <1>1, <1>2, <2>1, ExitTally
<1>3. CASE c.written < Len(REQUIRED_OUTPUTS) /\ Put(a, REQUIRED_OUTPUTS[c.written + 1], FALSE)
  <2> DEFINE file == REQUIRED_OUTPUTS[c.written + 1]
  <2>1. c.written \in 0 .. 5 /\ "trace.jsonl" \in Files
    BY OutputNames DEF RunInv, RunType, Container, Files, REQUIRED_OUTPUTS
  <2>2. c.written + 1 \in 1 .. 5
    BY <1>3, <2>1, OutputNames
  <2>3. file \in Files /\ Put(a, file, FALSE)
    BY <1>3, <2>2, OutputNames
  <2> HIDE DEF file
  <2>4. /\ output_dir'[file] = [by |-> a, whole |-> FALSE]
        /\ \A f \in Files \ {file} : output_dir'[f] = output_dir[f]
    BY <2>3, PutStep DEF RunInv
  <2>5. HasTrace(a)' => HasTrace(a)
    BY <2>1, <2>4 DEF HasTrace
  <2>6. \/ output_dir'["trace.jsonl"] = output_dir["trace.jsonl"]
        \/ output_dir'["trace.jsonl"].by = a
    BY <2>1, <2>4
  <2> QED BY <1>1, <2>5, <2>6, ExitTally
<1> QED BY <1>2, <1>3 DEF Killed

(* A step of neither the proxy nor a harness. *)
LEMMA IdleTally ==
  ASSUME ProxyInv, AuditInv, UNCHANGED <<proxy_vars, containers, output_dir>>, program' = program
  PROVE  AuditInv'
<1>1. /\ requests' = requests /\ audit' = audit /\ Len(requests) \in Nat
      /\ containers' = containers /\ output_dir' = output_dir
  BY DEF proxy_vars, ProxyInv
<1>2. Onward
  BY <1>1 DEF Onward
<1>3. ASSUME NEW b \in Attempts
      PROVE  Tally(b)'
  <2>1. Tally(b) /\ (HasTrace(b)' => HasTrace(b))
    BY <1>1 DEF AuditInv, HasTrace
  <2> QED BY <1>1, <1>2, <2>1, TallyStays
<1> QED BY <1>1, <1>3 DEF AuditInv

LEMMA RunTally ==
  ASSUME ProxyInv, RunInv, AuditInv, Run
  PROVE  AuditInv'
<1>1. PICK a \in Attempts : a = attempt + 1
  BY HarnessAssumption DEF Run, RunInv, RunType
<1>2. /\ containers \in [Attempts -> Container] /\ UNCHANGED proxy_vars
      /\ program' = program /\ output_dir' = output_dir
  BY DEF Run, RunInv, RunType, config
<1>3. CASE containers' = containers
  BY <1>2, <1>3, IdleTally
<1>4. CASE Started(a)
  <2> DEFINE d == [containers[a] EXCEPT !.stage = "run"]
  <2>1. containers[a].stage = "absent" /\ containers[a].written = 0
    BY <1>1, HarnessAssumption DEF RunInv, OneAlive, RunType
  <2>2. containers[a].trace = <<>> /\ ~HasTrace(a) /\ \A r \in 1 .. Len(requests) : requests[r].run # a
    BY <2>1 DEF AuditInv, Tally
  <2>3. d.stage = "run" /\ d.trace = <<>> /\ d.written = 0
    <3>1. containers[a] \in Container
      BY <1>2
    <3> QED BY <2>1, <2>2, <3>1 DEF Container
  <2>4. containers' = [containers EXCEPT ![a] = d]
    BY <1>4 DEF Started
  <2>5. ~HasTrace(a)'
    BY <1>2, <2>2 DEF HasTrace
  <2>6. Answered(a) = {} /\ Quiet(a)
    BY <2>2 DEF Answered, Quiet, ProxyInv
  <2>7. Cardinality(Answered(a)) = Len(d.trace)
    BY <2>3, <2>6, FS_EmptySet
  <2>8. d.stage \in {"run", "exited"} /\ ~(d.written > 0)
    BY <2>3
  <2>9. output_dir'["trace.jsonl"] = output_dir["trace.jsonl"]
    BY <1>2
  <2> HIDE DEF d
  <2> QED BY <1>2, <2>4, <2>5, <2>6, <2>7, <2>8, <2>9, TallyOf
<1> QED BY <1>1, <1>3, <1>4 DEF Run

LEMMA NextKeepsAuditInv ==
  ASSUME ProxyInv, RunInv, AuditInv, [Next]_vars
  PROVE  AuditInv'
<1>1. CASE Proxied
  <2>1. /\ Onward /\ Len(requests') = Len(requests) /\ IsFiniteSet(audit')
        /\ program' = program /\ containers' = containers /\ output_dir' = output_dir
    BY <1>1, ProxyOnward DEF Proxied, AuditInv, config
  <2>2. Len(requests) \in Nat
    BY DEF ProxyInv
  <2>3. \A r \in Len(requests) + 1 .. Len(requests') : FALSE
    BY <2>1, <2>2
  <2>4. ASSUME NEW b \in Attempts
        PROVE  Tally(b)'
    <3>1. Tally(b) /\ (HasTrace(b)' => HasTrace(b))
      BY <2>1 DEF AuditInv, HasTrace
    <3> QED BY <2>1, <2>2, <2>3, <3>1, TallyStays
  <2> QED BY <2>1, <2>4 DEF AuditInv
<1>2. ASSUME NEW a \in Attempts, Harness(a)
      PROVE  AuditInv'
  <2>1. CASE ChatTimesOut(a) \/ ExitsZero(a)
    <3>1. /\ Alive(a) /\ UNCHANGED proxy_vars /\ program' = program
          /\ output_dir' = output_dir
      BY <2>1 DEF ChatTimesOut, ExitsZero, Alive, config
    <3>2. PICK code : Exit(a, code)
      BY <2>1 DEF ChatTimesOut, ExitsZero
    <3>3. HasTrace(a)' => HasTrace(a)
      BY <3>1 DEF HasTrace
    <3>4. output_dir'["trace.jsonl"] = output_dir["trace.jsonl"]
      BY <3>1
    <3> QED BY <3>1, <3>2, <3>3, <3>4, ExitTally
  <2> QED BY <1>2, <2>1, ChatTally, ChatReturnsTally, WriteFileTally, KilledTally DEF Harness
<1>3. CASE Run
  BY <1>3, RunTally
<1>4. CASE RunCompletes \/ RunTimesOut \/ UNCHANGED vars
  <2>1. UNCHANGED <<proxy_vars, containers, output_dir>> /\ program' = program
    BY <1>4 DEF RunCompletes, RunTimesOut, vars, config
  <2> QED BY <2>1, IdleTally
<1> QED BY <1>1, <1>2, <1>3, <1>4 DEF Next

(* The invariants together. *)
LEMMA RunInvariant == Spec => [](ProxyInv /\ RunInv)
<1>1. Init => RunInv
  BY InitRunInv
<1>2. RunInv /\ ProxyInv /\ [Next]_vars => RunInv'
  BY NextKeepsRunInv
<1> QED BY <1>1, <1>2, ProxyInvariant, PTL DEF Spec

LEMMA AuditInvariant == Spec => [](ProxyInv /\ RunInv /\ AuditInv)
<1>1. Init => AuditInv
  <2> SUFFICES ASSUME Init
               PROVE  AuditInv
    OBVIOUS
  <2>1. /\ audit = {} /\ requests = <<>> /\ output_dir["trace.jsonl"] = None
        /\ \A a \in Attempts : containers[a].stage = "absent" /\ containers[a].trace = <<>>
    BY DEF Init, InitProxy, NoContainer, Files, REQUIRED_OUTPUTS
  <2>2. Len(requests) = 0 /\ IsFiniteSet(audit)
    BY <2>1, FS_EmptySet
  <2>3. ASSUME NEW a \in Attempts
        PROVE  Tally(a)
    BY <2>1, <2>2 DEF Tally, HasTrace
  <2> QED BY <2>2, <2>3 DEF AuditInv
<1>2. ProxyInv /\ RunInv /\ AuditInv /\ [Next]_vars => AuditInv'
  BY NextKeepsAuditInv
<1> QED BY <1>1, <1>2, RunInvariant, PTL DEF Spec

(* audit_log.py: a whole trace counts the completions on record. *)
THEOREM TraceTheorem == Spec => []TraceMatchesAudit
<1>1. RunInv /\ AuditInv => TraceMatchesAudit
  <2> SUFFICES ASSUME RunInv, AuditInv, output_dir["trace.jsonl"] # None,
                      output_dir["trace.jsonl"].whole
               PROVE  LET a == output_dir["trace.jsonl"].by
                      IN  Len(containers[a].trace) = Cardinality(Answered(a))
    BY DEF TraceMatchesAudit, Answered
  <2>1. "trace.jsonl" \in Files
    BY OutputNames DEF Files, REQUIRED_OUTPUTS
  <2>2. output_dir["trace.jsonl"].by \in Attempts
    BY <2>1 DEF RunInv, RunType, Written
  <2>3. PICK a \in Attempts : a = output_dir["trace.jsonl"].by
    BY <2>2
  <2>4. Counted(a)
    BY <2>3 DEF AuditInv, Tally, HasTrace
  <2> QED BY <2>3, <2>4 DEF Counted
<1> QED BY <1>1, AuditInvariant, PTL

-----------------------------------------------------------------------------
(* The types.                                                              *)

(* baselines/agentic_self_critique.py: a last call comes after all rounds, *)
(* and none after it.                                                      *)
Calls ==
  program = "agentic_self_critique" =>
    \A a \in Attempts :
      LET trace == containers[a].trace
          most  == 2 * max_iterations + 1
      IN  Len(trace) <= most /\ (Len(trace) = most => trace[most] = "final_summary")

Sorts ==
  /\ audit \subseteq AuditRecord /\ has_key \in BOOLEAN
  /\ program \in Programs /\ immutable \in BOOLEAN
  /\ attempt \in 0 .. MaxAttempts /\ running \in BOOLEAN

LEMMA ChatReturnsCalls ==
  ASSUME RunInv, Calls, NEW a \in Attempts, ChatReturns(a)
  PROVE  Calls'
<1> DEFINE c == containers[a]
           n == Len(c.trace)
           most == 2 * max_iterations + 1
<1>1. /\ c \in Container /\ containers \in [Attempts -> Container] /\ c.trace \in Seq(Purposes)
      /\ n \in Nat /\ max_iterations \in Nat /\ program' = program
  <2>1. c \in Container /\ containers \in [Attempts -> Container]
    BY DEF RunInv, RunType
  <2>2. c.trace \in Seq(Purposes)
    BY <2>1 DEF Container
  <2>3. n \in Nat
    BY <2>2
  <2>4. program' = program
    BY DEF ChatReturns, config
  <2> QED BY <2>1, <2>2, <2>3, <2>4, HarnessAssumption
<1>2. CASE Exit(a, "1")
  <2>1. \A b \in Attempts : containers'[b].trace = containers[b].trace
    BY <1>1, <1>2 DEF Exit
  <2> QED BY <1>1, <2>1 DEF Calls
<1>3. ASSUME NEW purpose \in NextCall(program, c), NEW verdict \in BOOLEAN,
             containers' = [containers EXCEPT ![a].stage = "run",
                              ![a].trace = Append(@, purpose), ![a].stop = verdict],
             program = "agentic_self_critique"
      PROVE  Calls'
  <2>1. /\ containers'[a].trace = Append(c.trace, purpose)
        /\ \A b \in Attempts \ {a} : containers'[b] = containers[b]
    BY <1>1, <1>3 DEF Container
  <2>2. n <= most /\ (n = most => c.trace[most] = "final_summary")
    BY <1>3 DEF Calls
  <2>3. n # most
    <3> SUFFICES ASSUME n = most
                 PROVE  FALSE
      OBVIOUS
    <3>1. n > 0 /\ c.trace[n] = "final_summary"
      BY <1>1, <2>2
    <3> QED BY <1>3, <3>1 DEF NextCall
  <2>4. n = 2 * max_iterations => purpose = "final_summary"
    <3> SUFFICES ASSUME n = 2 * max_iterations
                 PROVE  purpose = "final_summary"
      OBVIOUS
    <3>1. n % 2 # 1
      BY <1>1
    <3> QED BY <1>3, <3>1 DEF NextCall
  <2> DEFINE t == Append(c.trace, purpose)
  <2>5. purpose \in Purposes
    BY <1>1, NextCallType
  <2>6. Len(t) = n + 1 /\ t[n + 1] = purpose
    BY <1>1, <2>5
  <2>7. Len(t) <= most /\ (Len(t) = most => t[most] = "final_summary")
    BY <1>1, <2>2, <2>3, <2>4, <2>6
  <2> HIDE DEF t
  <2>8. containers'[a].trace = t
    BY <2>1 DEF t
  <2> QED BY <1>1, <2>1, <2>7, <2>8 DEF Calls
<1>4. CASE program # "agentic_self_critique"
  BY <1>1, <1>4 DEF Calls
<1> QED BY <1>2, <1>3, <1>4 DEF ChatReturns

LEMMA NextKeepsCalls ==
  ASSUME RunInv, Calls, [Next]_vars
  PROVE  Calls'
<1>1. ASSUME program' = program, \A b \in Attempts : containers'[b].trace = containers[b].trace
      PROVE  Calls'
  BY <1>1 DEF Calls
<1>2. containers \in [Attempts -> Container]
  BY DEF RunInv, RunType
<1>3. ASSUME NEW a \in Attempts, Harness(a), ~ChatReturns(a)
      PROVE  program' = program /\ \A b \in Attempts : containers'[b].trace = containers[b].trace
  <2>1. CASE Chat(a)
    BY <1>2, <2>1 DEF Chat, config, Container
  <2>2. CASE WriteFile(a)
    BY <1>2, <2>2 DEF WriteFile, config, Container
  <2>3. CASE ChatTimesOut(a) \/ ExitsZero(a) \/ Killed(a)
    <3>1. program' = program /\ \E code : Exit(a, code)
      BY <2>3 DEF ChatTimesOut, ExitsZero, Killed, config
    <3> QED BY <1>2, <3>1 DEF Exit
  <2> QED BY <1>3, <2>1, <2>2, <2>3 DEF Harness
<1>4. ASSUME Run
      PROVE  program' = program /\ \A b \in Attempts : containers'[b].trace = containers[b].trace
  <2>1. program' = program /\ (containers' = containers \/ \E a \in Attempts : Started(a))
    BY <1>4, HarnessAssumption DEF Run, config, RunInv, RunType
  <2>2. ASSUME NEW a \in Attempts, Started(a)
        PROVE  \A b \in Attempts : containers'[b].trace = containers[b].trace
    BY <1>2, <2>2 DEF Started, Container
  <2> QED BY <2>1, <2>2
<1>5. Proxied \/ RunCompletes \/ RunTimesOut \/ UNCHANGED vars =>
        program' = program /\ containers' = containers
  BY DEF Proxied, RunCompletes, RunTimesOut, vars, config
<1> QED BY <1>1, <1>3, <1>4, <1>5, ChatReturnsCalls DEF Next

LEMMA NextKeepsSorts ==
  ASSUME ProxyInv, RunInv, Sorts, [Next]_vars
  PROVE  Sorts'
<1>1. CASE Proxied
  BY <1>1, ProxyOnward DEF Proxied, Sorts, config, sandbox
<1>2. ASSUME NEW a \in Attempts, Harness(a)
      PROVE  Sorts'
  BY <1>2 DEF Harness, Chat, Post, ChatReturns, ChatTimesOut, WriteFile, ExitsZero, Killed,
              proxy_vars, config, sandbox, Sorts
<1>3. CASE Run
  <2>1. running' \in BOOLEAN
    BY <1>3, Zenon DEF Run, Started, Returned
  <2>2. attempt' \in 0 .. MaxAttempts
    BY <1>3, HarnessAssumption DEF Run, Sorts
  <2>3. audit' = audit /\ has_key' = has_key /\ program' = program /\ immutable' = immutable
    BY <1>3 DEF Run, proxy_vars, config
  <2> QED BY <2>1, <2>2, <2>3 DEF Sorts
<1>4. CASE RunCompletes \/ RunTimesOut \/ UNCHANGED vars
  BY <1>4 DEF RunCompletes, RunTimesOut, Returned, vars, proxy_vars, config, sandbox, Sorts
<1> QED BY <1>1, <1>2, <1>3, <1>4 DEF Next

(* Every variable keeps its type; a baseline makes two calls an iteration  *)
(* and one more at the most, and what a container waits for is a request   *)
(* the proxy has.                                                          *)
THEOREM HarnessTypeTheorem == Spec => []TypeOK
<1>1. Init => Calls /\ Sorts
  <2> SUFFICES ASSUME Init
               PROVE  Calls /\ Sorts
    OBVIOUS
  <2>1. \A a \in Attempts : Len(containers[a].trace) = 0
    BY DEF Init, NoContainer
  <2>2. max_iterations \in Nat /\ MaxAttempts \in Nat
    BY HarnessAssumption
  <2>3. Calls
    BY <2>1, <2>2 DEF Calls
  <2>4. running \in BOOLEAN
    BY Zenon DEF Init
  <2>5. Sorts
    BY <2>2, <2>4 DEF Init, InitProxy, Sorts
  <2> QED BY <2>3, <2>5
<1>2. RunInv /\ Calls /\ [Next]_vars => Calls'
  BY NextKeepsCalls
<1>3. ProxyInv /\ RunInv /\ Sorts /\ [Next]_vars => Sorts'
  BY NextKeepsSorts
<1>4. ProxyInv /\ RunInv /\ AuditInv /\ Calls /\ Sorts => TypeOK
  <2> SUFFICES ASSUME ProxyInv, RunInv, AuditInv, Calls, Sorts
               PROVE  TypeOK
    OBVIOUS
  <2>1. TypeProxy
    BY DEF ProxyInv, Sorts, TypeProxy
  <2>2. \A a \in Attempts :
          /\ containers[a].stage = "wait" => containers[a].call \in DOMAIN requests
          /\ program = "agentic_self_critique" => Len(containers[a].trace) <= 2 * max_iterations + 1
    BY DEF AuditInv, Tally, Calls, ProxyInv
  <2> QED BY <2>1, <2>2 DEF TypeOK, RunInv, RunType, Sorts
<1> QED BY <1>1, <1>2, <1>3, <1>4, AuditInvariant, PTL DEF Spec
=============================================================================
