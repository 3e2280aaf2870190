------------------------------- MODULE Mineru -------------------------------
(***************************************************************************)
(* corpus/mineru_parse.py: what the client makes of MinerU's replies.  A   *)
(* batch always holds the one PDF of parse_pdf_url, yet the client reads   *)
(* replies with any number of files, and replies of other shapes.          *)
(***************************************************************************)

(* "done" stands for the words of _TERMINAL_DONE, "failed" for those of    *)
(* _TERMINAL_FAIL, "running" for any other and "" for none.                *)
States == {"done", "failed", "running", ""}

FileResult == [state : States, has_url : BOOLEAN]

(* A reply, the JSON under its "data" or, without one, all of it.          *)
(*   ok      its status is below 400                                       *)
(*   id      it has a batch_id, task_id or id that is a non-empty string   *)
(*   files   what _iter_file_results finds in it                           *)
(*   state, has_url   its own state or status, its own full_zip_url        *)
Reply ==
  [ok : BOOLEAN, id : BOOLEAN, files : SUBSET FileResult, state : States, has_url : BOOLEAN]

(* submit_batch gets a task id. *)
Accepted(reply) == reply.ok /\ reply.id

_extract_state(reply) ==
  IF reply.files = {} THEN reply.state
  ELSE IF \E f \in reply.files : f.state = "failed" THEN "failed"
  ELSE IF \A f \in reply.files : f.state = "done" THEN "done"
  ELSE "running"

_extract_zip_url(reply) == reply.has_url \/ \E f \in reply.files : f.has_url

(* poll_task asks again, returns the reply, or raises. *)
KeepsPolling(reply) == reply.ok /\ _extract_state(reply) \notin {"done", "failed"}
Completes(reply)    == reply.ok /\ _extract_state(reply) = "done"
=============================================================================
