--------------------------- MODULE MCCorpusBuild ----------------------------
(***************************************************************************)
(* Instance of CorpusBuild for TLC: a paper revised after the cutoff (2),  *)
(* a paper never revised, the blocklisted target and a paper that only a   *)
(* relaxed cutoff would let in.                                            *)
(***************************************************************************)
EXTENDS CorpusBuild, TLC

MCPapers == 1 .. 4

MCReleased ==
  (1 :> <<0, 2>>) @@ (2 :> <<1>>) @@ (3 :> <<1>>) @@ (4 :> <<2>>)

(* Replies of each kind: a task accepted, an error status, JSON that says  *)
(* nothing (an error of the service with status 200), and the states of a  *)
(* batch in the shapes the client knows.                                   *)
Nothing == [ok |-> TRUE, id |-> FALSE, files |-> {}, state |-> "", has_url |-> FALSE]

File(state, has_url) == [state |-> state, has_url |-> has_url]

MCReplies ==
  {Nothing, [Nothing EXCEPT !.ok = FALSE], [Nothing EXCEPT !.id = TRUE],
   [Nothing EXCEPT !.state = "done", !.has_url = TRUE],
   [Nothing EXCEPT !.files = {File("running", FALSE)}],
   [Nothing EXCEPT !.files = {File("done", TRUE)}],
   [Nothing EXCEPT !.files = {File("done", FALSE)}],
   [Nothing EXCEPT !.files = {File("done", TRUE), File("running", FALSE)}],
   [Nothing EXCEPT !.files = {File("done", TRUE), File("failed", FALSE)}]}
=============================================================================
