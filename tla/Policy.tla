------------------------------- MODULE Policy -------------------------------
(***************************************************************************)
(* proxy/policy.py: what the participant proxy makes of the body of a      *)
(* request.  Every field is one of the cases the code tells apart: a list  *)
(* is the set of the kinds of its entries, the seven forbidden keys are    *)
(* one field.  Other keys have none: no check reads them, and the copy     *)
(* that is forwarded keeps them.                                           *)
(***************************************************************************)

GEMMA_MODEL_ID == "google/gemma-4-31b-it"

Shapes == {"absent", "not_list", "list"}

Lists(entries) ==
  {l \in [shape : Shapes, entries : SUBSET entries] : l.shape # "list" => l.entries = {}}

(* "web": the web plugin unless it has enabled=false. *)
Plugins  == Lists({"web_off", "web", "other", "not_object"})
Messages == Lists({"plain", "names_server_tool", "not_object"})

Body ==
  [kind      : {"object", "not_object", "not_json"},
   model     : {GEMMA_MODEL_ID, "google/gemma-4-31b-it:online", "absent"},
   forbidden : {"absent", "empty", "value"},
   plugins   : Plugins,
   messages  : Messages,
   provider  : {"absent", "participant", "safe"}]

(* Rejected by hash_prompt, before the policy is asked: an exception. *)
CannotBeHashed(b) ==
  /\ b.kind = "object"
  /\ b.messages.shape = "not_list" \/ "not_object" \in b.messages.entries

(* A plausible bug in _check_model: the model's name as a prefix. *)
_check_model_prefix(b) == b.model # "absent"

_check_model(b) == b.model = GEMMA_MODEL_ID

_check_forbidden_keys(b) == b.forbidden \in {"absent", "empty"}

_check_plugins(b) ==
  b.plugins.shape # "not_list" /\ b.plugins.entries \subseteq {"web_off"}

_check_server_tools_in_messages(b) == "names_server_tool" \notin b.messages.entries

(* enforce_request: whether it returns, and the request it returns. *)
Allowed(b) ==
  /\ b.kind = "object"
  /\ _check_model(b)
  /\ _check_forbidden_keys(b)
  /\ _check_plugins(b)
  /\ _check_server_tools_in_messages(b)

Normalized(b) ==
  [b EXCEPT !.plugins = [shape |-> "list", entries |-> {"web_off"}], !.provider = "safe"]

(* docs/PUBLIC_RULES.md, "Generation policy": the requests OpenRouter may  *)
(* see.                                                                    *)
InTimeCapsule(b) ==
  /\ b.kind = "object" /\ b.model = GEMMA_MODEL_ID
  /\ b.forbidden # "value"
  /\ b.plugins = [shape |-> "list", entries |-> {"web_off"}]
  /\ b.provider = "safe"
  /\ "names_server_tool" \notin b.messages.entries
=============================================================================
