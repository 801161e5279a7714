--------------------------- MODULE ProviderReply ---------------------------
(***************************************************************************)
(* What the model adapters read in a provider's reply: the HTTP status and *)
(* the envelope (models/base.py, openai_compatible.py, hf_local.py), the   *)
(* text inside it (models/output_parser.py), and what the revision         *)
(* stamping gateway does to requests and replies on the way                *)
(* (gate3/gateway.py).  Everything here is a pure function.                *)
(*                                                                         *)
(* An envelope and a text are records of what the code tests about them.   *)
(***************************************************************************)
EXTENDS Integers, Sequences, FiniteSets

CONSTANTS
  Menu,          \* the actions that a decision may choose from
  Cost(_),       \* their cost
  Memories,      \* the memories in the adapter's input
  Evidence       \* the event and the sources of these memories

\* The category of the first check that fails; checks are given in the order of the code.
FirstFailure(checks) ==
  LET failing == {i \in DOMAIN checks : checks[i].fails}
  IN IF failing = {} THEN "ok"
     ELSE checks[CHOOSE i \in failing : \A j \in failing : i <= j].category

Check(fails, category) == [fails |-> fails, category |-> category]

-----------------------------------------------------------------------------
(* The text of a model *)

MalformedCategories == {"invalid_json", "output_schema_mismatch"}

SemanticCategories == {"invalid_action", "cost_mismatch", "unknown_memory_reference"}

HasDuplicates(s) == Cardinality({s[i] : i \in DOMAIN s}) # Len(s)

\* parse_action_output: strict JSON, the schema, then the references to the input.
ActionVerdict(text) ==
  FirstFailure(<<
    Check(~text.strict, "invalid_json"),
    Check(text.shape # "action", "output_schema_mismatch"),
    Check(text.action \notin Menu, "invalid_action"),
    Check(text.action \in Menu /\ text.spent # Cost(text.action), "cost_mismatch"),
    Check(HasDuplicates(text.cites), "unknown_memory_reference"),
    Check(~ {text.cites[i] : i \in DOMAIN text.cites} \subseteq Memories,
          "unknown_memory_reference"),
    Check(~ text.evidence \subseteq Evidence \cup Memories, "unknown_memory_reference"),
    Check(text.private, "safety_policy_blocked")>>)

\* parse_public_language_output: an action field is a violation of the schema.
LanguageVerdict(text) ==
  FirstFailure(<<
    Check(~text.strict, "invalid_json"),
    Check(text.shape # "language", "output_schema_mismatch"),
    Check(text.private, "safety_policy_blocked")>>)

Verdict(stage, text) ==
  IF stage = "action" THEN ActionVerdict(text) ELSE LanguageVerdict(text)

-----------------------------------------------------------------------------
(* The envelope around it *)

Statuses == {"ok", "rate_limit", "timeout", "provider_unavailable",
             "provider_request_rejected"}

Retryable == {"rate_limit", "timeout", "provider_unavailable"}

NoText == [none |-> TRUE]

\* _extract_response and _extract_and_validate.
Extraction(envelope) ==
  FirstFailure(<<
    Check(~envelope.json, "provider_response_invalid"),
    Check(envelope.reasoning, "safety_policy_blocked"),
    Check(envelope.revision = "absent", "provider_response_invalid"),
    Check(envelope.model # "own" \/ envelope.revision # "own", "model_identity_mismatch"),
    Check(envelope.text = NoText, "provider_response_invalid")>>)

-----------------------------------------------------------------------------
(* The gateway as a transport *)

\* _upstream_request, for a request the adapter built: only its size can be wrong.
RequestRefusal(bytes, limit) ==
  FirstFailure(<<Check(bytes > limit, "safety_policy_blocked")>>)

\* _stamp_response refuses some replies ...
StampRefusal(envelope, limit) ==
  IF envelope.status # "ok" THEN "ok"
  ELSE FirstFailure(<<
         Check(envelope.bytes > limit, "safety_policy_blocked"),
         Check(~envelope.json, "provider_response_invalid"),
         Check(envelope.revision # "absent", "safety_policy_blocked"),
         Check(envelope.reasoning, "safety_policy_blocked"),
         Check(envelope.model # "own", "model_identity_mismatch")>>)

\* ... and writes the manifest's revision into the others.
Stamped(envelope) ==
  IF envelope.status = "ok" THEN [envelope EXCEPT !.revision = "own"] ELSE envelope

=============================================================================
