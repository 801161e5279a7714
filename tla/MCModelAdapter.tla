--------------------------- MODULE MCModelAdapter ---------------------------
(***************************************************************************)
(* One request about two actions.  The model says a valid action, one at   *)
(* the wrong cost, something that is not JSON, language, or language with  *)
(* a private marker.  The provider wraps a text in a good envelope, fails  *)
(* with a status, or returns an envelope to be refused.                    *)
(***************************************************************************)
EXTENDS ModelAdapter

MCMenu == {1, 2}
MCCost(a) == a

ActionText(a, spent) ==
  [strict |-> TRUE, shape |-> "action", action |-> a, spent |-> spent, cites |-> <<>>,
   evidence |-> {}, private |-> FALSE]
Speech(private) ==
  [strict |-> TRUE, shape |-> "language", action |-> 0, spent |-> 0, cites |-> <<>>,
   evidence |-> {}, private |-> private]
NotJson == [Speech(FALSE) EXCEPT !.strict = FALSE]

MCTexts == {ActionText(1, 1), ActionText(1, 2), Speech(FALSE), Speech(TRUE), NotJson}

Envelope(status, revision, text) ==
  [status |-> status, bytes |-> 1, json |-> TRUE, reasoning |-> FALSE, model |-> "own",
   revision |-> revision, text |-> text]

\* Upstream of the gateway the revision is absent; a provider that is asked directly has it.
MCEnvelopes ==
  {Envelope("ok", revision, t) : revision \in {"own", "absent"}, t \in MCTexts}
  \cup {Envelope("rate_limit", "own", NoText),
        Envelope("provider_request_rejected", "own", NoText),
        [Envelope("ok", "absent", NotJson) EXCEPT !.model = "other"],
        [Envelope("ok", "absent", NotJson) EXCEPT !.bytes = 2]}

\* Everything but what is marked private.
MCApproved == {t \in MCTexts : ~t.private} \cup {NoText}

\* The repair of what is not JSON is long.
MCRequestBytes(key) == IF key.invalid = NotJson THEN 2 ELSE 1
=============================================================================
