------------------------- MODULE ModelAdapterProofs -------------------------
(***************************************************************************)
(* Proofs about ModelAdapter, for any requests, texts, envelopes, policy,  *)
(* request sizes and number of calls.                                      *)
(***************************************************************************)
EXTENDS ModelAdapter, TLAPS

-----------------------------------------------------------------------------
(* Verdicts *)

\* A non-empty set of positions of a short list has a first one.
LEMMA FirstOfFew ==
  ASSUME NEW S, S \subseteq 1..8, S # {}
  PROVE  \E i \in S : \A j \in S : i <= j
<1>1. CASE 1 \in S  BY <1>1
<1>2. CASE 1 \notin S /\ 2 \in S  BY <1>2
<1>3. CASE 1 \notin S /\ 2 \notin S /\ 3 \in S  BY <1>3
<1>4. CASE 1 \notin S /\ 2 \notin S /\ 3 \notin S /\ 4 \in S  BY <1>4
<1>5. CASE 1 \notin S /\ 2 \notin S /\ 3 \notin S /\ 4 \notin S
  <2>1. S \subseteq 5..8
    BY <1>5
  <2>2. CASE 5 \in S  BY <2>1, <2>2
  <2>3. CASE 5 \notin S /\ 6 \in S  BY <2>1, <2>3
  <2>4. CASE 5 \notin S /\ 6 \notin S
    <3>1. S \subseteq 7..8
      BY <2>1, <2>4
    <3>2. CASE 7 \in S  BY <3>1, <3>2
    <3>3. CASE 7 \notin S
      <4>1. \A x \in S : x = 8
        BY <3>1, <3>3
      <4>2. PICK x \in S : TRUE
        OBVIOUS
      <4>3. \A j \in S : x <= j
        BY <4>1, <4>2
      <4>. QED BY <4>3
    <3>. QED BY <3>2, <3>3
  <2>. QED BY <2>2, <2>3, <2>4
<1>. QED BY <1>1, <1>2, <1>3, <1>4, <1>5

\* The first failing check decides, and there is a verdict "ok" only without one.
LEMMA FirstFailureIs ==
  ASSUME NEW checks, DOMAIN checks \subseteq 1..8
  PROVE  \/ /\ FirstFailure(checks) = "ok"
            /\ \A i \in DOMAIN checks : ~checks[i].fails
         \/ \E i \in DOMAIN checks : /\ checks[i].fails
                                     /\ FirstFailure(checks) = checks[i].category
<1>. DEFINE failing == {i \in DOMAIN checks : checks[i].fails}
            first == CHOOSE i \in failing : \A j \in failing : i <= j
<1>1. CASE failing = {}
  BY <1>1 DEF FirstFailure
<1>2. CASE failing # {}
  <2>1. \E i \in failing : \A j \in failing : i <= j
    BY <1>2, FirstOfFew
  <2>2. first \in failing
    BY <2>1
  <2>3. FirstFailure(checks) = checks[first].category
    BY <1>2 DEF FirstFailure
  <2>. QED BY <2>2, <2>3
<1>. QED BY <1>1, <1>2

\* What the extraction of a reply can say; "ok" only if the reply has a text.
LEMMA ExtractionIs ==
  ASSUME NEW envelope
  PROVE  /\ Extraction(envelope) \in {"ok", "provider_response_invalid", "safety_policy_blocked",
                                      "model_identity_mismatch"}
         /\ Extraction(envelope) = "ok" => envelope.text # NoText
<1>. DEFINE checks == <<
    Check(~envelope.json, "provider_response_invalid"),
    Check(envelope.reasoning, "safety_policy_blocked"),
    Check(envelope.revision = "absent", "provider_response_invalid"),
    Check(envelope.model # "own" \/ envelope.revision # "own", "model_identity_mismatch"),
    Check(envelope.text = NoText, "provider_response_invalid")>>
<1>1. DOMAIN checks = 1..5
  OBVIOUS
<1>2. \A i \in DOMAIN checks :
        checks[i].category \in {"provider_response_invalid", "safety_policy_blocked",
                                "model_identity_mismatch"}
  BY <1>1 DEF Check
<1>3. envelope.text = NoText => checks[5].fails
  BY DEF Check
<1>4. Extraction(envelope) = FirstFailure(checks)
  BY DEF Extraction
<1>5. \/ Extraction(envelope) = "ok" /\ ~checks[5].fails
      \/ \E i \in DOMAIN checks : Extraction(envelope) = checks[i].category
  <2>. HIDE DEF checks
  <2>. QED BY <1>1, <1>4, FirstFailureIs
<1>. HIDE DEF checks
<1>6. CASE Extraction(envelope) = "ok" /\ ~checks[5].fails
  BY <1>3, <1>6
<1>7. CASE \E i \in DOMAIN checks : Extraction(envelope) = checks[i].category
  BY <1>2, <1>7
<1>. QED BY <1>5, <1>6, <1>7

\* What the gateway's checks of a request and of a reply can say.
LEMMA GatewayIs ==
  ASSUME NEW envelope, NEW bytes, NEW limit
  PROVE  /\ RequestRefusal(bytes, limit) \in {"ok", "safety_policy_blocked"}
         /\ StampRefusal(envelope, limit) \in {"ok", "provider_response_invalid", "safety_policy_blocked",
                                       "model_identity_mismatch"}
<1>1. RequestRefusal(bytes, limit) \in {"ok", "safety_policy_blocked"}
  <2>. DEFINE checks == <<Check(bytes > limit, "safety_policy_blocked")>>
  <2>1. /\ DOMAIN checks = 1..1
        /\ \A i \in DOMAIN checks : checks[i].category = "safety_policy_blocked"
    BY DEF Check
  <2>2. RequestRefusal(bytes, limit) = FirstFailure(checks)
    BY DEF RequestRefusal
  <2>. HIDE DEF checks
  <2>. QED BY <2>1, <2>2, FirstFailureIs
<1>2. StampRefusal(envelope, limit) \in {"ok", "provider_response_invalid", "safety_policy_blocked",
                                 "model_identity_mismatch"}
  <2>. DEFINE checks == <<
         Check(envelope.bytes > limit, "safety_policy_blocked"),
         Check(~envelope.json, "provider_response_invalid"),
         Check(envelope.revision # "absent", "safety_policy_blocked"),
         Check(envelope.reasoning, "safety_policy_blocked"),
         Check(envelope.model # "own", "model_identity_mismatch")>>
  <2>1. DOMAIN checks = 1..5
    OBVIOUS
  <2>2. \A i \in DOMAIN checks :
          checks[i].category \in {"provider_response_invalid", "safety_policy_blocked",
                                  "model_identity_mismatch"}
    BY <2>1 DEF Check
  <2>3. StampRefusal(envelope, limit) = "ok" \/ StampRefusal(envelope, limit) = FirstFailure(checks)
    BY DEF StampRefusal
  <2>. HIDE DEF checks
  <2>. QED BY <2>1, <2>2, <2>3, FirstFailureIs
<1>. QED BY <1>1, <1>2

VerdictNames == {"ok", "safety_policy_blocked"} \cup MalformedCategories \cup SemanticCategories

\* What the parser can say of a text.
LEMMA VerdictIs ==
  ASSUME NEW stage, NEW text
  PROVE  Verdict(stage, text) \in VerdictNames
<1>1. ActionVerdict(text) \in VerdictNames
  <2>. DEFINE checks == <<
    Check(~text.strict, "invalid_json"),
    Check(text.shape # "action", "output_schema_mismatch"),
    Check(text.action \notin Menu, "invalid_action"),
    Check(text.action \in Menu /\ text.spent # Cost(text.action), "cost_mismatch"),
    Check(HasDuplicates(text.cites), "unknown_memory_reference"),
    Check(~ {text.cites[i] : i \in DOMAIN text.cites} \subseteq Memories,
          "unknown_memory_reference"),
    Check(~ text.evidence \subseteq Evidence \cup Memories, "unknown_memory_reference"),
    Check(text.private, "safety_policy_blocked")>>
  <2>1. DOMAIN checks = 1..8
    OBVIOUS
  <2>2. \A i \in DOMAIN checks : checks[i].category \in VerdictNames
    BY <2>1 DEF Check, VerdictNames, MalformedCategories, SemanticCategories
  <2>3. ActionVerdict(text) = FirstFailure(checks)
    BY DEF ActionVerdict
  <2>4. "ok" \in VerdictNames
    BY DEF VerdictNames
  <2>. HIDE DEF checks
  <2>. QED BY <2>1, <2>2, <2>3, <2>4, FirstFailureIs
<1>2. LanguageVerdict(text) \in VerdictNames
  <2>. DEFINE checks == <<
    Check(~text.strict, "invalid_json"),
    Check(text.shape # "language", "output_schema_mismatch"),
    Check(text.private, "safety_policy_blocked")>>
  <2>1. DOMAIN checks = 1..3
    OBVIOUS
  <2>2. \A i \in DOMAIN checks : checks[i].category \in VerdictNames
    BY <2>1 DEF Check, VerdictNames, MalformedCategories
  <2>3. LanguageVerdict(text) = FirstFailure(checks)
    BY DEF LanguageVerdict
  <2>4. "ok" \in VerdictNames
    BY DEF VerdictNames
  <2>. HIDE DEF checks
  <2>. QED BY <2>1, <2>2, <2>3, <2>4, FirstFailureIs
<1>. QED BY <1>1, <1>2 DEF Verdict

-----------------------------------------------------------------------------
(* Records and keys *)

\* A sequence as a function.
LEMMA SequenceIsFunction ==
  ASSUME NEW S, NEW s \in Seq(S)
  PROVE  s \in [1..Len(s) -> S]
OBVIOUS

\* A record that is added comes last and leaves the others as they are.
LEMMA AppendFacts ==
  ASSUME NEW s, s \in Seq({s[i] : i \in DOMAIN s}), NEW x
  PROVE  LET t == Append(s, x)
         IN /\ t \in Seq({t[i] : i \in DOMAIN t})
            /\ Len(s) \in Nat /\ DOMAIN s = 1..Len(s)
            /\ Len(t) = Len(s) + 1
            /\ DOMAIN t = 1..(Len(s) + 1)
            /\ t # <<>>
            /\ t[Len(s) + 1] = x
            /\ \A i \in DOMAIN s : t[i] = s[i]
<1>. DEFINE S == {s[i] : i \in DOMAIN s} \cup {x}
            t == Append(s, x)
            R == {t[i] : i \in DOMAIN t}
<1>1. s \in Seq(S) /\ x \in S
  OBVIOUS
<1>2. /\ Len(s) \in Nat /\ DOMAIN s = 1..Len(s)
      /\ t \in Seq(S) /\ Len(t) = Len(s) + 1 /\ DOMAIN t = 1..(Len(s) + 1)
      /\ t[Len(s) + 1] = x /\ \A i \in DOMAIN s : t[i] = s[i]
  BY <1>1
<1>3. t # <<>>
  <2>1. Len(t) # 0
    BY <1>2
  <2>. QED BY <2>1
<1>4. t \in Seq(R)
  <2>1. t \in [1..Len(t) -> S]
    <3>. HIDE DEF t, S
    <3>. QED BY <1>2, SequenceIsFunction
  <2>2. t = [i \in 1..Len(t) |-> t[i]]
    BY <2>1
  <2>3. \A i \in 1..Len(t) : t[i] \in R
    BY <1>2
  <2>4. t \in [1..Len(t) -> R]
    BY <2>2, <2>3
  <2>5. \A T : \A n \in Nat : [1..n -> T] \subseteq Seq(T)
    OBVIOUS
  <2>. QED BY <1>2, <2>4, <2>5
<1>. QED BY <1>2, <1>3, <1>4

\* The keys of a call and of its repair.
LEMMA KeyFacts ==
  ASSUME NEW c \in Calls
  PROVE  /\ Key(c) \in Calls /\ Opening(c) \in Calls
         /\ Key(c).stage = c.stage /\ Key(c).request = c.request /\ Key(c).invalid = c.invalid
         /\ Opening(c).stage = c.stage /\ Opening(c).invalid = NoText
         /\ c.invalid = NoText => Key(c) = c /\ Opening(c) = c
         /\ Opening(c) = OpeningKey(c)
         /\ c.invalid # NoText => Key(c) = RepairKey(c, c.invalid)
<1>1. c = [stage |-> c.stage, request |-> c.request, decision |-> c.decision, invalid |-> c.invalid]
      /\ c.stage \in Stages /\ c.request \in Requests
      /\ c.decision \in Texts \cup {NoText} /\ c.invalid \in Texts \cup {NoText}
  BY DEF Calls
<1>2. Opening(c) = [stage |-> c.stage, request |-> c.request, decision |-> c.decision, invalid |-> NoText]
  BY <1>1 DEF Opening
<1>3. c.invalid # NoText =>
        Key(c) = [stage |-> c.stage, request |-> c.request, decision |-> NoText, invalid |-> c.invalid]
  BY <1>1 DEF Key
<1>4. c.invalid = NoText => Key(c) = c
  BY DEF Key
<1>. QED BY <1>1, <1>2, <1>3, <1>4 DEF Calls, OpeningKey, RepairKey

\* A call that is repaired.
LEMMA RepairedFacts ==
  ASSUME NEW c \in Calls, NEW text \in Texts, AdapterAssumption, c.invalid = NoText
  PROVE  LET d == [c EXCEPT !.invalid = text]
         IN /\ d \in Calls /\ d.stage = c.stage /\ d.request = c.request /\ d.decision = c.decision
            /\ d.invalid = text /\ d.invalid # NoText
            /\ Opening(d) = c
<1>. DEFINE d == [c EXCEPT !.invalid = text]
<1>1. c = [stage |-> c.stage, request |-> c.request, decision |-> c.decision, invalid |-> c.invalid]
      /\ c.stage \in Stages /\ c.request \in Requests
      /\ c.decision \in Texts \cup {NoText}
  BY DEF Calls
<1>2. d = [stage |-> c.stage, request |-> c.request, decision |-> c.decision, invalid |-> text]
  BY <1>1
<1>3. d \in Calls
  BY <1>1, <1>2 DEF Calls
<1>4. Opening(d) = [stage |-> c.stage, request |-> c.request, decision |-> c.decision, invalid |-> NoText]
  <2>. HIDE DEF d
  <2>. QED BY <1>2 DEF Opening
<1>5. text # NoText
  BY DEF AdapterAssumption
<1>. QED BY <1>1, <1>2, <1>3, <1>4, <1>5

\* What a replay finds stays where it is when the cache only grows.
LEMMA ReplayedStays ==
  ASSUME NEW a, Replayed(a),
         \A k \in DOMAIN cache : k \in DOMAIN cache' /\ cache'[k] = cache[k]
  PROVE  Replayed(a)'
BY DEF Replayed, ReplayEnd

\* Neither do answers change that.
LEMMA ReplayKept ==
  ASSUME ReplayInv, NEW more, \A a \in more : a.replayable => Replayed(a)',
         answers' = answers \cup more,
         \A k \in DOMAIN cache : k \in DOMAIN cache' /\ cache'[k] = cache[k]
  PROVE  ReplayInv'
<1>. SUFFICES ASSUME NEW a \in answers', a.replayable
             PROVE  Replayed(a)'
  BY DEF ReplayInv
<1>1. CASE a \in answers
  <2>1. Replayed(a)
    BY <1>1 DEF ReplayInv
  <2>. QED BY <2>1, ReplayedStays
<1>2. CASE a \in more
  BY <1>2
<1>. QED BY <1>1, <1>2

-----------------------------------------------------------------------------
(* The steps *)

\* No call yet.
LEMMA InitInv ==
  ASSUME AdapterAssumption, Init
  PROVE  AdapterInv
<1>1. DOMAIN cache = {} /\ DOMAIN invocations = {} /\ invocations \in Seq({})
  BY DEF Init
<1>2. NoCall \in Calls
  BY DEF NoCall, Calls, Stages, AdapterAssumption
<1>3. invocations \in Seq({invocations[i] : i \in DOMAIN invocations})
  BY DEF Init
<1>4. CallTypeOK
  BY <1>2, <1>3 DEF Init, CallTypeOK, AdapterAssumption
<1>5. TypeOK
  BY <1>1, <1>4 DEF Init, TypeOK, AdapterAssumption
<1>6. CacheConsistent /\ ReplayInv
  BY <1>1 DEF Init, CacheConsistent, CacheSound, NoCacheConflict, ReplayInv
<1>7. RetriesOnlyTransient /\ RepairsOnlyMalformed /\ RecordsInv
  BY <1>1 DEF RetriesOnlyTransient, RepairsOnlyMalformed, RecordsInv
<1>8. SendInv /\ TextInv /\ RepairInv /\ CountInv
  BY DEF Init, SendInv, TextInv, RepairInv, CountInv, AdapterAssumption
<1>. QED BY <1>1, <1>5, <1>6, <1>7, <1>8 DEF AdapterInv

\* A call begins without records.
LEMMA BeginInv ==
  ASSUME AdapterAssumption, AdapterInv,
         NEW stage \in Stages, NEW request \in Requests, NEW decision \in Texts \cup {NoText},
         Begin(stage, request, decision)
  PROVE  AdapterInv'
<1>. USE DEF AdapterInv
<1>1. /\ call' \in Calls /\ call'.invalid = NoText
      /\ pc' = "lookup" /\ attempt' = 1 /\ reply' = NoText /\ sent' = 0
      /\ DOMAIN invocations' = {}
      /\ UNCHANGED <<route, cache, selected, answers>>
  BY DEF Begin, Calls
<1>2. (invocations \in Seq({invocations[i] : i \in DOMAIN invocations}))'
  BY DEF Begin
<1>3. calls' \in 0..MaxCalls
  BY DEF Begin, TypeOK, AdapterAssumption
<1>4. TypeOK'
  BY <1>1, <1>2, <1>3 DEF TypeOK, CallTypeOK, AdapterAssumption
<1>5. CacheConsistent'
  BY <1>1 DEF CacheConsistent, CacheSound, NoCacheConflict
<1>6. ReplayInv'
  BY <1>1, ReplayKept, answers' = answers \cup {}
<1>7. (RetriesOnlyTransient /\ RepairsOnlyMalformed /\ RecordsInv)'
  BY <1>1 DEF RetriesOnlyTransient, RepairsOnlyMalformed, RecordsInv
<1>8. (SendInv /\ TextInv /\ RepairInv /\ CountInv)'
  BY <1>1 DEF SendInv, TextInv, RepairInv, CountInv
<1>. QED BY <1>1, <1>4, <1>5, <1>6, <1>7, <1>8

\* A refused call changes nothing, a new process has no call.
LEMMA RestInv ==
  ASSUME AdapterAssumption, AdapterInv,
         \/ UNCHANGED vars
         \/ Restart
         \/ \E r \in Requests, d \in Texts : LanguageRefused(r, d)
  PROVE  AdapterInv'
<1>. USE DEF AdapterInv
<1>1. CASE UNCHANGED vars \/ \E r \in Requests, d \in Texts : LanguageRefused(r, d)
  <2>1. /\ UNCHANGED <<route, cache, selected, call, pc, attempt, reply, invocations, sent, answers>>
        /\ calls' \in 0..MaxCalls
    <3>1. CASE UNCHANGED vars
      BY <3>1 DEF vars, TypeOK
    <3>2. CASE \E r \in Requests, d \in Texts : LanguageRefused(r, d)
      BY <3>2 DEF LanguageRefused, TypeOK, AdapterAssumption
    <3>. QED BY <1>1, <3>1, <3>2
  <2>2. TypeOK'
    BY <2>1 DEF TypeOK, CallTypeOK
  <2>3. CacheConsistent' /\ ReplayInv'
    BY <2>1 DEF CacheConsistent, CacheSound, NoCacheConflict, ReplayInv, Replayed, ReplayEnd
  <2>4. (RetriesOnlyTransient /\ RepairsOnlyMalformed /\ RecordsInv)'
    BY <2>1 DEF RetriesOnlyTransient, RepairsOnlyMalformed, RecordsInv
  <2>5. (SendInv /\ TextInv /\ RepairInv /\ CountInv)'
    BY <2>1 DEF SendInv, TextInv, RepairInv, CountInv
  <2>. QED BY <2>1, <2>2, <2>3, <2>4, <2>5
<1>2. CASE Restart
  <2>1. /\ UNCHANGED <<route, cache, call, attempt, reply, answers, calls>>
        /\ pc' = "idle" /\ sent' = 0 /\ selected' = {} /\ DOMAIN invocations' = {}
    BY <1>2 DEF Restart
  <2>2. (invocations \in Seq({invocations[i] : i \in DOMAIN invocations}))'
    BY <1>2 DEF Restart
  <2>3. TypeOK'
    BY <2>1, <2>2 DEF TypeOK, CallTypeOK
  <2>4. CacheConsistent'
    BY <2>1 DEF CacheConsistent, CacheSound, NoCacheConflict
  <2>5. ReplayInv'
    BY <2>1, ReplayKept, answers' = answers \cup {}
  <2>6. (RetriesOnlyTransient /\ RepairsOnlyMalformed /\ RecordsInv)'
    BY <2>1 DEF RetriesOnlyTransient, RepairsOnlyMalformed, RecordsInv
  <2>7. (SendInv /\ TextInv /\ RepairInv /\ CountInv)'
    BY <2>1 DEF SendInv, TextInv, RepairInv, CountInv, AdapterAssumption
  <2>. QED BY <2>1, <2>3, <2>4, <2>5, <2>6, <2>7
<1>. QED BY <1>1, <1>2

\* The record that ends a look-up or an attempt: what is said of records stays true.
LEMMA RecordAdded ==
  ASSUME AdapterAssumption, AdapterInv, pc \in {"lookup", "send"},
         NEW r, r.key = Key(call), r.attempt = 1 \/ (pc = "send" /\ r.attempt = attempt),
         invocations' = Append(invocations, r),
         call' = call,
         \A k \in DOMAIN cache' : k # Key(call) => k \in DOMAIN cache /\ cache'[k] = cache[k],
         r.category = "ok" /\ Key(call) \in DOMAIN cache' => cache'[Key(call)].text = r.text
  PROVE  /\ (invocations \in Seq({invocations[i] : i \in DOMAIN invocations}))'
         /\ RetriesOnlyTransient' /\ RepairsOnlyMalformed' /\ RecordsInv' /\ RepairInv'
         /\ invocations' # <<>>
         /\ invocations'[Len(invocations')] = r
         /\ \A i \in DOMAIN invocations' : i # Len(invocations') =>
              i \in DOMAIN invocations /\ invocations'[i] = invocations[i]
<1>. DEFINE n == Len(invocations)
<1>1. /\ call \in Calls /\ attempt \in 1..(MaxRetries + 1)
      /\ invocations \in Seq({invocations[i] : i \in DOMAIN invocations})
  BY DEF AdapterInv, TypeOK, CallTypeOK
<1>2. /\ (invocations \in Seq({invocations[i] : i \in DOMAIN invocations}))'
      /\ n \in Nat /\ DOMAIN invocations = 1..n
      /\ Len(invocations') = n + 1 /\ DOMAIN invocations' = 1..(n + 1)
      /\ invocations' # <<>>
      /\ invocations'[n + 1] = r
      /\ \A i \in DOMAIN invocations : invocations'[i] = invocations[i]
  BY <1>1, AppendFacts
<1>3. /\ Key(call).invalid = call.invalid /\ Key(call).stage = call.stage
      /\ Opening(call).invalid = NoText
      /\ call.invalid = NoText => Key(call) = Opening(call)
  BY <1>1, KeyFacts
<1>4. RetriesOnlyTransient'
  <2>. SUFFICES ASSUME NEW i \in 1..(n + 1)
               PROVE  /\ invocations'[i].attempt <= MaxRetries + 1
                      /\ invocations'[i].attempt > 1 =>
                           /\ i > 1
                           /\ invocations'[i - 1].key = invocations'[i].key
                           /\ invocations'[i - 1].attempt = invocations'[i].attempt - 1
                           /\ invocations'[i - 1].category \in Retryable
    BY <1>2 DEF RetriesOnlyTransient
  <2>1. CASE i \in 1..n
    <3>1. /\ invocations[i].attempt <= MaxRetries + 1
          /\ invocations[i].attempt > 1 =>
                /\ i > 1
                /\ invocations[i - 1].key = invocations[i].key
                /\ invocations[i - 1].attempt = invocations[i].attempt - 1
                /\ invocations[i - 1].category \in Retryable
      BY <1>2, <2>1 DEF AdapterInv, RetriesOnlyTransient
    <3>2. invocations'[i] = invocations[i]
      BY <1>2, <2>1
    <3>3. i > 1 => invocations'[i - 1] = invocations[i - 1]
      BY <1>2, <2>1
    <3>. QED BY <3>1, <3>2, <3>3
  <2>2. CASE i = n + 1 /\ r.attempt = 1
    <3>1. invocations'[i] = r /\ r.attempt = 1 /\ MaxRetries \in Nat
      BY <1>2, <1>3, <2>2 DEF AdapterAssumption
    <3>2. ~(1 > 1) /\ 1 <= MaxRetries + 1
      BY <3>1
    <3>. QED BY <3>1, <3>2
  <2>3. CASE i = n + 1 /\ pc = "send" /\ r.attempt = attempt
    <3>1. invocations'[i] = r /\ r.attempt <= MaxRetries + 1
      BY <1>1, <1>2, <1>3, <2>3
    <3>2. ASSUME attempt > 1
          PROVE  /\ n \in DOMAIN invocations
                 /\ invocations[n].key = Key(call)
                 /\ invocations[n].attempt = attempt - 1
                 /\ invocations[n].category \in Retryable
      <4>1. /\ invocations # <<>>
            /\ invocations[n].key = Key(call)
            /\ invocations[n].attempt = attempt - 1
            /\ invocations[n].category \in Retryable
        BY <2>3, <3>2 DEF AdapterInv, SendInv
      <4>2. n # 0
        BY <1>1, <4>1
      <4>. QED BY <1>2, <4>1, <4>2
    <3>3. ASSUME attempt > 1
          PROVE  /\ i > 1
                 /\ invocations'[i - 1].key = r.key
                 /\ invocations'[i - 1].attempt = r.attempt - 1
                 /\ invocations'[i - 1].category \in Retryable
      <4>1. i - 1 = n /\ i > 1 /\ invocations'[i - 1] = invocations[n]
        BY <1>2, <2>3, <3>2, <3>3
      <4>. QED BY <1>3, <2>3, <3>2, <3>3, <4>1
    <3>4. r.attempt = attempt
      BY <1>3, <2>3
    <3>. QED BY <3>1, <3>3, <3>4
  <2>. QED BY <1>2, <2>1, <2>2, <2>3
<1>5. RepairInv'
  BY <1>2 DEF AdapterInv, RepairInv
<1>6. RepairsOnlyMalformed'
  <2>. SUFFICES ASSUME NEW i \in 1..(n + 1), invocations'[i].key.invalid # NoText
               PROVE  /\ Verdict(invocations'[i].key.stage, invocations'[i].key.invalid)
                            \in MalformedCategories
                      /\ \E j \in 1..(i - 1) : /\ invocations'[j].key.invalid = NoText
                                               /\ invocations'[j].text = invocations'[i].key.invalid
    BY <1>2 DEF RepairsOnlyMalformed
  <2>1. CASE i \in 1..n
    <3>1. invocations'[i] = invocations[i]
      BY <1>2, <2>1
    <3>2. /\ Verdict(invocations[i].key.stage, invocations[i].key.invalid) \in MalformedCategories
          /\ \E j \in 1..(i - 1) : /\ invocations[j].key.invalid = NoText
                                   /\ invocations[j].text = invocations[i].key.invalid
      BY <1>2, <2>1, <3>1 DEF AdapterInv, RepairsOnlyMalformed
    <3>3. \A j \in 1..(i - 1) : invocations'[j] = invocations[j]
      BY <1>2, <2>1
    <3>. QED BY <3>1, <3>2, <3>3
  <2>2. CASE i = n + 1
    <3>1. /\ Verdict(call.stage, call.invalid) \in MalformedCategories
          /\ \E j \in DOMAIN invocations : /\ invocations[j].key = Opening(call)
                                           /\ invocations[j].text = call.invalid
      BY <1>2, <1>3, <2>2 DEF AdapterInv, RepairInv
    <3>. QED BY <1>2, <1>3, <2>2, <3>1
  <2>. QED BY <1>2, <2>1, <2>2
<1>7. RecordsInv'
  <2>. SUFFICES ASSUME NEW i \in 1..(n + 1)
               PROVE  /\ invocations'[i].key \in {Opening(call), Key(call)}
                      /\ invocations'[i].category = "ok" /\ invocations'[i].key \in DOMAIN cache' =>
                           cache'[invocations'[i].key].text = invocations'[i].text
    BY <1>2 DEF RecordsInv
  <2>1. CASE i \in 1..n
    <3>1. invocations'[i] = invocations[i]
      BY <1>2, <2>1
    <3>2. /\ invocations[i].key \in {Opening(call), Key(call)}
          /\ invocations[i].category = "ok" /\ invocations[i].key \in DOMAIN cache =>
               cache[invocations[i].key].text = invocations[i].text
      BY <1>2, <2>1 DEF AdapterInv, RecordsInv
    <3>3. invocations[i].category = "ok" => invocations[i].key # Key(call)
      BY <1>2, <2>1 DEF AdapterInv, TextInv
    <3>. QED BY <3>1, <3>2, <3>3
  <2>2. CASE i = n + 1
    BY <1>2, <1>3, <2>2
  <2>. QED BY <1>2, <2>1, <2>2
<1>. QED BY <1>2, <1>4, <1>5, <1>6, <1>7

\* A look-up that finds nothing.
LEMMA CacheMissInv ==
  ASSUME AdapterAssumption, AdapterInv, CacheMiss
  PROVE  AdapterInv'
<1>. USE DEF AdapterInv
<1>1. /\ pc = "lookup" /\ pc' = "send" /\ attempt' = 1
      /\ ~ (CacheEnabled /\ Key(call) \in DOMAIN cache)
      /\ UNCHANGED <<route, cache, selected, call, reply, invocations, sent, answers, calls>>
  BY DEF CacheMiss
<1>2. TypeOK'
  BY <1>1 DEF TypeOK, CallTypeOK, AdapterAssumption
<1>3. CacheConsistent' /\ ReplayInv'
  BY <1>1 DEF CacheConsistent, CacheSound, NoCacheConflict, ReplayInv, Replayed, ReplayEnd
<1>4. (RetriesOnlyTransient /\ RepairsOnlyMalformed /\ RecordsInv)'
  BY <1>1 DEF RetriesOnlyTransient, RepairsOnlyMalformed, RecordsInv
<1>5. SendInv' /\ TextInv' /\ RepairInv'
  BY <1>1 DEF SendInv, TextInv, RepairInv
<1>6. CountInv'
  BY <1>1 DEF CountInv, TypeOK, AdapterAssumption
<1>. QED BY <1>1, <1>2, <1>3, <1>4, <1>5, <1>6

\* An answer that is not replayable ends a call.
LEMMA EndedUnreplayable ==
  ASSUME AdapterInv, NEW category, category # "cache_corrupt", End(category, NoText, FALSE),
         \A k \in DOMAIN cache : k \in DOMAIN cache' /\ cache'[k] = cache[k]
  PROVE  ReplayInv' /\ NoCacheConflict' /\ pc' = "idle"
<1>. DEFINE a == [stage |-> call.stage, request |-> call.request, decision |-> call.decision,
                  category |-> category, text |-> NoText, replayable |-> FALSE]
<1>1. answers' = answers \cup {a} /\ pc' = "idle"
  BY DEF End
<1>2. a.replayable = FALSE /\ a.category = category
  OBVIOUS
<1>. HIDE DEF a
<1>3. ReplayInv'
  <2>1. \A b \in {a} : b.replayable => Replayed(b)'
    BY <1>2
  <2>. QED BY <1>1, <2>1, ReplayKept DEF AdapterInv
<1>4. NoCacheConflict'
  BY <1>1, <1>2 DEF AdapterInv, CacheConsistent, NoCacheConflict
<1>. QED BY <1>1, <1>3, <1>4

\* A look-up that finds an answer: it is a usable one.
LEMMA CacheHitInv ==
  ASSUME AdapterAssumption, AdapterInv, CacheHit
  PROVE  AdapterInv'
<1>. DEFINE envelope == cache[Key(call)]
<1>1. /\ pc = "lookup" /\ CacheEnabled /\ Key(call) \in DOMAIN cache
      /\ UNCHANGED <<route, cache, selected, call, attempt, sent, calls>>
  BY DEF CacheHit
<1>2. Extraction(envelope) = "ok" /\ envelope \in EnvelopeKinds
  BY <1>1 DEF AdapterInv, CacheConsistent, CacheSound, TypeOK
<1>3. /\ invocations' = Record("ok", TRUE, envelope.text)
      /\ reply' = envelope.text
      /\ pc' = "parse"
      /\ UNCHANGED answers
  BY <1>2 DEF CacheHit
<1>4. envelope.text \in Texts /\ envelope.text # NoText
  BY <1>2, ExtractionIs DEF EnvelopeKinds
<1>. HIDE DEF envelope
<1>5. PICK r : r = [key |-> Key(call), attempt |-> 1, hit |-> TRUE, category |-> "ok",
                    text |-> envelope.text]
  OBVIOUS
<1>6. /\ r.key = Key(call) /\ r.attempt = 1 /\ r.category = "ok" /\ r.text = envelope.text
      /\ invocations' = Append(invocations, r)
      /\ cache'[Key(call)].text = envelope.text
  BY <1>1, <1>3, <1>5 DEF Record, envelope
<1>7. /\ (invocations \in Seq({invocations[i] : i \in DOMAIN invocations}))'
      /\ RetriesOnlyTransient' /\ RepairsOnlyMalformed' /\ RecordsInv' /\ RepairInv'
      /\ invocations' # <<>>
      /\ invocations'[Len(invocations')] = r
  BY <1>1, <1>6, RecordAdded
<1>8. TypeOK'
  BY <1>1, <1>3, <1>4, <1>7 DEF AdapterInv, TypeOK, CallTypeOK
<1>9. CacheConsistent' /\ ReplayInv'
  BY <1>1, <1>3 DEF AdapterInv, CacheConsistent, CacheSound, NoCacheConflict, ReplayInv, Replayed, ReplayEnd
<1>10. SendInv' /\ TextInv'
  <2>1. /\ invocations'[Len(invocations')].key = Key(call)'
        /\ invocations'[Len(invocations')].category = "ok"
        /\ invocations'[Len(invocations')].text = reply'
    BY <1>1, <1>3, <1>6, <1>7
  <2>2. pc' = "parse" /\ reply' # NoText
    BY <1>3, <1>4
  <2>. QED BY <1>7, <2>1, <2>2 DEF SendInv, TextInv
<1>11. CountInv'
  BY <1>1, <1>3 DEF AdapterInv, CountInv, TypeOK, AdapterAssumption
<1>12. (~CacheEnabled => DOMAIN cache = {})'
  BY <1>1 DEF AdapterInv
<1>. QED BY <1>7, <1>8, <1>9, <1>10, <1>11, <1>12 DEF AdapterInv

\* How often the transport was used once it is used again.
LEMMA CountAfterSend ==
  ASSUME AdapterAssumption, AdapterInv, pc = "send", sent' = sent + 1, call' = call,
         \/ pc' \in {"parse", "idle"}
         \/ pc' = "send" /\ attempt' = attempt + 1
  PROVE  CountInv' /\ sent' \in Nat
<1>1. attempt \in 1..(MaxRetries + 1) /\ sent \in Nat /\ MaxRetries \in Nat
  BY DEF AdapterInv, TypeOK, CallTypeOK, AdapterAssumption
<1>2. sent <= (IF call.invalid = NoText THEN 0 ELSE MaxRetries + 1) + attempt - 1
  BY DEF AdapterInv, CountInv
<1>. QED BY <1>1, <1>2 DEF CountInv

\* An attempt that failed and is on record.
LEMMA FailAttemptInv ==
  ASSUME AdapterAssumption, AdapterInv, Send,
         NEW category, category \notin {"ok", "cache_corrupt"}, FailAttempt(category)
  PROVE  AdapterInv'
<1>1. /\ pc = "send" /\ sent' = sent + 1
      /\ UNCHANGED <<route, cache, selected, call, reply, calls>>
      /\ invocations' = Append(invocations, [key |-> Key(call), attempt |-> attempt, hit |-> FALSE,
                                              category |-> category, text |-> NoText])
  BY DEF Send, FailAttempt, Record
<1>. PICK r : r = [key |-> Key(call), attempt |-> attempt, hit |-> FALSE, category |-> category,
                   text |-> NoText]
  OBVIOUS
<1>r. /\ r.key = Key(call) /\ r.attempt = attempt /\ r.category = category
      /\ invocations' = Append(invocations, r)
  BY <1>1
<1>2. /\ (invocations \in Seq({invocations[i] : i \in DOMAIN invocations}))'
      /\ RetriesOnlyTransient' /\ RepairsOnlyMalformed' /\ RecordsInv' /\ RepairInv'
      /\ invocations' # <<>>
      /\ invocations'[Len(invocations')] = r
      /\ \A i \in DOMAIN invocations' : i # Len(invocations') =>
           i \in DOMAIN invocations /\ invocations'[i] = invocations[i]
  BY <1>1, <1>r, RecordAdded
<1>3. \/ /\ MayRetry(category) /\ attempt' = attempt + 1 /\ UNCHANGED <<pc, answers>>
      \/ /\ End(IF category \in Retryable THEN "retry_exhausted" ELSE category, NoText, FALSE)
         /\ UNCHANGED attempt
  BY DEF FailAttempt
<1>4. (~CacheEnabled => DOMAIN cache = {})' /\ CacheSound'
  BY <1>1 DEF AdapterInv, CacheConsistent, CacheSound
<1>5. CASE MayRetry(category) /\ attempt' = attempt + 1 /\ UNCHANGED <<pc, answers>>
  <2>1. attempt \in 1..(MaxRetries + 1) /\ attempt' \in 1..(MaxRetries + 1) /\ category \in Retryable
    BY <1>5 DEF MayRetry, AdapterInv, TypeOK, CallTypeOK, AdapterAssumption
  <2>2. CountInv' /\ sent' \in Nat
    BY <1>1, <1>5, CountAfterSend
  <2>3. TypeOK'
    BY <1>1, <1>2, <1>5, <2>1, <2>2 DEF AdapterInv, TypeOK, CallTypeOK
  <2>4. NoCacheConflict' /\ ReplayInv'
    BY <1>1, <1>5 DEF AdapterInv, CacheConsistent, NoCacheConflict, ReplayInv, Replayed, ReplayEnd
  <2>5. SendInv'
    BY <1>1, <1>2, <1>5, <1>r, <2>1 DEF AdapterInv, SendInv
  <2>6. TextInv'
    BY <1>1, <1>2, <1>5, <1>r DEF AdapterInv, TextInv
  <2>. QED BY <1>2, <1>4, <2>2, <2>3, <2>4, <2>5, <2>6 DEF AdapterInv, CacheConsistent
<1>6. CASE End(IF category \in Retryable THEN "retry_exhausted" ELSE category, NoText, FALSE)
           /\ UNCHANGED attempt
  <2>1. ReplayInv' /\ NoCacheConflict' /\ pc' = "idle"
    BY <1>1, <1>6, EndedUnreplayable
  <2>2. CountInv' /\ sent' \in Nat
    BY <1>1, <2>1, CountAfterSend
  <2>3. TypeOK'
    BY <1>1, <1>2, <1>6, <2>1, <2>2 DEF AdapterInv, TypeOK, CallTypeOK
  <2>4. SendInv' /\ TextInv'
    BY <2>1 DEF SendInv, TextInv
  <2>. QED BY <1>2, <1>4, <2>1, <2>2, <2>3, <2>4 DEF AdapterInv, CacheConsistent
<1>. QED BY <1>3, <1>5, <1>6

\* An attempt that ends the call without a record.
LEMMA TransportRaisesInv ==
  ASSUME AdapterAssumption, AdapterInv, Send,
         NEW category, category # "cache_corrupt", TransportRaises(category)
  PROVE  AdapterInv'
<1>1. /\ pc = "send" /\ sent' = sent + 1
      /\ UNCHANGED <<route, cache, selected, call, attempt, reply, invocations, calls>>
      /\ End(category, NoText, FALSE)
  BY DEF Send, TransportRaises
<1>2. ReplayInv' /\ NoCacheConflict' /\ pc' = "idle"
  BY <1>1, EndedUnreplayable
<1>3. CountInv' /\ sent' \in Nat
  BY <1>1, <1>2, CountAfterSend
<1>4. TypeOK'
  BY <1>1, <1>2, <1>3 DEF AdapterInv, TypeOK, CallTypeOK
<1>5. (~CacheEnabled => DOMAIN cache = {})' /\ CacheSound'
  BY <1>1 DEF AdapterInv, CacheConsistent, CacheSound
<1>6. (RetriesOnlyTransient /\ RepairsOnlyMalformed /\ RecordsInv)'
  BY <1>1 DEF AdapterInv, RetriesOnlyTransient, RepairsOnlyMalformed, RecordsInv
<1>7. SendInv' /\ TextInv' /\ RepairInv'
  BY <1>2 DEF SendInv, TextInv, RepairInv
<1>. QED BY <1>2, <1>3, <1>4, <1>5, <1>6, <1>7 DEF AdapterInv, CacheConsistent

\* What the cache holds after a complete answer that was sent for.
LEMMA CacheAfterFacts ==
  ASSUME AdapterAssumption, AdapterInv, pc = "send", NEW envelope
  PROVE  /\ ~PutConflict(envelope)
         /\ \A k \in DOMAIN cache : k \in DOMAIN CacheAfter(envelope)
                                  /\ CacheAfter(envelope)[k] = cache[k] /\ k # Key(call)
         /\ \A k \in DOMAIN CacheAfter(envelope) :
              \/ k \in DOMAIN cache
              \/ /\ k = Key(call) /\ CacheAfter(envelope)[k] = envelope
                 /\ CacheEnabled /\ Retained(envelope)
<1>1. ~ (CacheEnabled /\ Key(call) \in DOMAIN cache) /\ (~CacheEnabled => DOMAIN cache = {})
  BY DEF AdapterInv, SendInv
<1>2. Key(call) \notin DOMAIN cache
  BY <1>1
<1>3. CASE CacheAfter(envelope) = cache
  BY <1>1, <1>2, <1>3 DEF PutConflict
<1>4. CASE CacheEnabled /\ Retained(envelope) /\ CacheAfter(envelope) = With(cache, Key(call), envelope)
  BY <1>1, <1>2, <1>4 DEF PutConflict, With
<1>. QED BY <1>3, <1>4 DEF CacheAfter

\* A complete answer: it is on record, and in the cache if the policy wants it there.
LEMMA SucceedInv ==
  ASSUME AdapterAssumption, AdapterInv, Send,
         NEW envelope \in EnvelopeKinds, envelope.status = "ok", Extraction(envelope) = "ok",
         Succeed(envelope)
  PROVE  AdapterInv'
<1>1. /\ pc = "send" /\ sent' = sent + 1 /\ cache' = CacheAfter(envelope)
      /\ UNCHANGED <<route, selected, call, attempt, calls>>
  BY DEF Send, Succeed
<1>2. /\ ~PutConflict(envelope)
      /\ \A k \in DOMAIN cache : k \in DOMAIN cache' /\ cache'[k] = cache[k] /\ k # Key(call)
      /\ \A k \in DOMAIN cache' :
           \/ k \in DOMAIN cache
           \/ /\ k = Key(call) /\ cache'[k] = envelope
              /\ CacheEnabled /\ Retained(envelope)
  BY <1>1, CacheAfterFacts
<1>3. pc' = "parse" /\ reply' = envelope.text /\ UNCHANGED answers
  BY <1>2 DEF Succeed
<1>4. envelope.text \in Texts /\ envelope.text # NoText
  BY ExtractionIs DEF EnvelopeKinds
<1>5. PICK r : r = [key |-> Key(call), attempt |-> attempt, hit |-> FALSE, category |-> "ok",
                    text |-> envelope.text]
  OBVIOUS
<1>6. /\ r.key = Key(call) /\ r.attempt = attempt /\ r.category = "ok" /\ r.text = envelope.text
      /\ invocations' = Append(invocations, r)
  BY <1>5 DEF Record, Succeed
<1>7. /\ (invocations \in Seq({invocations[i] : i \in DOMAIN invocations}))'
      /\ RetriesOnlyTransient' /\ RepairsOnlyMalformed' /\ RecordsInv' /\ RepairInv'
      /\ invocations' # <<>>
      /\ invocations'[Len(invocations')] = r
  <2>1. Key(call) \in DOMAIN cache' => cache'[Key(call)].text = r.text
    BY <1>2, <1>6
  <2>2. \A i \in DOMAIN invocations : invocations[i].category = "ok" => invocations[i].key # Key(call)
    BY <1>1 DEF AdapterInv, TextInv
  <2>. QED BY <1>1, <1>2, <1>6, <2>1, RecordAdded
<1>8. CountInv' /\ sent' \in Nat
  BY <1>1, <1>3, CountAfterSend
<1>9. TypeOK'
  <2>1. Key(call) \in Calls
    BY KeyFacts DEF AdapterInv, TypeOK, CallTypeOK
  <2>2. DOMAIN cache' \subseteq Calls /\ \A k \in DOMAIN cache' : cache'[k] \in EnvelopeKinds
    BY <1>2, <2>1 DEF AdapterInv, TypeOK
  <2>. QED BY <1>1, <1>3, <1>4, <1>7, <1>8, <2>2 DEF AdapterInv, TypeOK, CallTypeOK
<1>10. CacheConsistent'
  BY <1>2, <1>3 DEF AdapterInv, CacheConsistent, CacheSound, NoCacheConflict, Retained
<1>11. ReplayInv'
  <2>1. answers' = answers \cup {}
    BY <1>3
  <2>2. \A k \in DOMAIN cache : k \in DOMAIN cache' /\ cache'[k] = cache[k]
    BY <1>2
  <2>. QED BY <2>1, <2>2, ReplayKept DEF AdapterInv
<1>12. (~CacheEnabled => DOMAIN cache = {})'
  BY <1>2 DEF AdapterInv
<1>13. SendInv' /\ TextInv'
  <2>1. /\ invocations'[Len(invocations')].key = Key(call)'
        /\ invocations'[Len(invocations')].category = "ok"
        /\ invocations'[Len(invocations')].text = reply'
    BY <1>1, <1>3, <1>6, <1>7
  <2>2. pc' = "parse" /\ reply' # NoText
    BY <1>3, <1>4
  <2>. QED BY <1>7, <2>1, <2>2 DEF SendInv, TextInv
<1>. QED BY <1>7, <1>8, <1>9, <1>10, <1>11, <1>12, <1>13 DEF AdapterInv

\* A text is parsed: what is on record of it.
LEMMA ParsedText ==
  ASSUME AdapterAssumption, AdapterInv, pc = "parse"
  PROVE  /\ call \in Calls /\ reply \in Texts
         /\ Len(invocations) \in DOMAIN invocations
         /\ invocations[Len(invocations)].key = Key(call)
         /\ invocations[Len(invocations)].category = "ok"
         /\ invocations[Len(invocations)].text = reply
         /\ Key(call) \in DOMAIN cache => cache[Key(call)].text = reply
<1>. DEFINE n == Len(invocations)
<1>1. /\ call \in Calls /\ reply \in Texts \cup {NoText}
      /\ invocations \in Seq({invocations[i] : i \in DOMAIN invocations})
  BY DEF AdapterInv, TypeOK, CallTypeOK
<1>2. /\ invocations # <<>> /\ reply # NoText
      /\ invocations[n].key = Key(call) /\ invocations[n].category = "ok"
      /\ invocations[n].text = reply
  BY DEF AdapterInv, TextInv
<1>3. n \in DOMAIN invocations
  BY <1>1, <1>2
<1>4. Key(call) \in DOMAIN cache => cache[Key(call)].text = reply
  BY <1>2, <1>3 DEF AdapterInv, RecordsInv
<1>. QED BY <1>1, <1>2, <1>3, <1>4

\* An answer whose texts are all in the cache is what a replay ends with.
LEMMA ReplayableAnswer ==
  ASSUME AdapterAssumption, AdapterInv, pc = "parse", ~Repairable(Verdict(call.stage, reply)),
         NEW a, a.stage = call.stage, a.request = call.request, a.decision = call.decision,
         a.category = IF call.invalid # NoText
                         /\ Verdict(call.stage, reply) \in MalformedCategories \cup SemanticCategories
                      THEN "malformed_output_unrepaired" ELSE Verdict(call.stage, reply),
         a.text = IF Verdict(call.stage, reply) = "ok" THEN reply ELSE NoText,
         \A i \in DOMAIN invocations : invocations[i].category = "ok" => invocations[i].key \in DOMAIN cache
  PROVE  Replayed(a)
<1>. DEFINE verdict == Verdict(call.stage, reply)
<1>1. /\ call \in Calls /\ Key(call) \in DOMAIN cache /\ cache[Key(call)].text = reply
  BY ParsedText
<1>2. OpeningKey(a) = Opening(call)
  BY <1>1, KeyFacts DEF OpeningKey
<1>3. CASE call.invalid = NoText
  <2>1. OpeningKey(a) \in DOMAIN cache /\ cache[OpeningKey(a)].text = reply
    BY <1>1, <1>2, <1>3, KeyFacts
  <2>2. Verdict(a.stage, reply) \notin MalformedCategories
    BY <1>3 DEF Repairable
  <2>3. ReplayEnd(a, reply, FALSE)
    BY <1>3 DEF ReplayEnd
  <2>. QED BY <2>1, <2>2, <2>3 DEF Replayed
<1>4. CASE call.invalid # NoText
  <2>1. PICK j \in DOMAIN invocations : /\ invocations[j].key = Opening(call)
                                        /\ invocations[j].category = "ok"
                                        /\ invocations[j].text = call.invalid
    BY <1>4 DEF AdapterInv, RepairInv
  <2>2. /\ OpeningKey(a) \in DOMAIN cache /\ cache[OpeningKey(a)].text = call.invalid
        /\ Verdict(a.stage, call.invalid) \in MalformedCategories
    BY <1>2, <1>4, <2>1 DEF AdapterInv, RecordsInv, RepairInv
  <2>3. RepairKey(a, call.invalid) = Key(call)
    BY <1>1, <1>4, KeyFacts DEF RepairKey
  <2>4. ReplayEnd(a, reply, TRUE)
    BY <1>4 DEF ReplayEnd
  <2>. QED BY <1>1, <2>2, <2>3, <2>4 DEF Replayed
<1>. QED BY <1>3, <1>4

\* A parsed text ends the call, or is repaired once.
LEMMA ParseInv ==
  ASSUME AdapterAssumption, AdapterInv, Parse
  PROVE  AdapterInv'
<1>. DEFINE verdict == Verdict(call.stage, reply)
            replayable == \A i \in DOMAIN invocations :
                            invocations[i].category = "ok" => invocations[i].key \in DOMAIN cache
            category == IF call.invalid # NoText /\ verdict \in MalformedCategories \cup SemanticCategories
                        THEN "malformed_output_unrepaired" ELSE verdict
            text == IF verdict = "ok" THEN reply ELSE NoText
<1>1. /\ pc = "parse"
      /\ UNCHANGED <<route, cache, attempt, reply, invocations, sent, calls>>
  BY DEF Parse
<1>2. /\ call \in Calls /\ reply \in Texts
      /\ Len(invocations) \in DOMAIN invocations
      /\ invocations[Len(invocations)].key = Key(call)
      /\ invocations[Len(invocations)].category = "ok"
      /\ invocations[Len(invocations)].text = reply
  BY <1>1, ParsedText
<1>3. /\ verdict \in VerdictNames /\ "ok" \notin MalformedCategories
      /\ "ok" \notin SemanticCategories
      /\ "cache_corrupt" \notin VerdictNames
  BY VerdictIs DEF VerdictNames, MalformedCategories, SemanticCategories
<1>4. CASE ~Repairable(verdict)
  <2>1. /\ End(category, text, replayable)
        /\ UNCHANGED call
        /\ selected' \subseteq selected \cup {<<call.request, reply>>}
    <3>1. CASE verdict = "ok"
      BY <1>3, <3>1 DEF Parse
    <3>2. CASE verdict # "ok"
      BY <1>4, <3>2 DEF Parse
    <3>. QED BY <3>1, <3>2
  <2>2. PICK a : a = [stage |-> call.stage, request |-> call.request, decision |-> call.decision,
                      category |-> category, text |-> text, replayable |-> replayable]
    OBVIOUS
  <2>3. /\ a.stage = call.stage /\ a.request = call.request /\ a.decision = call.decision
        /\ a.category = category /\ a.text = text /\ a.replayable = replayable
    BY <2>2
  <2>4. answers' = answers \cup {a} /\ pc' = "idle"
    BY <2>1, <2>2 DEF End
  <2>5. category # "cache_corrupt"
    BY <1>3
  <2>6. replayable => Replayed(a)
    BY <1>1, <1>4, <2>3, ReplayableAnswer
  <2>7. ReplayInv'
    <3>1. \A b \in {a} : b.replayable => Replayed(b)'
      BY <1>1, <2>3, <2>6, ReplayedStays
    <3>2. \A k \in DOMAIN cache : k \in DOMAIN cache' /\ cache'[k] = cache[k]
      BY <1>1
    <3>. QED BY <2>4, <3>1, <3>2, ReplayKept DEF AdapterInv
  <2>8. CacheConsistent'
    BY <1>1, <2>3, <2>4, <2>5 DEF AdapterInv, CacheConsistent, CacheSound, NoCacheConflict
  <2>9. TypeOK'
    <3>1. selected' \subseteq Requests \X Texts
      BY <1>2, <2>1 DEF AdapterInv, TypeOK, Calls
    <3>. QED BY <1>1, <2>1, <2>4, <3>1 DEF AdapterInv, TypeOK, CallTypeOK
  <2>10. (RetriesOnlyTransient /\ RepairsOnlyMalformed /\ RecordsInv)'
    BY <1>1, <2>1 DEF AdapterInv, RetriesOnlyTransient, RepairsOnlyMalformed, RecordsInv
  <2>11. SendInv' /\ TextInv' /\ RepairInv'
    BY <2>4 DEF SendInv, TextInv, RepairInv
  <2>12. CountInv'
    BY <1>1, <2>1, <2>4 DEF AdapterInv, CountInv, TypeOK, AdapterAssumption
  <2>13. (~CacheEnabled => DOMAIN cache = {})'
    BY <1>1 DEF AdapterInv
  <2>. QED BY <2>7, <2>8, <2>9, <2>10, <2>11, <2>12, <2>13 DEF AdapterInv
<1>5. CASE Repairable(verdict)
  <2>1. /\ call' = [call EXCEPT !.invalid = reply] /\ pc' = "lookup"
        /\ UNCHANGED <<selected, answers>>
        /\ verdict \in MalformedCategories /\ call.invalid = NoText
    BY <1>3, <1>5 DEF Parse, Repairable
  <2>2. /\ call' \in Calls /\ call'.stage = call.stage
        /\ call'.invalid = reply /\ reply # NoText
        /\ Opening(call') = call
    BY <1>2, <2>1, RepairedFacts
  <2>3. Key(call) = call /\ Opening(call) = call /\ Key(call').invalid = reply
    BY <1>2, <2>1, <2>2, KeyFacts
  <2>4. TypeOK'
    BY <1>1, <2>1, <2>2 DEF AdapterInv, TypeOK, CallTypeOK
  <2>5. CacheConsistent' /\ ReplayInv'
    BY <1>1, <2>1 DEF AdapterInv, CacheConsistent, CacheSound, NoCacheConflict, ReplayInv, Replayed, ReplayEnd
  <2>6. (RetriesOnlyTransient /\ RepairsOnlyMalformed)'
    BY <1>1 DEF AdapterInv, RetriesOnlyTransient, RepairsOnlyMalformed
  <2>7. \A i \in DOMAIN invocations : invocations[i].key = call
    BY <2>3 DEF AdapterInv, RecordsInv
  <2>8. RecordsInv'
    BY <1>1, <2>2, <2>7 DEF AdapterInv, RecordsInv
  <2>9. SendInv' /\ TextInv'
    BY <1>1, <2>1, <2>2, <2>3, <2>7 DEF SendInv, TextInv
  <2>10. RepairInv'
    <3>1. Verdict(call'.stage, call'.invalid) \in MalformedCategories
      BY <2>1, <2>2
    <3>2. /\ Len(invocations) \in DOMAIN invocations'
          /\ invocations'[Len(invocations)].key = Opening(call')
          /\ invocations'[Len(invocations)].category = "ok"
          /\ invocations'[Len(invocations)].text = call'.invalid
      BY <1>1, <1>2, <2>2, <2>3
    <3>. QED BY <3>1, <3>2 DEF RepairInv
  <2>11. CountInv'
    BY <1>1, <2>1, <2>2 DEF AdapterInv, CountInv, TypeOK, AdapterAssumption
  <2>12. (~CacheEnabled => DOMAIN cache = {})'
    BY <1>1 DEF AdapterInv
  <2>. QED BY <2>4, <2>5, <2>6, <2>8, <2>9, <2>10, <2>11, <2>12 DEF AdapterInv
<1>. QED BY <1>4, <1>5

\* The gateway's revision makes an envelope of an envelope.
LEMMA StampedFacts ==
  ASSUME NEW envelope \in EnvelopeKinds
  PROVE  Stamped(envelope) \in EnvelopeKinds
<1>1. [envelope EXCEPT !.revision = "own"] \in EnvelopeKinds
  BY DEF EnvelopeKinds
<1>. QED BY <1>1 DEF Stamped

\* An answer of the provider.
LEMMA ReceiveInv ==
  ASSUME AdapterAssumption, AdapterInv, Send, NEW envelope \in EnvelopeKinds, Receive(envelope)
  PROVE  AdapterInv'
<1>1. CASE envelope.status # "ok"
  <2>1. envelope.status \notin {"ok", "cache_corrupt"} /\ FailAttempt(envelope.status)
    BY <1>1 DEF Receive, EnvelopeKinds, Statuses
  <2>. QED BY <2>1, FailAttemptInv
<1>2. CASE envelope.status = "ok" /\ Extraction(envelope) # "ok"
  <2>1. Extraction(envelope) \notin {"ok", "cache_corrupt"} /\ FailAttempt(Extraction(envelope))
    BY <1>2, ExtractionIs DEF Receive
  <2>. QED BY <2>1, FailAttemptInv
<1>3. CASE envelope.status = "ok" /\ Extraction(envelope) = "ok"
  <2>1. Succeed(envelope)
    BY <1>3 DEF Receive
  <2>. QED BY <1>3, <2>1, SucceedInv
<1>. QED BY <1>1, <1>2, <1>3

\* Every step keeps the invariant.
LEMMA StepInv ==
  ASSUME AdapterAssumption, AdapterInv, [Next]_vars
  PROVE  AdapterInv'
<1>1. CASE CacheHit  BY <1>1, CacheHitInv
<1>2. CASE CacheMiss  BY <1>2, CacheMissInv
<1>3. CASE SendTimesOut
  BY <1>3, FailAttemptInv DEF SendTimesOut
<1>4. CASE GatewayRefuses
  <2>1. PICK category : category = RequestRefusal(RequestBytes(Key(call)), MaxRequestBytes)
    OBVIOUS
  <2>2. category # "cache_corrupt" /\ Send /\ TransportRaises(category)
    BY <1>4, <2>1, GatewayIs DEF GatewayRefuses
  <2>. QED BY <2>2, TransportRaisesInv
<1>5. CASE \E e \in Envelopes : SendDirect(e) \/ SendThroughGateway(e)
  <2>1. PICK e \in Envelopes : SendDirect(e) \/ SendThroughGateway(e)
    BY <1>5
  <2>2. e \in EnvelopeKinds /\ Stamped(e) \in EnvelopeKinds
    BY StampedFacts DEF AdapterAssumption
  <2>3. CASE SendDirect(e)
    BY <2>2, <2>3, ReceiveInv DEF SendDirect
  <2>4. CASE SendThroughGateway(e) /\ StampRefusal(e, MaxResponseBytes) # "ok"
    <3>1. StampRefusal(e, MaxResponseBytes) # "cache_corrupt" /\ Send /\ TransportRaises(StampRefusal(e, MaxResponseBytes))
      BY <2>4, GatewayIs DEF SendThroughGateway
    <3>. QED BY <3>1, TransportRaisesInv
  <2>5. CASE SendThroughGateway(e) /\ StampRefusal(e, MaxResponseBytes) = "ok"
    BY <2>2, <2>5, ReceiveInv DEF SendThroughGateway
  <2>. QED BY <2>1, <2>3, <2>4, <2>5
<1>6. CASE Parse  BY <1>6, ParseInv
<1>7. CASE \E r \in Requests : SelectAction(r)
  BY <1>7, BeginInv DEF SelectAction, Stages
<1>8. CASE \E r \in Requests, d \in Texts : GenerateLanguage(r, d)
  BY <1>8, BeginInv DEF GenerateLanguage, Stages
<1>9. CASE Restart \/ UNCHANGED vars \/ \E r \in Requests, d \in Texts : LanguageRefused(r, d)
  BY <1>9, RestInv
<1>. QED BY <1>1, <1>2, <1>3, <1>4, <1>5, <1>6, <1>7, <1>8, <1>9 DEF Next, AdapterStep, ClientStep

\* The invariant bounds how often the transport was used.
LEMMA CountBounds ==
  ASSUME AdapterAssumption, AdapterInv
  PROVE  SendsBounded
<1>1. /\ MaxRetries \in Nat /\ sent \in Nat /\ attempt \in 1..(MaxRetries + 1)
      /\ pc \in {"idle", "lookup", "send", "parse"}
  BY DEF AdapterAssumption, AdapterInv, TypeOK, CallTypeOK
<1>. QED BY <1>1 DEF AdapterInv, CountInv, SendsBounded

\* The invariant makes replays faithful.
LEMMA ReplaysAgree ==
  ASSUME AdapterAssumption, AdapterInv
  PROVE  ReplayFaithful
<1>1. ReplayNeverSends
  <2>. SUFFICES ASSUME NEW a \in answers, a.replayable, SameCall(a, call), pc = "send"
               PROVE  FALSE
    BY DEF ReplayNeverSends
  <2>1. Replayed(a) /\ call \in Calls
    BY DEF AdapterInv, ReplayInv, TypeOK, CallTypeOK
  <2>2. CacheEnabled /\ Key(call) \notin DOMAIN cache
    BY <2>1 DEF Replayed, AdapterInv, SendInv
  <2>3. OpeningKey(a) = Opening(call)
    BY <2>1, KeyFacts DEF SameCall, OpeningKey
  <2>4. CASE call.invalid = NoText
    BY <2>1, <2>2, <2>3, <2>4, KeyFacts DEF Replayed
  <2>5. CASE call.invalid # NoText
    <3>1. PICK j \in DOMAIN invocations : /\ invocations[j].key = Opening(call)
                                          /\ invocations[j].category = "ok"
                                          /\ invocations[j].text = call.invalid
      BY <2>5 DEF AdapterInv, RepairInv
    <3>2. cache[OpeningKey(a)].text = call.invalid
      BY <2>1, <2>3, <3>1 DEF Replayed, AdapterInv, RecordsInv
    <3>3. Verdict(a.stage, call.invalid) \in MalformedCategories
      BY <2>5 DEF AdapterInv, RepairInv, SameCall
    <3>4. RepairKey(a, call.invalid) = Key(call)
      BY <2>1, <2>5, KeyFacts DEF RepairKey, SameCall
    <3>. QED BY <2>1, <2>2, <3>2, <3>3, <3>4 DEF Replayed
  <2>. QED BY <2>4, <2>5
<1>2. ReplayAgrees
  <2>. SUFFICES ASSUME NEW a \in answers, NEW b \in answers, a.replayable, b.replayable, SameCall(a, b)
               PROVE  a.category = b.category /\ a.text = b.text
    BY DEF ReplayAgrees
  <2>1. Replayed(a) /\ Replayed(b)
    BY DEF AdapterInv, ReplayInv
  <2>2. OpeningKey(a) = OpeningKey(b) /\ a.stage = b.stage
        /\ \A text : RepairKey(a, text) = RepairKey(b, text)
    BY DEF OpeningKey, RepairKey, SameCall
  <2>. QED BY <2>1, <2>2 DEF Replayed, ReplayEnd
<1>. QED BY <1>1, <1>2 DEF ReplayFaithful

-----------------------------------------------------------------------------
(* The theorems *)

\* Any number of calls, restarts and answers of any kind keep the invariant: it is
\* inductive.
THEOREM AdapterInductive == Spec => []AdapterInv
<1>1. Init => AdapterInv
  BY InitInv, AdapterAssumption
<1>2. AdapterInv /\ [Next]_vars => AdapterInv'
  BY StepInv, AdapterAssumption
<1>. QED BY <1>1, <1>2, PTL DEF Spec

\* Whatever is in the cache can be used, and no answer contradicts it
\* (models/cache.py:102, models/base.py:355).
THEOREM CacheNeverContradicts == Spec => []CacheConsistent
<1>1. AdapterInv => CacheConsistent
  BY DEF AdapterInv
<1>. QED BY <1>1, AdapterInductive, PTL

\* A call whose answers are stored is repeated without the network, and ends the same
\* way (models/base.py:355-372).
THEOREM FaithfulReplay == Spec => []ReplayFaithful
<1>1. AdapterInv => ReplayFaithful
  BY ReplaysAgree, AdapterAssumption
<1>. QED BY <1>1, AdapterInductive, PTL

\* Retries follow transient failures of the same request, a repair a malformed text that
\* was received, and together they are bounded (models/base.py:376-459).
THEOREM JustifiedSends == Spec => []SendsJustified
<1>1. AdapterInv => SendsJustified
  BY CountBounds, AdapterAssumption DEF AdapterInv, SendsJustified
<1>. QED BY <1>1, AdapterInductive, PTL

\* An entry of the cache is never replaced or removed (models/cache.py:102-131).
THEOREM CacheIsStable == Spec => CacheStable
<1>1. ASSUME AdapterInv, [Next]_vars
      PROVE  \A k \in DOMAIN cache : k \in DOMAIN cache' /\ cache'[k] = cache[k]
  <2>1. CASE UNCHANGED cache
    BY <2>1
  <2>2. CASE \E e \in Envelopes : SendDirect(e) \/ SendThroughGateway(e)
    <3>1. PICK e : Send /\ cache' \in {cache, CacheAfter(e)}
      <4>1. PICK e \in Envelopes : SendDirect(e) \/ SendThroughGateway(e)
        BY <2>2
      <4>2. Send /\ (Receive(e) \/ Receive(Stamped(e)) \/ TransportRaises(StampRefusal(e, MaxResponseBytes)))
        BY <4>1 DEF SendDirect, SendThroughGateway
      <4>. QED BY <4>2 DEF Receive, FailAttempt, Succeed, TransportRaises
    <3>. QED BY <1>1, <3>1, CacheAfterFacts, AdapterAssumption DEF Send
  <2>3. CASE ~ \E e \in Envelopes : SendDirect(e) \/ SendThroughGateway(e)
    <3>1. UNCHANGED cache
      BY <1>1, <2>3 DEF Next, AdapterStep, ClientStep, vars, CacheHit, CacheMiss, SendTimesOut,
           GatewayRefuses, FailAttempt, TransportRaises, Parse, SelectAction, GenerateLanguage,
           LanguageRefused, Begin, Restart
    <3>. QED BY <3>1
  <2>. QED BY <2>1, <2>2, <2>3
<1>. QED BY <1>1, AdapterInductive, PTL DEF Spec, CacheStable

-----------------------------------------------------------------------------
(* Every call runs down *)

\* How many steps the adapter can still take in a call: a look-up, the attempts and a
\* parse in each round, and at most one round after the first.
StepsLeft ==
  LET round == MaxRetries + 3
      repair == IF call.invalid = NoText THEN round ELSE 0
  IN CASE pc = "lookup" -> round + repair
       [] pc = "send"   -> round - attempt + repair
       [] pc = "parse"  -> 1 + repair
       [] OTHER         -> 0

\* No step of the adapter leaves as many steps as there were.
CallRunsDown == [][AdapterStep => StepsLeft' < StepsLeft]_vars

\* The invariant makes it a number, which is zero between calls.
LEMMA StepsLeftIs ==
  ASSUME AdapterAssumption, AdapterInv
  PROVE  StepsLeft \in Nat /\ (StepsLeft = 0 <=> pc = "idle")
<1>1. /\ MaxRetries \in Nat /\ attempt \in 1..(MaxRetries + 1)
      /\ pc \in {"idle", "lookup", "send", "parse"}
  BY DEF AdapterAssumption, AdapterInv, TypeOK, CallTypeOK
<1>. QED BY <1>1 DEF StepsLeft

\* An answer or a failure ends the attempts, or the next attempt begins.
LEMMA ReceiveRunsDown ==
  ASSUME AdapterAssumption, AdapterInv, Send,
         NEW envelope, Receive(envelope)
  PROVE  StepsLeft' < StepsLeft
<1>1. /\ MaxRetries \in Nat /\ attempt \in 1..(MaxRetries + 1)
      /\ pc = "send" /\ call' = call
  BY DEF AdapterAssumption, AdapterInv, TypeOK, CallTypeOK, Send
<1>2. ASSUME NEW category, FailAttempt(category)
      PROVE  StepsLeft' < StepsLeft
  <2>1. \/ attempt < MaxRetries + 1 /\ attempt' = attempt + 1 /\ pc' = pc
        \/ pc' = "idle"
    BY <1>2 DEF FailAttempt, MayRetry, End
  <2>. QED BY <1>1, <2>1 DEF StepsLeft
<1>3. ASSUME Succeed(envelope)
      PROVE  StepsLeft' < StepsLeft
  <2>1. pc' \in {"idle", "parse"}
    BY <1>3 DEF Succeed, End
  <2>. QED BY <1>1, <2>1 DEF StepsLeft
<1>. QED BY <1>2, <1>3 DEF Receive

\* A parse ends the call or begins the one repair, for the text it met is some text.
LEMMA ParseRunsDown ==
  ASSUME AdapterAssumption, AdapterInv, Parse
  PROVE  StepsLeft' < StepsLeft
<1>1. /\ MaxRetries \in Nat /\ pc = "parse" /\ reply # NoText /\ call \in Calls
  BY DEF AdapterAssumption, AdapterInv, TypeOK, CallTypeOK, TextInv, Parse
<1>2. \/ pc' = "idle"
      \/ /\ call.invalid = NoText
         /\ call' = [call EXCEPT !.invalid = reply]
         /\ pc' = "lookup"
  BY DEF Parse, End, Repairable
<1>3. CASE pc' = "idle"
  BY <1>1, <1>3 DEF StepsLeft
<1>4. CASE /\ call.invalid = NoText
           /\ call' = [call EXCEPT !.invalid = reply]
           /\ pc' = "lookup"
  <2>1. call'.invalid = reply
    BY <1>1, <1>4 DEF Calls
  <2>. QED BY <1>1, <1>4, <2>1 DEF StepsLeft
<1>. QED BY <1>2, <1>3, <1>4

\* Every step of the adapter takes the call closer to its end.
LEMMA StepRunsDown ==
  ASSUME AdapterAssumption, AdapterInv, AdapterStep
  PROVE  StepsLeft' < StepsLeft
<1>1. /\ MaxRetries \in Nat /\ attempt \in 1..(MaxRetries + 1)
      /\ pc \in {"idle", "lookup", "send", "parse"}
  BY DEF AdapterAssumption, AdapterInv, TypeOK, CallTypeOK
<1>2. CASE CacheHit
  <2>1. pc = "lookup" /\ pc' \in {"idle", "parse"} /\ call' = call
    BY <1>2 DEF CacheHit, End
  <2>. QED BY <1>1, <2>1 DEF StepsLeft
<1>3. CASE CacheMiss
  BY <1>1, <1>3 DEF CacheMiss, StepsLeft
<1>4. CASE SendTimesOut
  <2>1. Send /\ FailAttempt("timeout") /\ pc = "send" /\ call' = call
    BY <1>4 DEF SendTimesOut, Send
  <2>2. \/ attempt < MaxRetries + 1 /\ attempt' = attempt + 1 /\ pc' = pc
        \/ pc' = "idle"
    BY <2>1 DEF FailAttempt, MayRetry, End
  <2>. QED BY <1>1, <2>1, <2>2 DEF StepsLeft
<1>5. ASSUME Send, NEW category, TransportRaises(category)
      PROVE  StepsLeft' < StepsLeft
  <2>1. pc = "send" /\ pc' = "idle" /\ call' = call
    BY <1>5 DEF Send, TransportRaises, End
  <2>. QED BY <1>1, <2>1 DEF StepsLeft
<1>6. CASE GatewayRefuses
  BY <1>5, <1>6 DEF GatewayRefuses
<1>7. CASE \E e \in Envelopes : SendDirect(e) \/ SendThroughGateway(e)
  <2>1. PICK e \in Envelopes : SendDirect(e) \/ SendThroughGateway(e)
    BY <1>7
  <2>2. CASE SendDirect(e)
    BY <2>2, ReceiveRunsDown DEF SendDirect
  <2>3. CASE SendThroughGateway(e)
    BY <1>5, <2>3, ReceiveRunsDown DEF SendThroughGateway
  <2>. QED BY <2>1, <2>2, <2>3
<1>8. CASE Parse
  BY <1>8, ParseRunsDown
<1>. QED BY <1>2, <1>3, <1>4, <1>6, <1>7, <1>8 DEF AdapterStep

\* Whatever the provider answers, no call goes on for ever: each step of the adapter
\* lowers a number that is zero when the call has ended (models/base.py:340-459).
THEOREM CallsRunDown ==
  Spec => [](StepsLeft \in Nat /\ (StepsLeft = 0 <=> pc = "idle")) /\ CallRunsDown
<1>1. AdapterInv => StepsLeft \in Nat /\ (StepsLeft = 0 <=> pc = "idle")
  BY StepsLeftIs, AdapterAssumption
<1>2. AdapterInv /\ [Next]_vars => [AdapterStep => StepsLeft' < StepsLeft]_vars
  BY StepRunsDown, AdapterAssumption
<1>. QED BY <1>1, <1>2, AdapterInductive, PTL DEF Spec, CallRunsDown
=============================================================================
