---------------------------- MODULE ModelAdapter ----------------------------
(***************************************************************************)
(* A two-stage model adapter (models/base.py) with its response cache      *)
(* (models/cache.py) and the transport it was given: the provider itself   *)
(* or the revision stamping gateway (gate3/gateway.py).                    *)
(*                                                                         *)
(* A client asks for actions and for language, one call at a time and as   *)
(* often as it likes; the provider may answer the same request differently *)
(* every time, late or not at all.  An adapter lives as long as its        *)
(* process, the cache outlives it.  A hash stands for what it is taken of: *)
(* a cache key for the prompt and the input, a decision id for the action  *)
(* text and its request.                                                   *)
(***************************************************************************)
EXTENDS ProviderReply

CONSTANTS
  Requests,        \* what the client asks about
  Texts,           \* what a model may say
  Envelopes,       \* what a provider may answer
  ApprovedTexts,   \* a body around one of these may be kept (the retention policy)
  CacheEnabled, PreserveRaw,  \* CacheSettings
  MaxRetries,      \* RetrySettings.max_transport_retries
  RequestBytes(_), MaxRequestBytes,  \* size of a request, and the gateway's limit
  MaxResponseBytes,                  \* its limit for a reply; an adapter has none
  MaxCalls         \* bounds the client's calls

\* What the adapter tests about an answer.
EnvelopeKinds ==
  [status : Statuses, bytes : Nat, json : BOOLEAN, reasoning : BOOLEAN, model : {"own", "other"},
   revision : {"own", "other", "absent"}, text : Texts \cup {NoText}]

ASSUME AdapterAssumption ==
  /\ Requests # {}
  /\ MaxRetries \in 0..2
  /\ MaxCalls \in Nat
  /\ CacheEnabled \in BOOLEAN /\ PreserveRaw \in BOOLEAN
  /\ NoText \notin Texts
  /\ ApprovedTexts \subseteq Texts \cup {NoText}
  /\ Envelopes \subseteq EnvelopeKinds

VARIABLES
  route,        \* which transport was injected
  cache,        \* key -> envelope, for the keys that have a file
  selected,     \* _selection_inputs: the decisions this adapter made
  call,         \* the call in progress, or the last one
  pc,           \* where it stands
  attempt,      \* the number of the next send
  reply,        \* the text that was obtained
  invocations,  \* the invocation records of this call
  sent,         \* how often the transport was used in this call
  answers,      \* history: what ended calls returned
  calls         \* history: how many calls there were

vars == <<route, cache, selected, call, pc, attempt, reply, invocations, sent, answers, calls>>

Stages == {"action", "language"}

NoCall == [stage |-> "action", request |-> CHOOSE r \in Requests : TRUE,
           decision |-> NoText, invalid |-> NoText]

Calls == [stage : Stages, request : Requests, decision : Texts \cup {NoText},
          invalid : Texts \cup {NoText}]

\* _cache_key: the prompt of a repair shows the invalid text and not the commitment.
Key(c) == IF c.invalid = NoText THEN c ELSE [c EXCEPT !.decision = NoText]

CallTypeOK ==
  /\ call \in Calls
  /\ pc \in {"idle", "lookup", "send", "parse"}
  /\ attempt \in 1..(MaxRetries + 1)
  /\ reply \in Texts \cup {NoText}
  /\ invocations \in Seq({invocations[i] : i \in DOMAIN invocations})

\* The adapter, its cache and the call in progress.
TypeOK ==
  /\ route \in {"direct", "gateway"}
  /\ DOMAIN cache \subseteq Calls
  /\ \A k \in DOMAIN cache : cache[k] \in EnvelopeKinds
  /\ selected \subseteq Requests \X Texts
  /\ CallTypeOK
  /\ sent \in Nat
  /\ calls \in 0..MaxCalls

Init ==
  /\ route \in {"direct", "gateway"}
  /\ cache = <<>>
  /\ selected = {}
  /\ call = NoCall
  /\ pc = "idle"
  /\ attempt = 1
  /\ reply = NoText
  /\ invocations = <<>>
  /\ sent = 0
  /\ answers = {}
  /\ calls = 0

-----------------------------------------------------------------------------
(* The client *)

Begin(stage, request, decision) ==
  /\ pc = "idle"
  /\ calls < MaxCalls
  /\ call' = [stage |-> stage, request |-> request, decision |-> decision, invalid |-> NoText]
  /\ pc' = "lookup"
  /\ attempt' = 1
  /\ reply' = NoText
  /\ invocations' = <<>>
  /\ sent' = 0
  /\ calls' = calls + 1
  /\ UNCHANGED <<route, cache, selected, answers>>

SelectAction(request) == Begin("action", request, NoText)

GenerateLanguage(request, decision) ==
  /\ <<request, decision>> \in selected
  /\ Begin("language", request, decision)

\* A decision of another adapter, or one that belongs to another request.
LanguageRefused(request, decision) ==
  /\ pc = "idle"
  /\ calls < MaxCalls
  /\ ActionVerdict(decision) = "ok"
  /\ <<request, decision>> \notin selected
  /\ calls' = calls + 1
  /\ UNCHANGED <<route, cache, selected, call, pc, attempt, reply, invocations, sent, answers>>

\* A process ends and another one creates an adapter on the same cache.
Restart ==
  /\ pc # "idle" \/ selected # {}
  /\ selected' = {}
  /\ pc' = "idle"
  /\ invocations' = <<>>
  /\ sent' = 0
  /\ UNCHANGED <<route, cache, call, attempt, reply, answers, calls>>

-----------------------------------------------------------------------------
(* One invocation *)

Record(category, hit, text) ==
  Append(invocations, [key |-> Key(call), attempt |-> IF hit THEN 1 ELSE attempt, hit |-> hit,
                       category |-> category, text |-> text])

End(category, text, replayable) ==
  /\ pc' = "idle"
  /\ answers' = answers \cup
       {[stage |-> call.stage, request |-> call.request, decision |-> call.decision,
         category |-> category, text |-> text, replayable |-> replayable]}

CacheHit ==
  /\ pc = "lookup"
  /\ CacheEnabled
  /\ Key(call) \in DOMAIN cache
  /\ LET envelope == cache[Key(call)]
     IN IF Extraction(envelope) = "ok"
        THEN /\ invocations' = Record("ok", TRUE, envelope.text)
             /\ reply' = envelope.text
             /\ pc' = "parse"
             /\ UNCHANGED answers
        ELSE End(Extraction(envelope), NoText, FALSE) /\ UNCHANGED <<invocations, reply>>
  /\ UNCHANGED <<route, cache, selected, call, attempt, sent, calls>>

\* Mutants of CacheMiss: the cache is not looked at, or a hit is waited for.
CacheMissAnyway ==
  /\ pc = "lookup"
  /\ attempt' = 1
  /\ pc' = "send"
  /\ UNCHANGED <<route, cache, selected, call, reply, invocations, sent, answers, calls>>

CacheMissWithoutCache ==
  /\ pc = "lookup"
  /\ ~CacheEnabled
  /\ attempt' = 1
  /\ pc' = "send"
  /\ UNCHANGED <<route, cache, selected, call, reply, invocations, sent, answers, calls>>

\* No entry, or no cache: the first attempt.
CacheMiss ==
  /\ pc = "lookup"
  /\ ~ (CacheEnabled /\ Key(call) \in DOMAIN cache)
  /\ attempt' = 1
  /\ pc' = "send"
  /\ UNCHANGED <<route, cache, selected, call, reply, invocations, sent, answers, calls>>

\* Mutant of MayRetry: any failure is tried again.
MayRetryAny(category) == attempt < MaxRetries + 1
\* Mutant of MayRetry: one attempt too many.
MayRetryOnceMore(category) == category \in Retryable /\ attempt <= MaxRetries + 1
MayRetry(category) == category \in Retryable /\ attempt < MaxRetries + 1

\* A failed attempt: tried again if it may be and the retries are not used up.
FailAttempt(category) ==
  /\ invocations' = Record(category, FALSE, NoText)
  /\ IF MayRetry(category)
     THEN /\ attempt' = attempt + 1
          /\ UNCHANGED <<pc, answers>>
     ELSE /\ End(IF category \in Retryable THEN "retry_exhausted" ELSE category, NoText, FALSE)
          /\ UNCHANGED attempt
  /\ UNCHANGED <<cache, reply>>

\* An exception other than TimeoutError passes through _invoke_text, which records nothing.
TransportRaises(category) ==
  /\ End(category, NoText, FALSE)
  /\ UNCHANGED <<cache, attempt, reply, invocations>>

Retained(envelope) == PreserveRaw /\ envelope.text \in ApprovedTexts

\* SafeResponseCache.put keeps an entry that is there and refuses another one.
PutConflict(envelope) ==
  /\ CacheEnabled /\ Retained(envelope)
  /\ Key(call) \in DOMAIN cache
  /\ cache[Key(call)] # envelope

With(f, key, value) == [k \in DOMAIN f \cup {key} |-> IF k = key THEN value ELSE f[k]]

\* Mutant of CacheAfter: the retention policy is not asked.
CacheAfterAll(envelope) ==
  IF CacheEnabled /\ Key(call) \notin DOMAIN cache
  THEN With(cache, Key(call), envelope) ELSE cache
CacheAfter(envelope) ==
  IF CacheEnabled /\ Retained(envelope) /\ Key(call) \notin DOMAIN cache
  THEN With(cache, Key(call), envelope) ELSE cache

Succeed(envelope) ==
  /\ invocations' = Record("ok", FALSE, envelope.text)
  /\ cache' = CacheAfter(envelope)
  /\ IF PutConflict(envelope)
     THEN End("cache_corrupt", NoText, FALSE) /\ UNCHANGED reply
     ELSE pc' = "parse" /\ reply' = envelope.text /\ UNCHANGED answers
  /\ UNCHANGED attempt

\* What the adapter makes of an answer: the status first, then the envelope.
Receive(envelope) ==
  IF envelope.status # "ok"
  THEN FailAttempt(envelope.status)
  ELSE IF Extraction(envelope) # "ok"
       THEN FailAttempt(Extraction(envelope))
       ELSE Succeed(envelope)

Send ==
  /\ pc = "send"
  /\ sent' = sent + 1
  /\ UNCHANGED <<route, selected, call, calls>>

SendTimesOut ==
  /\ Send
  /\ route = "gateway" => RequestBytes(Key(call)) <= MaxRequestBytes
  /\ FailAttempt("timeout")

SendDirect(envelope) ==
  /\ Send
  /\ route = "direct"
  /\ Receive(envelope)

GatewayRefuses ==
  /\ Send
  /\ route = "gateway"
  /\ RequestRefusal(RequestBytes(Key(call)), MaxRequestBytes) # "ok"
  /\ TransportRaises(RequestRefusal(RequestBytes(Key(call)), MaxRequestBytes))

SendThroughGateway(envelope) ==
  /\ Send
  /\ route = "gateway"
  /\ RequestRefusal(RequestBytes(Key(call)), MaxRequestBytes) = "ok"
  /\ IF StampRefusal(envelope, MaxResponseBytes) # "ok"
     THEN TransportRaises(StampRefusal(envelope, MaxResponseBytes))
     ELSE Receive(Stamped(envelope))

\* Mutant of Repairable: semantic errors are repaired too.
RepairableAny(verdict) == call.invalid = NoText
\* Mutant of Repairable: a repair is repaired again.
RepairableAgain(verdict) == verdict \in MalformedCategories
Repairable(verdict) == verdict \in MalformedCategories /\ call.invalid = NoText

\* The single repair of a malformed text; nothing else is repaired.
Parse ==
  LET verdict == Verdict(call.stage, reply)
      replayable == \A i \in DOMAIN invocations :
                      invocations[i].category = "ok" => invocations[i].key \in DOMAIN cache
  IN /\ pc = "parse"
     /\ UNCHANGED <<route, cache, attempt, reply, invocations, sent, calls>>
     /\ IF verdict = "ok"
        THEN /\ End("ok", reply, replayable)
             /\ selected' = IF call.stage = "action"
                            THEN selected \cup {<<call.request, reply>>} ELSE selected
             /\ UNCHANGED call
        ELSE IF Repairable(verdict)
        THEN /\ call' = [call EXCEPT !.invalid = reply]
             /\ pc' = "lookup"
             /\ UNCHANGED <<selected, answers>>
        ELSE /\ End(IF call.invalid # NoText
                       /\ verdict \in MalformedCategories \cup SemanticCategories
                    THEN "malformed_output_unrepaired" ELSE verdict, NoText, replayable)
             /\ UNCHANGED <<selected, call>>

-----------------------------------------------------------------------------
AdapterStep ==
  \/ CacheHit \/ CacheMiss
  \/ SendTimesOut \/ GatewayRefuses
  \/ \E e \in Envelopes : SendDirect(e) \/ SendThroughGateway(e)
  \/ Parse

ClientStep ==
  \/ \E r \in Requests : SelectAction(r)
  \/ \E r \in Requests, d \in Texts : GenerateLanguage(r, d) \/ LanguageRefused(r, d)

Next == AdapterStep \/ ClientStep \/ Restart

Spec == Init /\ [][Next]_vars

\* A call runs in the client's thread, and the transport returns or times out.
FairSpec == Spec /\ WF_vars(AdapterStep)

-----------------------------------------------------------------------------
(* Properties *)

\* A cached entry can always be used: it was a complete answer of the frozen
\* model when it was written, and the policy approved it (cache.get's users
\* count on both, models/base.py:355).
CacheSound ==
  \A k \in DOMAIN cache : /\ cache[k].status = "ok"
                          /\ Extraction(cache[k]) = "ok"
                          /\ Retained(cache[k])

\* Put never finds another answer under its key: whatever was stored before is
\* found by the look-up that precedes every send (models/cache.py:102).
NoCacheConflict == \A a \in answers : a.category # "cache_corrupt"

\* An entry of the cache is never replaced or removed, by any adapter.
CacheStable ==
  [][\A k \in DOMAIN cache : k \in DOMAIN cache' /\ cache'[k] = cache[k]]_vars

SameCall(a, c) ==
  a.stage = c.stage /\ a.request = c.request /\ a.decision = c.decision

\* Once a call has ended with all its answers in the cache, repeating it, in this
\* process or a later one, uses no transport ...
ReplayNeverSends ==
  \A a \in answers : a.replayable /\ SameCall(a, call) => pc # "send"

\* ... and ends in the same way, however the provider would answer by then.
ReplayAgrees ==
  \A a, b \in answers :
    a.replayable /\ b.replayable /\ SameCall(a, b)
      => a.category = b.category /\ a.text = b.text

\* A request is sent again only right after a transient failure of the same
\* request, and at most MaxRetries times.
RetriesOnlyTransient ==
  \A i \in DOMAIN invocations :
    LET r == invocations[i]
    IN /\ r.attempt <= MaxRetries + 1
       /\ r.attempt > 1 => /\ i > 1
                           /\ invocations[i - 1].key = r.key
                           /\ invocations[i - 1].attempt = r.attempt - 1
                           /\ invocations[i - 1].category \in Retryable

\* A call repairs at most once, and only a text that it received and that was malformed.
RepairsOnlyMalformed ==
  \A i \in DOMAIN invocations :
    LET r == invocations[i]
    IN r.key.invalid # NoText =>
         /\ Verdict(r.key.stage, r.key.invalid) \in MalformedCategories
         /\ \E j \in 1..(i - 1) : /\ invocations[j].key.invalid = NoText
                                  /\ invocations[j].text = r.key.invalid

\* However the provider behaves, one call costs a bounded number of sends.
SendsBounded == sent <= 2 * (MaxRetries + 1)

\* What the cache holds can always be used, and no answer ever contradicts it.
CacheConsistent == CacheSound /\ NoCacheConflict

\* A repeated call whose answers are stored needs no network and ends as before.
ReplayFaithful == ReplayNeverSends /\ ReplayAgrees

\* Every send has its reason, and there are at most so many.
SendsJustified == RetriesOnlyTransient /\ RepairsOnlyMalformed /\ SendsBounded

-----------------------------------------------------------------------------
(* The inductive invariant *)

\* A call before its repair.
Opening(c) == [c EXCEPT !.invalid = NoText]

\* The records of a call are about it or its repair, and none contradicts the cache.
RecordsInv ==
  \A i \in DOMAIN invocations :
    LET r == invocations[i]
    IN /\ r.key \in {Opening(call), Key(call)}
       /\ r.category = "ok" /\ r.key \in DOMAIN cache => cache[r.key].text = r.text

\* Before a send the look-up found nothing, and a retry follows a transient failure.
SendInv ==
  pc = "send" =>
    /\ ~ (CacheEnabled /\ Key(call) \in DOMAIN cache)
    /\ attempt > 1 => /\ invocations # <<>>
                      /\ invocations[Len(invocations)].key = Key(call)
                      /\ invocations[Len(invocations)].attempt = attempt - 1
                      /\ invocations[Len(invocations)].category \in Retryable

\* A text is parsed once it is on record, under a key that had none before.
TextInv ==
  /\ pc \in {"lookup", "send"} =>
       \A i \in DOMAIN invocations : invocations[i].category = "ok" => invocations[i].key # Key(call)
  /\ pc = "parse" =>
       /\ invocations # <<>>
       /\ invocations[Len(invocations)].key = Key(call)
       /\ invocations[Len(invocations)].category = "ok"
       /\ invocations[Len(invocations)].text = reply
       /\ reply # NoText

\* A repair is under way because of a malformed text on record.
RepairInv ==
  pc # "idle" /\ call.invalid # NoText =>
    /\ Verdict(call.stage, call.invalid) \in MalformedCategories
    /\ \E j \in DOMAIN invocations : /\ invocations[j].key = Opening(call)
                                     /\ invocations[j].category = "ok"
                                     /\ invocations[j].text = call.invalid

\* How often the transport was used so far.
CountInv ==
  LET before == IF call.invalid = NoText THEN 0 ELSE MaxRetries + 1
  IN sent <= CASE pc = "lookup" -> before
               [] pc = "send" -> before + attempt - 1
               [] pc = "parse" -> before + MaxRetries + 1
               [] OTHER -> 2 * (MaxRetries + 1)

\* What a replay finds in the cache and what it ends with.
ReplayEnd(a, text, repaired) ==
  LET verdict == Verdict(a.stage, text)
  IN /\ a.category = IF repaired /\ verdict \in MalformedCategories \cup SemanticCategories
                     THEN "malformed_output_unrepaired" ELSE verdict
     /\ a.text = IF verdict = "ok" THEN text ELSE NoText

OpeningKey(a) ==
  [stage |-> a.stage, request |-> a.request, decision |-> a.decision, invalid |-> NoText]
RepairKey(a, text) ==
  [stage |-> a.stage, request |-> a.request, decision |-> NoText, invalid |-> text]

Replayed(a) ==
  /\ OpeningKey(a) \in DOMAIN cache
  /\ LET text == cache[OpeningKey(a)].text
     IN IF Verdict(a.stage, text) \in MalformedCategories
        THEN /\ RepairKey(a, text) \in DOMAIN cache
             /\ ReplayEnd(a, cache[RepairKey(a, text)].text, TRUE)
        ELSE ReplayEnd(a, text, FALSE)

ReplayInv == \A a \in answers : a.replayable => Replayed(a)

AdapterInv ==
  /\ TypeOK
  /\ ~CacheEnabled => DOMAIN cache = {}
  /\ CacheConsistent
  /\ RetriesOnlyTransient /\ RepairsOnlyMalformed
  /\ RecordsInv /\ SendInv /\ TextInv /\ RepairInv /\ CountInv
  /\ ReplayInv

\* Every call ends.
CallEnds == pc # "idle" ~> pc = "idle"
=============================================================================
