---------------------------- MODULE ModelGateway ----------------------------
(***************************************************************************)
(* One structured model call: the settings that select a provider, the     *)
(* pinned transport, and the classification of what comes back into a      *)
(* typed response or one of the gateway's errors.                          *)
(*                                                                         *)
(* A payload is the record of the fields the adapters look at; texts are   *)
(* abstracted to "object" (JSON object), "value" (other JSON) or "text".   *)
(***************************************************************************)
EXTENDS Integers, Sequences, SequencesExt, TLC

CONSTANTS B1Model, C1Model   \* the model each provider is pinned to

Providers == {"openai", "anthropic"}

Fails(kind) == [ok |-> FALSE, error |-> kind]

\* ModelGatewayUnavailable and its subclasses: what callers catch
Unavailables == {"unavailable", "timeout", "protocol", "refusal", "truncated"}

-----------------------------------------------------------------------------
(* Configuration.                                                          *)

\* model_provider_from_mapping
ProviderOf(environ) == IF environ.provider = "" THEN "openai" ELSE environ.provider

\* ModelGatewaySettings and AnthropicGatewaySettings, with their validate:
\* everything but the key is a pinned default.
B1Settings(environ) == [key |-> environ.openai_key, model |-> B1Model, seconds |-> 10]
C1Settings(environ) == [key |-> environ.anthropic_key, model |-> C1Model, seconds |-> 60]

\* model_adapter_from_mapping: never the other provider
Adapter(environ) ==
    LET provider == ProviderOf(environ)
        settings == IF provider = "anthropic" THEN C1Settings(environ) ELSE B1Settings(environ)
    IN  IF provider \notin Providers \/ settings.key = ""
        THEN Fails("configuration")
        ELSE [ok |-> TRUE, provider |-> provider, settings |-> settings]

\* StructuredModelRequest.validate
RequestValid(request) == request.instruction # "" /\ request.input # "" /\ request.schema # ""

-----------------------------------------------------------------------------
(* Transport and payloads.                                                 *)

\* _post_pinned_json: what urlopen and json.loads make of the connection
Post(url, pinned, wire) ==
    CASE url # pinned -> Fails("configuration")
      [] url = pinned /\ wire.event = "timeout" -> Fails("timeout")
      [] url = pinned /\ wire.event \in {"http_error", "os_error"} -> Fails("unavailable")
      [] url = pinned /\ wire.event \in {"undecodable", "not_object"} -> Fails("protocol")
      [] OTHER -> [ok |-> TRUE, payload |-> wire.payload]

\* _output_text: the first output_text part of the first message item that
\* has one
OutputText(items) ==
    LET parts == FlattenSeq([i \in DOMAIN items |->
                               IF items[i].type = "message" THEN items[i].content ELSE << >>])
        texts == SelectSeq(parts, LAMBDA part : part.type = "output_text")
    IN  IF texts = << >> THEN "missing" ELSE texts[1].text

\* _anthropic_output_text: exactly one text block, and none that would act
AnthropicOutputText(blocks) ==
    LET answers == SelectSeq(blocks, LAMBDA b : b.type \notin {"thinking", "redacted_thinking"})
    IN  IF Len(answers) = 1 /\ answers[1].type = "text" THEN answers[1].text ELSE "missing"

\* _usage_from_payload; the provider's own total is kept.
Usage(u) ==
    IF u.input >= 0 /\ u.output >= 0 /\ u.total >= 0
    THEN [ok |-> TRUE, input |-> u.input, output |-> u.output, total |-> u.total]
    ELSE Fails("protocol")

\* _anthropic_usage_from_payload: cached tokens have no price, so none may be
\* reported.
AnthropicUsage(u) ==
    IF u.input >= 0 /\ u.output >= 0 /\ u.cached = 0
    THEN [ok |-> TRUE, input |-> u.input, output |-> u.output, total |-> u.input + u.output]
    ELSE Fails("protocol")

\* The typed response, or the protocol error of output that is no object
Structured(payload, text, usage, provider) ==
    IF text = "object"
    THEN [ok |-> TRUE, provider |-> provider, model |-> payload.model, usage |-> usage]
    ELSE Fails("protocol")

\* _response_from_provider_payload
OpenAIResponse(payload, model) ==
    LET usage == Usage(payload.usage) IN
    IF ~usage.ok \/ payload.id = "" \/ payload.model # model THEN Fails("protocol")
    ELSE Structured(payload, OutputText(payload.output), usage, "openai")

\* _anthropic_response_from_payload: the usage is checked before the reason it
\* stopped, because a refusal is billed too.
AnthropicResponse(payload, model) ==
    LET usage == AnthropicUsage(payload.usage) IN
    IF ~payload.assistant \/ payload.id = "" \/ payload.model # model \/ ~usage.ok
    THEN Fails("protocol")
    ELSE CASE payload.stop = "refusal" -> Fails("refusal")
           [] payload.stop = "max_tokens" -> Fails("truncated")
           [] payload.stop = "end_turn" ->
                Structured(payload, AnthropicOutputText(payload.content), usage, "anthropic")
           [] OTHER -> Fails("protocol")

\* OpenAIResponsesAdapter.generate: one call, no retry
OpenAIGenerate(settings, wire) ==
    LET posted == Post("openai", "openai", wire) IN
    IF posted.ok THEN OpenAIResponse(posted.payload, settings.model) ELSE posted

\* AnthropicMessagesAdapter.generate
AnthropicGenerate(settings, wire) ==
    LET posted == Post("anthropic", "anthropic", wire) IN
    IF posted.ok THEN AnthropicResponse(posted.payload, settings.model) ELSE posted

Generate(adapter, wire) ==
    IF adapter.provider = "anthropic"
    THEN AnthropicGenerate(adapter.settings, wire)
    ELSE OpenAIGenerate(adapter.settings, wire)

-----------------------------------------------------------------------------
(* Measurement and price of calls, where metrics are configured.           *)

\* ModelInvocationMeasurement: usage is there exactly when the call succeeded.
MeasurementValid(m) ==
    /\ m.outcome \in {"succeeded", "failed"}
    /\ m.duration >= 0
    /\ (m.outcome = "succeeded") <=> (m.tokens # << >>)
    /\ \A i \in DOMAIN m.tokens : m.tokens[i] >= 0

\* _record_measurement; generate_structured records one whether the call
\* returns or raises.  A response of another model than the priced one is an
\* error and is not recorded.
Measurements(pricing, duration, response) ==
    CASE ~response.ok ->
           {[pricing |-> pricing, outcome |-> "failed", duration |-> duration, tokens |-> << >>]}
      [] response.ok /\ response.provider = pricing.provider /\ response.model = pricing.model ->
           {[pricing |-> pricing, outcome |-> "succeeded", duration |-> duration,
             tokens |-> <<response.usage.input, response.usage.output, response.usage.total>>]}
      [] OTHER -> {}

\* _cost_microusd: rates are per million tokens, and a part counts as one.
CostMicrousd(pricing, input, output) ==
    (input * pricing.input_rate + output * pricing.output_rate + 999999) \div 1000000

\* _nearest_rank_percentile, of a non-empty sequence of durations
NearestRank(values, percent) ==
    LET rank == (percent * Len(values) + 99) \div 100
    IN  SortSeq(values, <)[IF rank < 1 THEN 1 ELSE rank]

\* _summary_for_pricing, of the sequence ms of measurements of one pricing
SummaryOf(pricing, ms) ==
    LET successful == SelectSeq(ms, LAMBDA m : m.outcome = "succeeded")
        Tokens(i) == FoldLeft(LAMBDA sum, m : sum + m.tokens[i], 0, successful)
        durations == [k \in DOMAIN ms |-> ms[k].duration]
    IN  [invocations |-> Len(ms), successes |-> Len(successful),
         failures |-> Len(ms) - Len(successful),
         tokens |-> <<Tokens(1), Tokens(2), Tokens(3)>>,
         cost |-> CostMicrousd(pricing, Tokens(1), Tokens(2)),
         p50 |-> NearestRank(durations, 50), p95 |-> NearestRank(durations, 95)]

\* build_cost_success_report: one summary for each pricing that was used
CostSuccessReport(ms) ==
    [pricing \in {ms[i].pricing : i \in DOMAIN ms} |->
       SummaryOf(pricing, SelectSeq(ms, LAMBDA m : m.pricing = pricing))]
=============================================================================
