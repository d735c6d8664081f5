----------------------------- MODULE LlmProvider ------------------------------
(***************************************************************************)
(* Which request agent-llm can send at all: the providers it knows, the     *)
(* environment their URLs and keys need, and the route of a model.          *)
(*                                                                         *)
(* A model is known by the family its name tells.  The URLs, headers and    *)
(* bodies of the requests are left out.                                     *)
(***************************************************************************)
EXTENDS Naturals

Families == {"gpt-5", "claude-", "gemini-", "other"}

ProviderIds ==
  {"openai", "openai_compatible", "openai_responses_compatible", "anthropic",
   "google", "opencode"}

\* built_in_providers: the kind of response of each.
Response(id) ==
  CASE id \in {"openai", "openai_compatible"} -> "OpenAi"
    [] id = "openai_responses_compatible" -> "OpenAiResponses"
    [] id = "anthropic" -> "Anthropic"
    [] id = "google" -> "Google"
    [] OTHER -> "OpenCode"

\* route_opencode
OpenCodeRoute(model) ==
  CASE model = "claude-" -> "Anthropic"
    [] model = "gpt-5" -> "OpenAiResponses"
    [] model = "gemini-" -> "Google"
    [] OTHER -> "OpenAi"

\* ProviderRouter::route: only OpenAI itself moves its gpt-5 models to the
\* responses endpoint; a compatible provider does not.
Route(id, model) ==
  CASE Response(id) = "OpenCode" -> OpenCodeRoute(model)
    [] id = "openai" /\ model = "gpt-5" -> "OpenAiResponses"
    [] OTHER -> Response(id)

\* What stops a request before it is sent: a URL that an environment variable
\* completes, a route nothing implements, a key that is not there.
UrlFromEnvironment(id) ==
  id \in {"openai_compatible", "openai_responses_compatible", "opencode"}

Sendable(id, model, environment) ==
  /\ UrlFromEnvironment(id) => "url" \in environment
  /\ Route(id, model) = "OpenAiResponses"
  /\ "key" \in environment

=============================================================================
