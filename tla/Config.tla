------------------------------- MODULE Config -------------------------------
(***************************************************************************)
(* The configuration: from the tree that YamlReader gives to the raw one   *)
(* (config/yaml.rs), and from that to the settings and routes that are     *)
(* served (config/validate.rs, secrets.rs, runtime.rs).  Every refusal     *)
(* ends the process in the same way, so the conditions are predicates.     *)
(*                                                                         *)
(* What the helpers on strings find in a text is given by constants: the   *)
(* characters themselves are left out.                                     *)
(***************************************************************************)
EXTENDS Integers, Sequences, SequencesExt

CONSTANTS
  Names,     \* of a text as model_name: its length, whether first and rest are allowed
  Models,    \* as model: its prefix and what its suffix is
  Secrets,   \* as secret: whether it is a reference, its name good, and the value
  Urls,      \* as api_base: its scheme, and what is wrong with the rest
  Numbers,   \* of a decimal integer: its value
  MaxTimeout, MaxInFlight

\* The empty text has no length.
ASSUME ConfigAssumption == Names[""].length = 0

\* A key that is not in its mapping, or is null.
Absent == "(absent)"

Providers == {"openai", "mistral", "deepseek", "openai_compatible", "anthropic", "gemini"}

----------------------------------------------------------------------------
(***************************************************************************)
(* deserialize_raw_config: closed mappings, required members, and types.   *)
(* A loop over the entries keeps the last value of a key.                  *)
(***************************************************************************)
Has(node, key) == key \in ToSet(node.keys)

Value(node, key) ==
  node.items[CHOOSE i \in DOMAIN node.keys :
               node.keys[i] = key /\ \A j \in DOMAIN node.keys : j > i => node.keys[j] # key]

\* parse_string, parse_optional_string, parse_optional_number, parse_optional_integer.
String(node)         == node.node = "scalar" /\ node.reads = "string"
OptionalString(node) == node.node = "scalar" /\ node.reads \in {"string", "null"}
Number(node)         == node.node = "scalar" /\ node.reads = "integer"
Size(node)           == Number(node) /\ Numbers[node.text] >= 0

Mapping(node, keys) == node.node = "map" /\ ToSet(node.keys) \subseteq keys
Each(node, keys, Good(_)) == \A key \in keys : Has(node, key) => Good(Value(node, key))

GoodParams(node) ==
  /\ Mapping(node, {"model", "api_key", "api_base", "timeout"})
  /\ Has(node, "model")
  /\ Each(node, {"model"}, String)
  /\ Each(node, {"api_key", "api_base"}, OptionalString)
  /\ Each(node, {"timeout"}, Number)

GoodEntry(node) ==
  /\ Mapping(node, {"model_name", "litellm_params"})
  /\ Has(node, "model_name") /\ String(Value(node, "model_name"))
  /\ Has(node, "litellm_params") /\ GoodParams(Value(node, "litellm_params"))

GoodList(node) == node.node = "seq" /\ \A i \in DOMAIN node.items : GoodEntry(node.items[i])

GoodSettings(node) ==
  /\ Mapping(node, {"master_key", "request_timeout", "overall_timeout", "max_in_flight"})
  /\ Each(node, {"master_key"}, OptionalString)
  /\ Each(node, {"request_timeout", "overall_timeout"}, Number)
  /\ Each(node, {"max_in_flight"}, Size)

Deserializes(node) ==
  /\ Mapping(node, {"model_list", "general_settings"})
  /\ Each(node, {"model_list"}, GoodList)
  /\ Each(node, {"general_settings"}, GoodSettings)

Optional(node, key) ==
  IF Has(node, key) /\ Value(node, key).reads # "null" THEN Value(node, key).text ELSE Absent

----------------------------------------------------------------------------
(* build_runtime_config, first the settings.                               *)

\* resolve_secret: only Gemini's key is not put into a header.
ResolvesSecret(text, header) ==
  LET secret == Secrets[text]
  IN secret.reference /\ secret.named
     /\ secret.value \in {"ascii"} \cup (IF header THEN {} ELSE {"utf8"})

Within(node, key, limit) ==
  Optional(node, key) # Absent => Numbers[Optional(node, key)] \in 1..limit

\* A master key is looked at though authentication is off.
ValidSettings(tree, noAuth) ==
  IF ~Has(tree, "general_settings") THEN noAuth
  ELSE LET raw == Value(tree, "general_settings")
           key == Optional(raw, "master_key")
       IN /\ IF key = Absent THEN noAuth ELSE ResolvesSecret(key, TRUE)
          /\ Within(raw, "request_timeout", MaxTimeout)
          /\ Within(raw, "overall_timeout", MaxTimeout)
          /\ Within(raw, "max_in_flight", MaxInFlight)

Given(node, key, default) ==
  IF Optional(node, key) = Absent THEN default ELSE Numbers[Optional(node, key)]

Settings(tree) ==
  IF ~Has(tree, "general_settings")
  THEN [master_key |-> FALSE, request_timeout |-> 30, overall_timeout |-> 120, max_in_flight |-> 64]
  ELSE LET raw == Value(tree, "general_settings")
       IN [master_key      |-> Optional(raw, "master_key") # Absent,
           request_timeout |-> Given(raw, "request_timeout", 30),
           overall_timeout |-> Given(raw, "overall_timeout", 120),
           max_in_flight   |-> Given(raw, "max_in_flight", 64)]

----------------------------------------------------------------------------
(* Then each entry of the list.                                            *)
Branded(provider) == provider # "openai_compatible"
InHeader(provider) == provider # "gemini"

ValidName(text) ==
  LET name == Names[text] IN name.length \in 1..128 /\ name.first /\ name.rest

\* validate_target_model; "segment" is what Gemini allows, "plain" what the others do.
ValidModel(text) ==
  LET model == Models[text]
  IN model.prefix \in Providers
     /\ model.suffix \in {"segment"} \cup (IF model.prefix = "gemini" THEN {} ELSE {"plain"})

\* Mutant: only the branded providers must be spoken to over TLS.
ValidBaseBranded(text, provider, keyed) ==
  LET url == Urls[text]
  IN /\ url.scheme \in {"http", "https"}
     /\ Branded(provider) => url.scheme = "https"
     /\ url.flaw = "none"

\* validate_and_normalize_api_base.
ValidBase(text, provider, keyed) ==
  LET url == Urls[text]
  IN /\ url.scheme \in {"http", "https"}
     /\ Branded(provider) \/ keyed => url.scheme = "https"
     /\ url.flaw = "none"

ValidEntry(entry) ==
  LET params   == Value(entry, "litellm_params")
      provider == Models[Optional(params, "model")].prefix
      key      == Optional(params, "api_key")
      base     == Optional(params, "api_base")
  IN /\ ValidName(Optional(entry, "model_name"))
     /\ ValidModel(Optional(params, "model"))
     /\ IF key = Absent THEN ~Branded(provider) ELSE ResolvesSecret(key, InHeader(provider))
     /\ IF base = Absent THEN Branded(provider) ELSE ValidBase(base, provider, key # Absent)
     /\ Within(params, "timeout", MaxTimeout)

Target(entry, settings) ==
  LET params == Value(entry, "litellm_params")
      base   == Optional(params, "api_base")
  IN [model    |-> Optional(params, "model"),
      provider |-> Models[Optional(params, "model")].prefix,
      api_key  |-> Optional(params, "api_key") # Absent,
      https    |-> base = Absent \/ Urls[base].scheme = "https",
      timeout  |-> Given(params, "timeout", settings.request_timeout)]

Entries(tree) == IF Has(tree, "model_list") THEN Value(tree, "model_list").items ELSE <<>>

Builds(tree, noAuth) ==
  /\ ValidSettings(tree, noAuth)
  /\ Entries(tree) # <<>>
  /\ \A i \in DOMAIN Entries(tree) : ValidEntry(Entries(tree)[i])

----------------------------------------------------------------------------
(* The routes: by name, in the order of the file.                          *)
RouteAt(routes, name) == {i \in DOMAIN routes : routes[i].model_name = name}

\* Mutant: an entry joins the route before it, if that is the last one's.
GroupAdjacent(routes, name, target) ==
  IF routes # <<>> /\ Last(routes).model_name = name
  THEN [routes EXCEPT ![Len(routes)].targets = Append(@, target)]
  ELSE Append(routes, [model_name |-> name, targets |-> <<target>>])

Group(routes, name, target) ==
  IF RouteAt(routes, name) # {}
  THEN [routes EXCEPT ![Min(RouteAt(routes, name))].targets = Append(@, target)]
  ELSE Append(routes, [model_name |-> name, targets |-> <<target>>])

Routes(tree) ==
  LET Add(routes, entry) ==
        Group(routes, Optional(entry, "model_name"), Target(entry, Settings(tree)))
  IN FoldLeft(Add, <<>>, Entries(tree))

RuntimeConfig(tree) == [general_settings |-> Settings(tree), routes |-> Routes(tree)]

\* RuntimeConfig::get_route: <<>> if there is none.
GetRoute(routes, name) ==
  IF RouteAt(routes, name) = {} THEN <<>> ELSE routes[Min(RouteAt(routes, name))].targets
============================================================================
