--------------------------- MODULE MCApplication ---------------------------
(* Application.tla over five configuration files and those that differ from Plain   *)
(* in one place, and over short conversations with two tools.                       *)
EXTENDS Application

Ev(kind) == Event(kind, "none", "", "string")
S(text) == Event("scalar", "none", text, "string")
I(text) == Event("scalar", "none", text, "integer")
Null == Event("scalar", "none", "~", "null")

Map(pairs) == <<Ev("map_start")>> \o pairs \o <<Ev("map_end")>>
Document(entries, settings) ==
  <<Ev("stream_start"), Ev("document_start"), Ev("map_start"), S("model_list"), Ev("seq_start")>>
    \o entries \o <<Ev("seq_end")>> \o settings
    \o <<Ev("map_end"), Ev("document_end"), Ev("stream_end")>>
Entry(name, model, rest) ==
  Map(<<S("model_name"), S(name), S("litellm_params")>> \o Map(<<S("model"), S(model)>> \o rest))
Key == <<S("api_key"), S("K")>>
Https == <<S("api_base"), S("https:u")>>

MasterKey == <<S("general_settings")>> \o Map(<<S("master_key"), S("K")>>)

Mixed ==
  Document(Entry("a", "anthropic/m", Key) \o Entry("b", "openai_compatible/m", <<S("api_base"), S("http:u")>>)
             \o Entry("a", "gemini/m", Key), MasterKey)
Plain ==
  Document(Entry("a", "openai_compatible/m", Key \o Https \o <<S("timeout"), I("5")>>)
             \o Entry("b", "deepseek/m", Key),
           <<S("general_settings")>> \o
             Map(<<S("master_key"), S("K"), S("overall_timeout"), I("5"), S("max_in_flight"), I("5")>>))
Open == Document(Entry("a", "gemini/m", Key), <<>>)
Unlisted == Document(<<>>, MasterKey)
\* One model, of a target that gives arguments on as they come and one that wants objects.
OneRoute ==
  Document(Entry("a", "openai_compatible/m", Key \o Https) \o Entry("a", "gemini/m", Key), MasterKey)

Keys == {"model_name", "model", "api_key", "api_base", "timeout", "master_key",
         "overall_timeout", "max_in_flight"}
Texts == {"a", "b", "model", "", "anthropic/m", "openai_compatible/m", "gemini/m", "deepseek/m", "gemini/m.n", "K",
          "K8", "http:u", "https:u", "5", "0", "-1", "99", "~", "<<"}
EditTexts == {"a", "b", "model", "", "gemini/m.n", "K8", "http:u", "5", "99", "<<"}
OneEdit(doc) ==
  UNION {{ReplaceAt(doc, i, Event("scalar", "tag", doc[i].text, doc[i].reads)),
          ReplaceAt(doc, i, Ev("alias")), ReplaceAt(doc, i, Null),
          SubSeq(doc, 1, i - 1) \o <<Ev("seq_start"), Ev("seq_end")>> \o SubSeq(doc, i + 1, Len(doc))}
         \cup {ReplaceAt(doc, i, S(text)) : text \in EditTexts}
         \cup {ReplaceAt(doc, i, I(text)) : text \in {"0", "-1", "99"}}
           : i \in {j \in DOMAIN doc : doc[j].kind = "scalar"}}
  \cup UNION {{SubSeq(doc, 1, i - 1) \o SubSeq(doc, i + 2, Len(doc)),
               SubSeq(doc, 1, i + 1) \o SubSeq(doc, i, Len(doc))}
           : i \in {j \in DOMAIN doc : doc[j].text \in Keys}}
  \cup {SubSeq(doc, 1, i) \o <<Ev("error")>> : i \in 0 .. Len(doc) - 1}
  \cup {ReplaceAt(doc, 3, Event("map_start", "anchor", "", "string")),
        Front(doc) \o <<Ev("document_start")>>,
        <<Ev("stream_start"), Ev("stream_end")>>}

TheDocuments == {Mixed, Open, Unlisted, OneRoute, Plain} \cup OneEdit(Plain)

TheNames == [t \in Texts |-> [length |-> IF t = "" THEN 0 ELSE 1, first |-> t \in {"a", "b", "model"}, rest |-> TRUE]]
TheModels ==
  [t \in Texts |->
     CASE t \in {"anthropic/m", "gemini/m", "deepseek/m", "openai_compatible/m"} ->
            [prefix |-> CHOOSE p \in Providers : p \o "/m" = t, suffix |-> "segment"]
       [] t = "gemini/m.n" -> [prefix |-> "gemini", suffix |-> "plain"]
       [] OTHER -> [prefix |-> "none", suffix |-> "none"]]
TheSecrets ==
  [t \in Texts |-> [reference |-> t \in {"K", "K8", "99"}, named |-> t # "99",
                    value |-> IF t = "K8" THEN "utf8" ELSE "ascii"]]
TheUrls ==
  [t \in Texts |-> [scheme |-> CASE t = "http:u" -> "http" [] t \in {"https:u", "99"} -> "https" [] OTHER -> "none",
                    flaw |-> IF t = "99" THEN "query" ELSE "none"]]
TheNumbers ==
  [t \in Texts |-> CASE t = "5" -> 5 [] t = "99" -> 99 [] t = "-1" -> -1 [] OTHER -> 0]

----------------------------------------------------------------------------
F == <<"f">>
G == <<"g">>
TwoTools == {F, G}
NoTool == <<"h">>

Say(role) == Message(role, TRUE, <<>>, NoId)
TheOpenings == {<<Say("user")>>, <<Say("system"), Say("developer"), Say("user")>>}

Body(parts, reason) ==
  [sound |-> TRUE, parts |-> parts, reason |-> reason, choices |-> 1, index |-> 0, blocked |-> FALSE]
Words == [part |-> "text", id |-> NoId, name |-> F, args |-> ""]
Call(id, name, args) == [part |-> "call", id |-> id, name |-> name, args |-> args]

TheBodies ==
  {Body(<<Words>>, reason) : reason \in {"stop", "length", "unheard_of", "null", "overloaded", "tool_calls"}}
  \cup {Body(<<Call(1, F, "object"), Call(1, G, "object")>>, "tool_calls"),
        Body(<<Words, Call(NoId, F, "object")>>, "tool_calls"),
        Body(<<Call(2, G, "junk")>>, "tool_calls"),
        Body(<<Call(EmptyId, NoTool, "object")>>, "tool_calls"),
        Body(<<>>, "content_filter"),
        [Body(<<>>, "stop") EXCEPT !.choices = 0, !.blocked = TRUE],
        [Body(<<Words>>, "stop") EXCEPT !.index = 1],
        [Body(<<Words>>, "stop") EXCEPT !.sound = FALSE]}
============================================================================
