------------------------------ MODULE Startup ------------------------------
(***************************************************************************)
(* main (main.rs): arguments, file, parsing, configuration, and then       *)
(* either the report or the service.  The end of the service is in Gateway.*)
(***************************************************************************)
EXTENDS YamlReader, Config

CONSTANT Documents   \* what files may hold: sequences of the scanner's events

\* The scanner ends a stream once, as the last that it gives.
ASSUME DocumentsAssumption ==
  \A document \in Documents :
    /\ document \in Seq([kind : STRING, mark : STRING, text : STRING, reads : STRING])
    /\ \A i \in DOMAIN document : document[i].kind = "stream_end" => i = Len(document)

VARIABLES
  stage,    \* where main is
  code,     \* the exit code
  cli,      \* the arguments
  file,     \* history: the events of the file, until it is served
  config    \* RuntimeConfig

startVars == <<stage, code, cli, file, config, readerVars>>

Stages == {"arguments", "file", "parse", "deserialize", "built", "serving", "exited"}
CommandLines == [parsed : {"good", "bad", "help"}, no_auth : BOOLEAN, loopback : BOOLEAN,
                 validate : BOOLEAN]
NoConfig == [general_settings |-> [master_key |-> FALSE], routes |-> <<>>]

StartInit ==
  /\ stage = "arguments"
  /\ code = "none"
  /\ cli \in CommandLines
  /\ cli.parsed # "good" => ~cli.no_auth /\ cli.loopback /\ ~cli.validate
  /\ file \in Documents
  /\ events = file
  /\ config = NoConfig
  /\ ReaderInit

\* The process ends, and its data with it.
Exit(with) ==
  /\ stage' = "exited" /\ code' = with
  /\ file' = <<>> /\ config' = NoConfig
  /\ events' = <<>> /\ place' = "refused" /\ open' = <<>> /\ root' = NoNode
  /\ UNCHANGED cli

Goto(next) == stage' = next /\ UNCHANGED <<code, cli, file>>

\* Cli::validate_rules.
Rules == cli.no_auth => cli.loopback

ParseArguments ==
  /\ stage = "arguments"
  /\ cli.parsed = "good" /\ Rules
  /\ Goto("file")
  /\ UNCHANGED <<config, readerVars>>

RefuseArguments ==
  /\ stage = "arguments"
  /\ \/ cli.parsed = "help" /\ Exit("0")
     \/ cli.parsed = "bad" /\ Exit("2")
     \/ cli.parsed = "good" /\ ~Rules /\ Exit("2")

ReadFile ==
  /\ stage = "file"
  /\ Goto("parse")
  /\ UNCHANGED <<config, readerVars>>

ReadFileFails == stage = "file" /\ Exit("1")

\* parse_yaml_str.
Parse ==
  /\ stage = "parse"
  /\ ReaderNext
  /\ UNCHANGED <<stage, code, cli, file, config>>

ParseFails == stage = "parse" /\ place = "refused" /\ Exit("1")

Deserialize ==
  /\ stage = "parse" /\ place = "read"
  /\ Deserializes(root)
  /\ Goto("deserialize")
  /\ UNCHANGED <<config, readerVars>>

DeserializeFails == stage = "parse" /\ place = "read" /\ ~Deserializes(root) /\ Exit("1")

Build ==
  /\ stage = "deserialize"
  /\ Builds(root, cli.no_auth)
  /\ config' = RuntimeConfig(root)
  /\ root' = NoNode
  /\ Goto("built")
  /\ UNCHANGED <<events, place, open>>

BuildFails == stage = "deserialize" /\ ~Builds(root, cli.no_auth) /\ Exit("1")

\* --validate: the table is printed, with every key left out.
Validate == stage = "built" /\ cli.validate /\ Exit("0")

\* serve: the handlers and the listener.  The routes are handed over to the application.
Serve ==
  /\ stage = "built" /\ ~cli.validate
  /\ stage' = "serving"
  /\ file' = <<>>
  /\ config' = [NoConfig EXCEPT !.general_settings.master_key = config.general_settings.master_key]
  /\ UNCHANGED <<code, cli, readerVars>>

ServeFails == stage = "built" /\ ~cli.validate /\ Exit("1")

StartNext ==
  \/ ParseArguments \/ RefuseArguments
  \/ ReadFile \/ ReadFileFails
  \/ Parse \/ ParseFails
  \/ Deserialize \/ DeserializeFails
  \/ Build \/ BuildFails
  \/ Validate \/ ServeFails
============================================================================
