--------------------------- MODULE Configuration ---------------------------
(***************************************************************************)
(* How the program reads its configuration (src/src/config.rs): the        *)
(* command line is parsed argument by argument, then the process           *)
(* environment, the env file and the flags are merged, then every setting  *)
(* is read from the merged map and reported with its source.               *)
(*                                                                         *)
(* A launch is what the operator provides:                                 *)
(*   args   the command line, a sequence of tokens                         *)
(*   env    the process environment, a set of mentions                     *)
(*   file   the env file: whether it can be read, and its lines            *)
(*   disk   the state of the directories the settings name                 *)
(* A mention names a setting by one of its spellings and gives a text.     *)
(* Variables the program never reads are left out.                         *)
(***************************************************************************)
EXTENDS Integers, Sequences, FiniteSets

CONSTANT Launches   \* the launches considered

VARIABLES launch, phase, arg, cli, values, sources, config, report

parsing == <<arg, cli>>
merged  == <<values, sources>>
read    == <<config, report>>
configVars == <<launch, phase, parsing, merged, read>>

----------------------------------------------------------------------------
(* Settings and texts                                                      *)

\* The settings the rest of the program branches on, and how each is read.
Kind ==
    [WECHAT_TOKEN |-> "secret", WECHAT_APP_ID |-> "secret",
     WECHAT_APP_SECRET |-> "secret", WECHAT_ENCODING_AES_KEY |-> "secret",
     ADMIN_VIEW_KEY |-> "secret", GEMINI_API_KEY |-> "secret",
     TENCENT_LBS_KEY |-> "secret", WECHAT_ADMIN_OPENIDS |-> "list",
     DATABASE_URL |-> "string", WHITELIST_JOIN_COMMAND |-> "trimmed",
     WECHAT_ENCRYPTED_CALLBACK_ENABLED |-> "bool", WORKER_ENABLED |-> "bool",
     WORKER_RETRY_BASE_SECONDS |-> "number",
     AI_SOURCE_THREAD_WINDOW_MINUTES |-> "minutes"]

Keys == DOMAIN Kind

IsSecret(k) == Kind[k] \in {"secret", "list"}

\* Besides its name every key has a BRIDGE_ alias; two also have an old
\* spelling (WECHAT_APPID) and its alias.
Forms(k) == {"name", "alias"} \cup
            IF k \in {"WECHAT_APP_ID", "WECHAT_APP_SECRET"}
            THEN {"old", "oldAlias"} ELSE {}

\* A text is a word in a shape: blank, plain, with blanks around it, within
\* quotes (and blanks inside them), only separators, not of the key's kind,
\* or a number of minutes that overflows as seconds.
Shapes == {"blank", "plain", "padded", "quoted", "separators", "wrong", "huge"}

Absent  == [shape |-> "absent", word |-> "none"]
Default == [shape |-> "default", word |-> "none"]

IsBlank(text) == text.shape \in {"absent", "blank"}

Reshape(text, from, to) ==
    [text EXCEPT !.shape = IF @ = from THEN to ELSE @]

Trim(text) == Reshape(text, "padded", "plain")

\* load_env_file trims a value, then takes one pair of quotes off.
FileText(text) ==
    IF text.shape = "quoted" THEN Reshape(text, "quoted", "padded") ELSE Trim(text)

Exit(outcome) == phase' = outcome

----------------------------------------------------------------------------
(* The command line                                                        *)

NoCli == [envFile |-> FALSE, processEnv |-> FALSE, help |-> FALSE,
          version |-> FALSE, verbose |-> FALSE, command |-> "none",
          flags |-> [k \in Keys |-> Absent]]

Init ==
    /\ launch \in Launches
    /\ phase = "parse"
    /\ arg = 1
    /\ cli = NoCli
    /\ values = [k \in Keys |-> Absent]
    /\ sources = [k \in Keys |-> [layer |-> "default", alias |-> FALSE]]
    /\ config = [k \in Keys |-> Default]
    /\ report = [k \in Keys |-> [shown |-> Default, source |-> sources[k]]]

Token == launch.args[arg]

Parsing(kind) == phase = "parse" /\ arg <= Len(launch.args) /\ Token.kind = kind

\* next_arg_value: whatever does not start with two dashes, so -V too (-h is
\* left out).
HasNextValue ==
    /\ arg < Len(launch.args)
    /\ LET next == launch.args[arg + 1]
       IN \/ next.kind \in {"word", "text"}
          \/ next.kind = "switch" /\ next.name = "verbose"

Parsed(n) == /\ arg' = arg + n
             /\ UNCHANGED <<launch, phase, merged, read>>

\* Words name a command until one has been named.
ParseCommand ==
    /\ Parsing("word")
    /\ cli.command = "none"
    /\ cli' = [cli EXCEPT !.command = Token.name]
    /\ Parsed(1)

\* --help, --version, -V (whose text is "-V"), --use-process-env.
ParseSwitch ==
    /\ Parsing("switch")
    /\ cli' = [cli EXCEPT ![Token.name] = TRUE]
    /\ Parsed(1)

ParseEnvFile ==
    /\ Parsing("env-file")
    /\ HasNextValue
    /\ cli' = [cli EXCEPT !.envFile = TRUE]
    /\ Parsed(2)

\* --flag=VALUE or --flag VALUE; a repeated flag overwrites.
ParseFlag ==
    \/ /\ Parsing("flag=")
       /\ cli' = [cli EXCEPT !.flags[Token.name] = Token.text]
       /\ Parsed(1)
    \/ /\ Parsing("flag")
       /\ HasNextValue
       /\ cli' = [cli EXCEPT !.flags[Token.name] = launch.args[arg + 1].text]
       /\ Parsed(2)

\* A second command, an unknown option, a text nobody asked for, or a flag
\* without its value.
RefuseArgument ==
    /\ \/ Parsing("word") /\ cli.command /= "none"
       \/ Parsing("unknown")
       \/ Parsing("text")
       \/ (Parsing("flag") \/ Parsing("env-file")) /\ ~HasNextValue
    /\ Exit("failed")
    /\ UNCHANGED <<launch, parsing, merged, read>>

\* Help and version print and stop.
FinishParsing ==
    /\ phase = "parse"
    /\ arg > Len(launch.args)
    /\ phase' = IF cli.help \/ cli.version \/ cli.command = "version"
                THEN "ended" ELSE "process-env"
    /\ UNCHANGED <<launch, parsing, merged, read>>

----------------------------------------------------------------------------
(* The merge                                                               *)

Rivals(ms) == {m \in ms : \E n \in ms \ {m} : n.key = m.key}

\* The entries of a hash map come in any order, so of several spellings of
\* one key any may be inserted last.
Insertions(ms) ==
    {won \cup (ms \ Rivals(ms)) :
        won \in {w \in SUBSET Rivals(ms) :
                    \A m \in Rivals(ms) :
                        Cardinality({n \in w : n.key = m.key}) = 1}}

\* canonical_env_key: what is reported as an alias.
IsAlias(m) == m.form \in {"alias", "oldAlias"}

The(ms, k) == CHOOSE m \in ms : m.key = k

Named(ms) == {m.key : m \in ms}

SourceOf(m, layer) == [layer |-> layer, alias |-> IsAlias(m)]

\* A bug: a source once recorded is kept.
InsertOldSource(ms, layer) ==
    \E last \in Insertions(ms) :
      /\ values' = [k \in Keys |-> IF k \in Named(ms)
                                   THEN The(last, k).text ELSE values[k]]
      /\ sources' = [k \in Keys |-> IF k \in Named(ms) /\ values[k] = Absent
                                    THEN SourceOf(The(last, k), layer) ELSE sources[k]]

\* insert_input, for each entry of a layer.
Insert(ms, layer) ==
    \E last \in Insertions(ms) :
      /\ values' = [k \in Keys |-> IF k \in Named(ms)
                                   THEN The(last, k).text ELSE values[k]]
      /\ sources' = [k \in Keys |-> IF k \in Named(ms)
                                    THEN SourceOf(The(last, k), layer) ELSE sources[k]]

\* Blank variables of the process environment do not count.
EnvMentions == {m \in launch.env : cli.processEnv /\ ~IsBlank(m.text)}

MergeProcessEnv ==
    /\ phase = "process-env"
    /\ Insert(EnvMentions, "process-env")
    /\ phase' = "env-file"
    /\ UNCHANGED <<launch, parsing, read>>

Lines == {i \in DOMAIN launch.file.lines : launch.file.lines[i].key \in Keys}

\* The map load_env_file builds: of two lines with one spelling, the later.
\* Blank values do count.
FileMentions ==
    {[launch.file.lines[i] EXCEPT !.text = FileText(@)] :
        i \in {j \in Lines :
                 /\ cli.envFile
                 /\ \A l \in Lines : l > j =>
                      \/ launch.file.lines[l].key /= launch.file.lines[j].key
                      \/ launch.file.lines[l].form /= launch.file.lines[j].form}}

\* Every line is empty, a comment, or KEY=VALUE.
FileIsValid ==
    /\ launch.file.readable
    /\ \A i \in DOMAIN launch.file.lines : launch.file.lines[i].key /= "broken"

MergeEnvFile ==
    /\ phase = "env-file"
    /\ IF cli.envFile /\ ~FileIsValid
       THEN Exit("failed") /\ UNCHANGED merged
       ELSE phase' = "cli" /\ Insert(FileMentions, "env-file")
    /\ UNCHANGED <<launch, parsing, read>>

FlagMentions == {[key |-> k, form |-> "name", text |-> cli.flags[k]] :
                    k \in {l \in Keys : cli.flags[l] /= Absent}}

\* A bug: flags only fill what the other layers left open.
MergeFlagsLast ==
    /\ phase = "cli"
    /\ Insert({m \in FlagMentions : values[m.key] = Absent}, "cli")
    /\ phase' = "lookup"
    /\ UNCHANGED <<launch, parsing, read>>

MergeFlags ==
    /\ phase = "cli"
    /\ Insert(FlagMentions, "cli")
    /\ phase' = "lookup"
    /\ UNCHANGED <<launch, parsing, read>>

----------------------------------------------------------------------------
(* The settings                                                            *)

\* A bug: a text that does not parse passes.
AcceptsAll(k, text) == TRUE

\* Whether the getter of the key accepts a text that is not blank.  Numbers
\* are parsed untrimmed, booleans are trimmed first.
Accepts(k, text) ==
    CASE Kind[k] = "bool"    -> text.shape \in {"plain", "padded"}
      [] Kind[k] = "number"  -> text.shape \in {"plain", "huge"}
      [] Kind[k] = "minutes" -> text.shape \in {"plain", "huge"}
      [] OTHER               -> TRUE

\* get_string, get_bool, get_u64, get_optional_string, first_lookup,
\* parse_list_env: the value of a text, the default of a blank one.  Minutes
\* are multiplied by sixty in 64 bits and wrap around.
Get(k, text) ==
    IF IsBlank(text) THEN Default
    ELSE CASE Kind[k] \in {"bool", "trimmed"} -> Trim(text)
           [] Kind[k] = "list"    -> IF text.shape = "separators"
                                     THEN Default ELSE Trim(text)
           [] Kind[k] = "minutes" -> Reshape(text, "huge", "wrapped")
           [] OTHER               -> text

Readable(k) == IsBlank(values[k]) \/ Accepts(k, values[k])

\* A secret shows as its length only.
Shown(k, value) == IF IsSecret(k) THEN Reshape(value, value.shape, "redacted") ELSE value

\* config_report_entries: what the report says of a key.
Reported(k, value) == [shown |-> Shown(k, value), source |-> sources[k]]

Lookup ==
    /\ phase = "lookup"
    /\ \A k \in Keys : Readable(k)
    /\ config' = [k \in Keys |-> Get(k, values[k])]
    /\ report' = [k \in Keys |-> Reported(k, config'[k])]
    /\ phase' = "dispatch"
    /\ UNCHANGED <<launch, parsing, merged>>

\* A setting that does not parse ends the program; so does, in a build with
\* overflow checks, a number of minutes that overflows.
LookupFails ==
    /\ phase = "lookup"
    /\ \E k \in Keys : ~Readable(k) \/ Get(k, values[k]).shape = "wrapped"
    /\ Exit("failed")
    /\ UNCHANGED <<launch, parsing, merged, read>>

ConfigNext ==
    \/ ParseCommand \/ ParseSwitch \/ ParseEnvFile \/ ParseFlag
    \/ RefuseArgument \/ FinishParsing
    \/ MergeProcessEnv \/ MergeEnvFile \/ MergeFlags
    \/ Lookup \/ LookupFails

----------------------------------------------------------------------------
(* What the operator is entitled to expect                                 *)

\* The mentions of a key in the first of the flags, the env file and the
\* process environment that mentions it at all.
Deciding(k) ==
    LET Of(ms) == {m \in ms : m.key = k} IN
      IF Of(FlagMentions) /= {} THEN Of(FlagMentions)
      ELSE IF Of(FileMentions) /= {} THEN Of(FileMentions)
      ELSE Of(EnvMentions)

DecidingLayer(k) ==
    IF k \in Named(FlagMentions) THEN "cli"
    ELSE IF k \in Named(FileMentions) THEN "env-file"
    ELSE IF k \in Named(EnvMentions) THEN "process-env"
    ELSE "default"
============================================================================
