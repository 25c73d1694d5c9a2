---------------------------- MODULE Configuration ---------------------------
(***************************************************************************)
(* From a command line, the environment and a TOML file to one accepted    *)
(* configuration (internal/config, and the commands of cmd/copilotd): four *)
(* layers over one table of settings, checked when all are in.  A text is  *)
(* what is written; the constants say which numbers, switches and maps the *)
(* texts are.                                                              *)
(***************************************************************************)
EXTENDS Integers, Sequences

CONSTANTS
    Commands,           \* the settings of each command that has any
    Row,                \* of each setting: its kind, check, secrecy and default
    Number, Switch,     \* the texts that are numbers or switches, and which
    Segments,           \* of a text, its parts between commas: <<>>, <<text>> or <<key, value>>
    Port, Versions, Directories, Allowed, Garbled, \* the texts that some checks are about
    Invocations         \* a verb, its flags in order, operands, environment and files

Kinds == {"string", "optional", "number", "switch", "aliases", "reviewers", "models"}

(* Flags are a sequence; a setting is of one of the kinds; and neither the *)
(* path of the file nor what a command line may be refused for is one.     *)
ASSUME ConfigurationAssumption ==
    /\ \A c \in Invocations : DOMAIN c.flags = 1..Len(c.flags) /\ Len(c.flags) \in Nat
    /\ \A verb \in DOMAIN Commands : \A s \in Commands[verb] :
         Row[s].kind \in Kinds /\ s \notin {"config", "flag", "operand"}

VARIABLES
    input,              \* the invocation
    step,               \* how far it has come
    parsed,             \* how many of its flags have been read
    stored, set,        \* the flags' values, and those that were given
    config,             \* the configuration so far
    logged, refusal     \* what was logged of it, or why it was refused

configVars == <<input, step, parsed, stored, set, config, logged, refusal>>

Blank == {"", " "}
Settings == IF input.verb \in DOMAIN Commands THEN Commands[input.verb] ELSE {}
Defaults == [s \in Settings |-> Row[s].default]

ConfigInit ==
    /\ input \in Invocations
    /\ step = "parsing" /\ parsed = 0
    /\ stored = Defaults /\ set = {} /\ config = <<>> /\ logged = {} /\ refusal = {}

-----------------------------------------------------------------------------
(* Texts.                                                                  *)

(* What a map refuses of a pair, beyond what every map does.               *)
validatePair(kind, pair) ==
    /\ kind = "aliases" => pair[1] # pair[2]
    /\ kind = "models" => {pair[1], pair[2]} \cap Garbled = {}

(* Of the parts that are not blank, each a key and a value, no key twice.  *)
parseStringMap(kind, raw) ==
    LET parts == Segments[raw]
        pairs == {i \in DOMAIN parts : parts[i] # <<>>}
        good == /\ \A i \in pairs :
                     Len(parts[i]) = 2 /\ parts[i][1] # "" /\ parts[i][2] # "" /\ validatePair(kind, parts[i])
                /\ \A i, j \in pairs : parts[i][1] = parts[j][1] => i = j
    IN  IF good THEN {[k \in {parts[i][1] : i \in pairs} |-> parts[CHOOSE i \in pairs : parts[i][1] = k][2]]} ELSE {}

(* The values that a text has for a setting: one, or none.                 *)
Parse(s, raw) ==
    CASE Row[s].kind = "string" -> {raw}
      [] Row[s].kind = "optional" -> {[given |-> TRUE, text |-> raw]}
      [] Row[s].kind = "number" -> {Number[t] : t \in {raw} \cap DOMAIN Number}
      [] Row[s].kind = "switch" -> {Switch[t] : t \in {raw} \cap DOMAIN Switch}
      [] Row[s].kind \in {"aliases", "reviewers", "models"} -> parseStringMap(Row[s].kind, raw)

Check(s, value) ==
    CASE Row[s].check = "none" -> TRUE
      [] Row[s].check = "positive" -> value > 0
      [] Row[s].check = "non-negative" -> value >= 0
      [] Row[s].check = "one of" -> value \in Allowed[s]
      [] Row[s].check = "required" -> value \notin Blank
      [] Row[s].check = "address" -> value \in DOMAIN Port /\ Port[value] \in 0..65535
      [] Row[s].check = "version" -> value \in Versions
      [] Row[s].check = "database path" -> value \notin Blank /\ value \notin Directories
      [] Row[s].check = "given if at all" -> ~(value.given /\ value.text = "")

-----------------------------------------------------------------------------
Refuse(reasons) ==
    /\ step' = "refused" /\ refusal' = reasons
    /\ UNCHANGED <<input, parsed, stored, set, config, logged>>

(* The command line: a verb that there is, with flags of its own, each     *)
(* text a value of its flag's; a flag given twice has its last.            *)
ParseFlag ==
    /\ step = "parsing" /\ parsed < Len(input.flags)
    /\ LET flag == input.flags[parsed + 1]
       IN  IF flag[1] \notin Settings \cup {"config"} THEN Refuse({"flag"})
           ELSE LET values == IF flag[1] = "config" THEN {flag[2]} ELSE Parse(flag[1], flag[2])
                IN  IF values = {} THEN Refuse({flag[1]})
                    ELSE /\ \E v \in values : stored' = [s \in DOMAIN stored \cup {flag[1]} |->
                                                            IF s = flag[1] THEN v ELSE stored[s]]
                         /\ set' = set \cup {flag[1]} /\ parsed' = parsed + 1
                         /\ UNCHANGED <<input, step, config, logged, refusal>>

(* The verb runs; rejectSurplusOperands, and help of a command that there  *)
(* may not be.                                                             *)
Dispatch ==
    /\ step = "parsing" /\ parsed = Len(input.flags)
    /\ IF input.verb \notin DOMAIN Commands \cup {"version", "help"} THEN Refuse({"verb"})
       ELSE IF input.operands > (IF input.verb = "help" THEN 1 ELSE 0) THEN Refuse({"operand"})
       ELSE \/ /\ step' = IF input.verb \in DOMAIN Commands THEN "file" ELSE "told"
               /\ config' = Defaults
               /\ UNCHANGED <<input, parsed, stored, set, logged, refusal>>
            \/ input.verb = "help" /\ input.operands = 1 /\ Refuse({"operand"})

(* resolveConfigPath: an empty path, of the flag or else of the            *)
(* environment, is no file.                                                *)
resolveConfigPath ==
    IF "config" \in set THEN stored["config"]
    ELSE IF "config" \in DOMAIN input.environment THEN input.environment["config"] ELSE ""

Overlay(texts, next) ==
    LET given == Settings \cap DOMAIN texts
        bad == {s \in given : Parse(s, texts[s]) = {}}
    IN  IF bad # {} THEN Refuse(bad)
        ELSE /\ config' = [s \in Settings |-> IF s \in given THEN CHOOSE v \in Parse(s, texts[s]) : TRUE ELSE config[s]]
             /\ step' = next
             /\ UNCHANGED <<input, parsed, stored, set, logged, refusal>>

(* parseTOMLKeys and the file's layer; keys of no setting are left alone.  *)
OverlayFile ==
    /\ step = "file"
    /\ IF resolveConfigPath = "" THEN step' = "environment" /\ UNCHANGED <<input, parsed, stored, set, config, logged, refusal>>
       ELSE IF resolveConfigPath \notin DOMAIN input.files THEN Refuse({"config"})
       ELSE Overlay(input.files[resolveConfigPath], "environment")

OverlayEnvironment == step = "environment" /\ Overlay(input.environment, "flags")

(* Mutant: also a flag that was not given, at its default.                 *)
EveryFlag ==
    /\ step = "flags" /\ step' = "check"
    /\ config' = [s \in Settings |-> stored[s]]
    /\ UNCHANGED <<input, parsed, stored, set, logged, refusal>>

applyFlags ==
    /\ step = "flags" /\ step' = "check"
    /\ config' = [s \in Settings |-> IF s \in set THEN stored[s] ELSE config[s]]
    /\ UNCHANGED <<input, parsed, stored, set, logged, refusal>>

(* Every setting is checked, and the command starts with a line that logs  *)
(* all but the secrets (LogValue; usage logs none).                        *)
Validate ==
    /\ step = "check"
    /\ LET bad == {s \in Settings : ~Check(s, config[s])}
       IN  IF bad # {} THEN Refuse(bad)
           ELSE /\ step' = "running"
                /\ logged' = IF input.verb = "usage" THEN {} ELSE {s \in Settings : ~Row[s].secret}
                /\ UNCHANGED <<input, parsed, stored, set, config, refusal>>

ConfigNext == ParseFlag \/ Dispatch \/ OverlayFile \/ OverlayEnvironment \/ applyFlags \/ Validate

ConfigSpec == ConfigInit /\ [][ConfigNext]_configVars

-----------------------------------------------------------------------------
(* The texts written for a setting, and its value by the precedence of the *)
(* layers: the last flag, the environment, the file, the default.          *)
Given(s) == {i \in DOMAIN input.flags : input.flags[i][1] = s}
LastGiven(s) == CHOOSE i \in Given(s) : \A j \in Given(s) : j <= i

FileText ==
    LET path == IF Given("config") # {} THEN input.flags[LastGiven("config")][2]
                ELSE IF "config" \in DOMAIN input.environment THEN input.environment["config"] ELSE ""
    IN  IF path # "" /\ path \in DOMAIN input.files THEN input.files[path] ELSE <<>>

Written(s) ==
    {input.flags[i][2] : i \in Given(s)}
      \cup {input.environment[n] : n \in {s} \cap DOMAIN input.environment}
      \cup {FileText[n] : n \in {s} \cap DOMAIN FileText}

Effective(s) ==
    IF Given(s) # {} THEN Parse(s, input.flags[LastGiven(s)][2])
    ELSE IF s \in DOMAIN input.environment THEN Parse(s, input.environment[s])
    ELSE IF s \in DOMAIN FileText THEN Parse(s, FileText[s])
    ELSE {Row[s].default}

(* A command runs with every setting at the value of its highest layer, a  *)
(* map whole and never merged, and passing its check; a text that is no    *)
(* value refuses the command even below a layer that would have overridden *)
(* it, while what another command's settings say refuses nothing; and no   *)
(* secret is logged.                                                       *)
HighestLayerWins ==
    /\ step = "running" =>
         \A s \in Settings :
            /\ config[s] \in Effective(s) /\ Check(s, config[s])
            /\ \A text \in Written(s) : Parse(s, text) # {}
            /\ s \in logged => ~Row[s].secret
    /\ step = "refused" =>
         \A s \in refusal \cap Settings :
            \/ \E text \in Written(s) : Parse(s, text) = {}
            \/ \A value \in Effective(s) : ~Check(s, value)
=============================================================================
