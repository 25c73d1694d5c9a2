------------------------------ MODULE MCServe -------------------------------
(* A copilotd from its command line to its end: the configuration that it  *)
(* comes to, the serve lifecycle with requests of both transports, the     *)
(* drain of its WebSocket sessions, and the watch over the hooks of both   *)
(* directions of one, each by itself.                                      *)
EXTENDS ServeLifecycle, Configuration, HookWatch, TLC

CONSTANTS session

VARIABLES
    subject,
    admissionClosed, drainCtx, baseCtx, counted, sessions, forced,
    hpc, pump, terminal, failure, released, closing, ending,
    spc, deadline, snapshot, http, cut, drained

sessionVars ==
    <<admissionClosed, drainCtx, baseCtx, counted, sessions, forced,
      hpc, pump, terminal, failure, released, closing, ending, spc, deadline, snapshot, http, cut, drained>>

Drain == INSTANCE WsDrain WITH
    Handlers <- {session}, expired <- deadline, wsErr <- cut, outcome <- drained

-----------------------------------------------------------------------------
(* The settings: one of every kind and every check, of three commands.     *)

Setting(kind, check, secret, default) == [kind |-> kind, check |-> check, secret |-> secret, default |-> default]
Rows ==
    ("log-level" :> Setting("string", "one of", FALSE, "info")) @@
    ("addr" :> Setting("string", "address", FALSE, "h:1")) @@
    ("apikey" :> Setting("string", "required", TRUE, "")) @@
    ("write-timeout" :> Setting("number", "positive", FALSE, 2)) @@
    ("refresh" :> Setting("number", "non-negative", FALSE, 1)) @@
    ("meter" :> Setting("switch", "none", FALSE, FALSE)) @@
    ("usage-db-path" :> Setting("string", "database path", FALSE, "db")) @@
    ("vscode-version" :> Setting("string", "version", FALSE, "1.2.3")) @@
    ("aliases" :> Setting("aliases", "none", FALSE, <<>>)) @@
    ("reviewers" :> Setting("reviewers", "none", FALSE, <<>>)) @@
    ("model-overrides" :> Setting("models", "none", FALSE, <<>>)) @@
    ("github-client-id" :> Setting("string", "required", FALSE, "app")) @@
    ("timezone" :> Setting("optional", "given if at all", TRUE, [given |-> FALSE, text |-> ""]))
Verbs ==
    ("serve" :> (DOMAIN Rows \ {"github-client-id", "timezone"})) @@
    ("login" :> {"log-level", "github-client-id"}) @@
    ("usage" :> {"write-timeout", "timezone"})
Numbers == ("0" :> 0) @@ ("3" :> 3) @@ ("-1" :> -1)
Switches == ("true" :> TRUE) @@ ("0" :> FALSE)
Parts ==
    ("" :> <<>>) @@ ("a=b" :> << <<"a", "b">> >>) @@ ("c=c,,a=z" :> << <<"c", "c">>, <<>>, <<"a", "z">> >>) @@
    ("a" :> << <<"a">> >>) @@ ("a=" :> << <<"a", "">> >>) @@ ("a=b,a=b" :> << <<"a", "b">>, <<"a", "b">> >>) @@
    ("a=?" :> << <<"a", "?">> >>)
Ports == ("h:1" :> 1) @@ ("h:65536" :> 65536)
Levels == "log-level" :> {"info", "debug"}

(* One setting at a time in every layer, beside the required key: each     *)
(* text of its own, in the file, the environment and up to two flags.      *)
TextsOf(s) ==
    CASE Rows[s].kind = "number" -> DOMAIN Numbers \cup {"x"}
      [] Rows[s].kind = "switch" -> DOMAIN Switches \cup {"x"}
      [] Rows[s].kind \in {"aliases", "reviewers", "models"} -> DOMAIN Parts
      [] Rows[s].check = "one of" -> {"info", "debug", "loud", ""}
      [] Rows[s].check = "address" -> {"h:1", "h:65536", "h"}
      [] Rows[s].check = "version" -> {"1.2.3", "2.0.0", "v1"}
      [] OTHER -> {"", "u", "d/"}
Layer(s) == {<<>>} \cup {s :> t : t \in TextsOf(s)}
Flags(s) == {<<>>} \cup {<< <<s, t>> >> : t \in TextsOf(s)} \cup {<< <<s, CHOOSE t \in TextsOf(s) : t # "">>, <<s, u>> >> : u \in TextsOf(s)}
Key == "apikey" :> "k"
Invocation(verb, flags, operands, environment, files) ==
    [verb |-> verb, flags |-> flags, operands |-> operands, environment |-> environment, files |-> files]
Layered(verb, s) ==
    {Invocation(verb, << <<"config", "f">> >> \o flags, 0, environment @@ Key, "f" :> (file @@ ("unknown" :> "?"))) :
        flags \in Flags(s), environment \in Layer(s), file \in Layer(s)}
CommandLines ==
    UNION {Layered("serve", s) : s \in Verbs["serve"]} \cup
    Layered("login", "github-client-id") \cup Layered("usage", "timezone") \cup
    {Invocation(verb, <<>>, operands, <<>>, <<>>) : verb \in {"version", "help", "server"}, operands \in 0..2} \cup
    {Invocation("serve", flags, 0, Key @@ environment, "f" :> ("addr" :> "h")) :
        flags \in {<<>>, << <<"config", "f">> >>, << <<"config", "">> >>, << <<"config", "g">> >>, << <<"timezone", "u">> >>},
        environment \in {<<>>, "config" :> "f", "config" :> ""}}

-----------------------------------------------------------------------------
LifecycleAtRest == Init /\ meter /\ cancelled /\ listener = "none"
ConfigAtRest == ConfigInit /\ input = Invocation("help", <<>>, 0, <<>>, <<>>)

ServeInit ==
    /\ Drain!Init /\ WatchInit
    /\ \/ subject = "lifecycle" /\ Init /\ ConfigAtRest
       \/ subject \in {"drain", "hooks"} /\ LifecycleAtRest /\ ConfigAtRest
       \/ subject = "configuration" /\ LifecycleAtRest /\ ConfigInit

ServeNext ==
    /\ UNCHANGED subject
    /\ \/ subject = "lifecycle" /\ Next /\ UNCHANGED <<sessionVars, configVars, watchVars>>
       \/ subject = "drain" /\ Drain!Next /\ UNCHANGED <<vars, configVars, watchVars>>
       \/ subject = "hooks" /\ WatchNext /\ UNCHANGED <<vars, sessionVars, configVars>>
       \/ subject = "configuration" /\ ConfigNext /\ UNCHANGED <<vars, sessionVars, watchVars>>

ServeSpec ==
    /\ ServeInit /\ [][ServeNext]_<<subject, vars, sessionVars, configVars, watchVars>>
    /\ \/ subject = "lifecycle" /\ Fairness
       \/ subject = "drain" /\ Drain!Fairness
       \/ subject \in {"hooks", "configuration"} /\ WatchFairness    \* which asks nothing at rest

(* However late a stop comes and whatever does not end or answer, both the *)
(* lifecycle and the drain of its sessions end.                            *)
EveryStopEnds ==
    /\ subject = "lifecycle" => StopEnds
    /\ subject = "drain" => Drain!ShutdownEnds
=============================================================================
