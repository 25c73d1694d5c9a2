--------------------------- MODULE MCCachedValues ---------------------------
(* Cached values, and, by itself, the catalog that is made from one: its   *)
(* fetch in three calls and the requests that render it.                   *)
(*                                                                         *)
(* Of two values one is pinned.  The other peeks at the version, of        *)
(* releases that share the floor's content or have their own; or it does   *)
(* not, and a release may be malformed.  Upstream starts at the floor and  *)
(* has a later release as its latest from then on.                         *)
EXTENDS CachedValues, Catalog, TLC

CONSTANTS value, pin, malformed

Contents == [floor |-> "a", refloor |-> "a", next |-> "b", broken |-> "c"]

Offered == IF peeking = {} THEN {"next", "broken"} ELSE {"refloor", "next"}

-----------------------------------------------------------------------------
(* Three commits of models.json under two tags, one of them malformed.     *)

VARIABLE subject

Optional == {"availability", "upgrade", "default_reasoning", "agent_reasoning", "verbosity", "patch_tool",
             "token_budget", "budget_flag", "guardian_reasoning", "guardian_sources", "template", "base"}
Required == {"display_name", "reasoning_levels", "shell_type", "visibility", "priority", "truncation_policy", "tools"}
Defaulted == {"speed_tiers", "service_tiers", "reasoning_summary", "web_search", "modalities"}
Model(slug, given) ==
    [slug |-> slug,
     fields |-> given @@ ("template" :> "given") @@ [f \in Required |-> "given"]
                      @@ [f \in Defaulted \cup Optional |-> "absent"]]
Documents ==
    [c1 |-> <<Model("m1", "base" :> "given"), Model("m2", "template" :> "absent" @@ "base" :> "given")>>,
     c2 |-> <<Model("m2", "verbosity" :> "given"), Model("m3", "shell_type" :> "given")>>,
     c3 |-> <<Model("m1", "template" :> "empty" @@ "base" :> "given")>>]

Copilot(id) ==
    [id |-> id, name |-> "n", vendor |-> "OpenAI", claude |-> FALSE, picker |-> TRUE, routes |-> {"r"}, window |-> "none"]
Claude(id) == [Copilot(id) EXCEPT !.vendor = "Anthropic", !.claude = TRUE]
Answers ==
    {malformed, <<>>, <<Copilot("m1"), Copilot("x")>>, <<Copilot("m3"), [Copilot("m2") EXCEPT !.window = "9"]>>,
     <<Copilot("x"), [Copilot("m1") EXCEPT !.picker = FALSE], [Copilot("m2") EXCEPT !.routes = {}]>>,
     <<[Copilot("m1") EXCEPT !.vendor = ""]>>, <<[Copilot("m2") EXCEPT !.name = ""]>>,
     <<Claude("c.5"), Claude("c-5")>>, <<Claude("c.5"), Copilot("c-6")>>}
Plain ==
    [surface |-> "openai", clientVersion |-> TRUE, codex |-> TRUE, route |-> "r", normalize |-> FALSE,
     overrideLimits |-> TRUE, aliases |-> "x" :> "m2" @@ "m1" :> "m2", reviewer |-> "m2", reviewers |-> "m1" :> "m3"]
RenderSettings ==
    {Plain, [Plain EXCEPT !.codex = FALSE],
     [Plain EXCEPT !.aliases = "x" :> "m1", !.overrideLimits = FALSE, !.reviewer = "x"],
     [Plain EXCEPT !.surface = "anthropic"], [Plain EXCEPT !.surface = "anthropic", !.normalize = TRUE]}

FirstCommits == [t1 |-> "c1", t2 |-> "c2"]
EmbeddedModels == <<Model("m1", "base" :> "given")>>
Dashes == "c.5" :> "c-5" @@ [i \in {"m1", "m2", "m3", "x", "c-5", "c-6", ""} |-> i]

-----------------------------------------------------------------------------
ValuesInit ==
    /\ Init /\ pinned = {pin} /\ pin \notin peeking
    /\ CatalogInit
    /\ \/ subject = "values" /\ list = <<>> /\ config = Plain /\ tip = "t1"
       \/ subject = "catalog" /\ peeking = {}

ValuesNext ==
    /\ UNCHANGED subject
    /\ \/ subject = "values" /\ Next /\ (latest'[value] # latest[value] => latest'[value] \in Offered) /\ UNCHANGED catalogVars
       \/ subject = "catalog" /\ CatalogNext /\ UNCHANGED setupVars /\ UNCHANGED vars

ValuesSpec ==
    /\ ValuesInit /\ [][ValuesNext]_<<subject, setupVars, vars, catalogVars>>
    /\ subject = "values" => Fairness

(* What the values come to.                                                *)
ValuesEnd == subject = "values" => ValuesGoOn
=============================================================================
