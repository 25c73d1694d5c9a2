------------------------------ MODULE Catalog -------------------------------
(***************************************************************************)
(* The model catalogs (internal/catalog): the Codex models.json partly in *)
(* three calls while GitHub's releases move, validated entry by entry, and *)
(* a request that renders Copilot's list in the shape it asked for with    *)
(* whatever document is current by then.                                   *)
(***************************************************************************)
EXTENDS Naturals

CONSTANTS
    Tags,               \* the stable tags
    Other,              \* a latest release that is a draft or badly named
    Revisions, Document,  \* the commits of a tag, and models.json at each: a sequence of entries
    FirstCommit, Embedded,
    Lists,              \* what Copilot may answer: sequences of models, or Invalid
    Configs,            \* the rendering settings
    Dashed,             \* of each model id, with its dots as dashes
    Invalid,
    MaxMoves            \* bound: releases, and tags moved to another commit

VARIABLES
    tip, head,          \* GitHub: the latest release, and the commit of each tag
    moves, been,        \* how often they moved, and every <<tag, commit>> there was
    fetching, partly,   \* fetchLatestModels: its step, and what it has so far
    current,            \* the effective document and its tag
    request, list, config, shape, rendered, told \* one request: its step, its catalog, its warnings

gitVars == <<tip, head, moves, been>>
fetchVars == <<fetching, partly, current>>
requestVars == <<request, list, config, shape, rendered, told>>
catalogVars == <<gitVars, fetchVars, requestVars>>

Missing == "none"

CatalogInit ==
    /\ tip \in Tags /\ head = FirstCommit /\ moves = 0
    /\ been = {<<t, head[t]>> : t \in Tags}
    /\ fetching = "idle" /\ partly = [tag |-> Missing, commit |-> Missing]
    /\ current = [tag |-> "embedded", document |-> Embedded]
    /\ request = "asked" /\ list \in Lists /\ config \in Configs
    /\ shape = Missing /\ rendered = <<>> /\ told = {}

(* External: a release is published, or a tag moved.                       *)
GitHubMoves ==
    /\ moves < MaxMoves /\ moves' = moves + 1
    /\ \/ tip' \in (Tags \cup {Other}) \ {tip} /\ UNCHANGED head
       \/ \E t \in Tags, c \in Revisions : head[t] # c /\ head' = [head EXCEPT ![t] = c] /\ UNCHANGED tip
    /\ been' = been \cup {<<t, head'[t]>> : t \in Tags}
    /\ UNCHANGED <<fetchVars, requestVars>>

-----------------------------------------------------------------------------
(* A refresh.  Any of its calls may fail.                                  *)

Failed == fetching' = "idle" /\ partly' = [tag |-> Missing, commit |-> Missing] /\ UNCHANGED current

latestReleaseTag ==
    /\ fetching = "idle"
    /\ tip \in Tags /\ fetching' = "tagged" /\ partly' = [partly EXCEPT !.tag = tip]
    /\ UNCHANGED <<current, gitVars, requestVars>>

releaseCommit ==
    /\ fetching = "tagged"
    /\ \/ fetching' = "resolved" /\ partly' = [partly EXCEPT !.commit = head[partly.tag]] /\ UNCHANGED current
       \/ Failed
    /\ UNCHANGED <<gitVars, requestVars>>

(* An entry of models.json: each field, and each object or list below one, *)
(* is "given", "absent", "null", "empty", "unknown" (a value Codex has no  *)
(* name for), "partial" (a part of it is missing or null) or "mistyped".   *)

requiredCodexModelFields ==
    {"display_name", "reasoning_levels", "shell_type", "visibility", "priority", "truncation_policy", "tools"}
nonNullableCodexDefaultFields ==
    {"speed_tiers", "service_tiers", "reasoning_summary", "web_search", "modalities"}

validateRequired(e) ==
    /\ \A f \in requiredCodexModelFields : e[f] \notin {"absent", "null"}
    /\ \A f \in nonNullableCodexDefaultFields : e[f] # "null"
    /\ \A f \in DOMAIN e : e[f] # "mistyped"
    /\ e["display_name"] # "empty"
    /\ \A f \in {"shell_type", "visibility", "truncation_policy"} : e[f] \notin {"empty", "unknown"}
    /\ \A f \in {"reasoning_levels", "truncation_policy", "tools"} : e[f] # "partial"

validateKnownCodexFields(e) ==
    /\ \A f \in {"service_tiers", "speed_tiers", "availability", "upgrade", "modalities"} : e[f] # "partial"
    /\ \A f \in {"default_reasoning", "agent_reasoning"} : e[f] # "empty"
    /\ \A f \in {"reasoning_summary", "verbosity", "patch_tool", "web_search"} : e[f] \notin {"empty", "unknown"}
    /\ e["modalities"] # "unknown"

validateCodexModelMessages(e) ==
    /\ e["token_budget"] # "partial" /\ e["budget_flag"] # "null"
    /\ e["guardian_reasoning"] # "empty" /\ e["guardian_sources"] # "partial"

(* The template that Codex renders, or else the base instructions that it  *)
(* promotes to one; neither may be empty.                                  *)
validateCodexInstructionSource(e) ==
    \/ e["template"] = "given"
    \/ e["template"] \in {"absent", "null"} /\ e["base"] = "given"

validateCodexModel(e) ==
    /\ validateRequired(e) /\ validateKnownCodexFields(e)
    /\ validateCodexModelMessages(e) /\ validateCodexInstructionSource(e)

(* decodeCodexModelEntries: with an entry's slug, and no two of a slug.    *)
parseCodexModels(document) ==
    /\ document # Invalid
    /\ \A i, j \in DOMAIN document : document[i].slug # "" /\ (i # j => document[i].slug # document[j].slug)
validateCodexModels(document) ==
    parseCodexModels(document) /\ \A i \in DOMAIN document : validateCodexModel(document[i].fields)

(* Every tag has a commit, and the embedded document is a good one.        *)
ASSUME CatalogAssumption ==
    /\ FirstCommit \in [Tags -> Revisions]
    /\ validateCodexModels(Embedded)

Idle == fetching' = "idle" /\ partly' = [tag |-> Missing, commit |-> Missing]
Published(tag, document) ==
    /\ Idle /\ UNCHANGED <<gitVars, requestVars>>
    /\ IF validateCodexModels(document) THEN current' = [tag |-> tag, document |-> document] ELSE UNCHANGED current

(* Mutant: whatever release is the latest by then.                         *)
FetchLatest == fetching = "resolved" /\ Published(IF tip = Other THEN partly.tag ELSE tip, Document[partly.commit])

FetchContent ==
    \/ fetching = "resolved" /\ Published(partly.tag, Document[partly.commit])
    \/ fetching = "resolved" /\ Failed /\ UNCHANGED <<gitVars, requestVars>>

-----------------------------------------------------------------------------
(* A request.  An answer has an entry for each model that it lists, at the *)
(* model's position in Copilot's list, whose order it keeps.               *)

Answer(entries, warnings) ==
    /\ request' = "answered" /\ rendered' = entries /\ told' = warnings
    /\ UNCHANGED <<list, config, gitVars, fetchVars>>
BadGateway ==
    /\ request' = "bad gateway"
    /\ UNCHANGED <<list, config, shape, rendered, told, gitVars, fetchVars>>

Filter(models, route) ==
    {k \in DOMAIN models : models[k].picker /\ route \in models[k].routes}
Forwardable == Filter(list, config.route)
Ids == {list[k].id : k \in Forwardable}

(* The body of Copilot's answer, if it answered 200, as models.            *)
Decode ==
    /\ request = "asked"
    /\ IF list = Invalid THEN BadGateway
       ELSE request' = "decoded" /\ UNCHANGED <<list, config, shape, rendered, told, gitVars, fetchVars>>

servesCodexShape == config.surface = "openai" /\ config.clientVersion /\ config.codex

RenderOpenAI ==
    /\ request = "decoded" /\ config.surface = "openai" /\ ~servesCodexShape
    /\ IF \E k \in Forwardable : "" \in {list[k].id, list[k].vendor}
       THEN BadGateway
       ELSE shape' = "openai" /\ Answer([k \in Forwardable |-> [slug |-> list[k].id]], {})

(* RenderAnthropicWithConfig: Claude's ids may be told with dashes.        *)
Normalized(m) == IF config.normalize /\ m.vendor = "Anthropic" /\ m.claude THEN Dashed[m.id] ELSE m.id
RenderAnthropic ==
    /\ request = "decoded" /\ config.surface = "anthropic"
    /\ IF \/ \E k \in Forwardable : "" \in {list[k].id, list[k].name}
          \/ config.normalize /\ \E j, k \in Forwardable :
                 j # k /\ Normalized(list[j]) = Normalized(list[k])
       THEN BadGateway
       ELSE Answer([k \in Forwardable |-> [slug |-> Normalized(list[k])]], {}) /\ UNCHANGED shape

Official == {current.document[i].slug : i \in DOMAIN current.document}

(* The official entry whose metadata a model has: its own, or its alias's. *)
Source(id) == IF id \in Official THEN id ELSE config.aliases[id]
Resolved == {id \in Ids : id \in Official \cup DOMAIN config.aliases /\ Source(id) \in Official}

codexAliasSkipReason(alias) ==
    CASE alias \notin Ids -> "alias_not_forwardable"
      [] alias \in Ids \cap Official -> "shadowed_by_official"
      [] OTHER -> IF config.aliases[alias] \notin Official THEN "metadata_source_missing" ELSE Missing

Reviewer(id) == IF id \in DOMAIN config.reviewers THEN config.reviewers[id] ELSE config.reviewer

(* Mutant: a reviewer that Codex knows is taken for one that is served.    *)
KnownIsServed(id) == Reviewer(id) \in Official

injectReviewer(id) == Reviewer(id) \in Resolved

Entry(m) ==
    [slug |-> m.id, metadata |-> Source(m.id),
     reviewer |-> IF injectReviewer(m.id) THEN Reviewer(m.id) ELSE "official",
     window |-> IF config.overrideLimits /\ m.window # Missing THEN m.window ELSE "official"]

RenderCodex ==
    /\ request = "decoded" /\ servesCodexShape
    /\ IF ~parseCodexModels(current.document) THEN BadGateway
       ELSE LET emitted == {k \in Forwardable : list[k].id \in Resolved}
                unapplied == {a \in DOMAIN config.aliases : codexAliasSkipReason(a) # Missing}
                skipped == {id \in Resolved : Reviewer(id) # "" /\ ~injectReviewer(id)}
            IN  /\ shape' = "codex"
                /\ Answer([k \in emitted |-> Entry(list[k])],
                          {<<a, codexAliasSkipReason(a)>> : a \in unapplied} \cup {<<id, Reviewer(id)>> : id \in skipped})

CatalogNext ==
    \/ GitHubMoves \/ latestReleaseTag \/ releaseCommit \/ FetchContent
    \/ Decode \/ RenderOpenAI \/ RenderAnthropic \/ RenderCodex

CatalogSpec == CatalogInit /\ [][CatalogNext]_catalogVars

-----------------------------------------------------------------------------
(* A document is the one its tag named, at a commit that tag had, however  *)
(* releases moved during the fetch, and every entry of it is one that the  *)
(* Codex client reads and has instructions for.  A Codex catalog names no  *)
(* reviewer that it does not itself serve, lists models of Copilot's list  *)
(* alone, each with the whole of one official entry, gives an alias no     *)
(* official model's place, and each alias and reviewer of the settings is  *)
(* used or told of; and no two models of a catalog have one normalized id. *)
CatalogStandsAlone ==
    /\ current.tag # "embedded" =>
         \E c \in Revisions : <<current.tag, c>> \in been /\ current.document = Document[c]
    /\ \A i \in DOMAIN current.document :
         /\ {current.document[i].fields[f] : f \in {"template", "base"}} \cap {"given"} # {}
         /\ current.document[i].fields["template"] # "empty"
    /\ request = "answered" /\ shape = "codex" =>
         LET slugs == {rendered[k].slug : k \in DOMAIN rendered}
         IN  /\ slugs \subseteq Ids
             /\ \A k \in DOMAIN rendered :
                  LET e == rendered[k] IN
                  /\ e.reviewer \in slugs \cup {"official"}
                  /\ e.metadata # e.slug => config.aliases[e.slug] = e.metadata
                  /\ Reviewer(e.slug) \in {"", e.reviewer} \/ <<e.slug, Reviewer(e.slug)>> \in told
             /\ \A a \in DOMAIN config.aliases :
                  \/ \E k \in DOMAIN rendered : rendered[k].slug = a /\ rendered[k].metadata = config.aliases[a]
                  \/ \E why \in {"alias_not_forwardable", "shadowed_by_official", "metadata_source_missing"} :
                        <<a, why>> \in told
    /\ request = "answered" /\ config.normalize /\ config.surface = "anthropic" =>
         \A j, k \in DOMAIN rendered : j # k => rendered[j].slug # rendered[k].slug
=============================================================================
