------------------------------ MODULE Pricing -------------------------------
(***************************************************************************)
(* What a turn costs (internal/usage/pricing): one model of a price list   *)
(* is parsed, its modes in an order nobody chooses, into a schedule of     *)
(* rates by context and, of OpenAI's, a Fast one; a turn is then priced by *)
(* it or excluded for a reason.                                            *)
(*                                                                         *)
(* A rate is a multiple of the smallest one there is (18 decimals), below  *)
(* MaxRate; Bad is a number that is none.  Counts are int64, up to MaxInt, *)
(* never negative (readSection refuses those); Missing is a nil pointer.   *)
(***************************************************************************)
EXTENDS Integers, Sequences, FiniteSets

CONSTANTS
    Entries,            \* the models of a price list
    AnthropicTurns, OpenAITurns,
    LegacyContext,      \* the 200000 of context_over_200k
    MaxRate, MaxAmount, MaxInt

Missing == -1
Bad == -2
Categories == {"input", "output", "read", "write"}
NoRates == [c \in Categories |-> Missing]
NoSchedule == [base |-> NoRates, tiers |-> <<>>]

(* Numbers are not negative, where they are there.                         *)
CostRows == [Categories -> Nat \cup {Missing, Bad}]
IsCost(cost) ==
    /\ cost.base \in CostRows
    /\ cost.legacy \subseteq CostRows /\ \A q, r \in cost.legacy : q = r
    /\ cost.tiers \in Seq([size : Nat \cup {Bad}, rates : CostRows])
IsTurn(t) ==
    /\ t.input \in Nat /\ t.output \in Nat
    /\ t.read \in Nat \cup {Missing} /\ t.write \in Nat \cup {Missing}

ASSUME PricingAssumption ==
    /\ \A e \in Entries :
         /\ \A cost, other \in e.cost : IsCost(cost) /\ cost = other
         /\ e.modes \in Seq({e.modes[k] : k \in DOMAIN e.modes})
         /\ \A k \in DOMAIN e.modes : e.modes[k].rates \in CostRows
    /\ \A t \in AnthropicTurns \cup OpenAITurns : IsTurn(t)
    /\ LegacyContext \in Nat

VARIABLES
    parsing,            \* "cost", "modes", "rejected", "accepted" or "valued"
    entry, modesLeft,
    normal, fast,       \* the tariff: a schedule, and at most one
    turn, contribution

pricingVars == <<parsing, entry, modesLeft, normal, fast, turn, contribution>>

PricingInit ==
    /\ parsing = "cost" /\ entry \in Entries /\ modesLeft = DOMAIN entry.modes
    /\ normal = NoSchedule /\ fast = {}
    /\ turn = "none" /\ contribution = "none"

-----------------------------------------------------------------------------
(* Parsing.  A cost row is refused for any rate that is none.              *)

parseCostRow(row) == \A c \in Categories : row[c] # Bad

(* tiers, of distinct thresholds, in their order; the old field only where *)
(* there are none, though it is always parsed.                             *)
Acceptable(cost) ==
    /\ \A row \in {cost.base} \cup cost.legacy \cup {cost.tiers[k].rates : k \in DOMAIN cost.tiers} :
           parseCostRow(row)
    /\ \A k \in DOMAIN cost.tiers : cost.tiers[k].size # Bad
    /\ \A j, k \in DOMAIN cost.tiers : j # k => cost.tiers[j].size # cost.tiers[k].size

Sorted(tiers) ==
    {s \in [DOMAIN tiers -> {tiers[k] : k \in DOMAIN tiers}] :
        \A j, k \in DOMAIN tiers : j < k => s[j].size < s[k].size}

Tiers(cost) ==
    IF cost.tiers = <<>> /\ cost.legacy # {}
    THEN {<<[size |-> LegacyContext, rates |-> r]>> : r \in cost.legacy} ELSE Sorted(cost.tiers)

parseCost ==
    /\ parsing = "cost"
    /\ \/ /\ entry.cost = {} /\ parsing' = "modes" /\ UNCHANGED normal
       \/ \E cost \in entry.cost :
             \/ /\ Acceptable(cost) /\ parsing' = "modes"
                /\ \E tiers \in Tiers(cost) : normal' = [base |-> cost.base, tiers |-> tiers]
             \/ ~Acceptable(cost) /\ parsing' = "rejected" /\ UNCHANGED normal
    /\ UNCHANGED <<entry, modesLeft, fast, turn, contribution>>

FastAliases == {"fast", "priority"}
ReservedNonFast == {"default", "auto", "flex", "scale", "ultrafast"}

Candidate(mode) == mode.name \in FastAliases \/ mode.wire \in FastAliases
Contradicts(mode) ==
    \/ mode.name \in FastAliases /\ mode.wire \notin FastAliases \cup {"absent"}
    \/ mode.wire \in FastAliases /\ mode.name \in ReservedNonFast
BadMode(mode) ==
    \/ Contradicts(mode)
    \/ Candidate(mode) /\ mode.tiered
    \/ ~parseCostRow(mode.rates)

(* parseOpenAIFast: one turn of its loop over a map.                       *)
ParseMode ==
    /\ parsing = "modes" /\ modesLeft # {}
    /\ \E k \in modesLeft :
         LET mode == entry.modes[k]
             second == Candidate(mode) /\ fast # {}
         IN  /\ parsing' = IF BadMode(mode) \/ second THEN "rejected" ELSE "modes"
             /\ fast' = IF Candidate(mode) /\ ~BadMode(mode) /\ ~second THEN {[base |-> mode.rates, tiers |-> <<>>]} ELSE fast
             /\ modesLeft' = modesLeft \ {k}
    /\ UNCHANGED <<entry, normal, turn, contribution>>

(* deriveFastContextRate: each category keeps its Fast premium in every    *)
(* context, unless the product cannot be written as a rate.                *)
Derived(base, quick, context) ==
    CASE Missing \in {base, quick, context} \/ base = 0 -> Missing
      [] Missing \notin {base, quick, context} /\ base # 0 /\ 0 \in {quick, context} -> 0
      [] OTHER -> IF (quick * context) % base = 0 /\ (quick * context) \div base < MaxRate
                  THEN (quick * context) \div base ELSE Missing

FinishModes ==
    /\ parsing = "modes" /\ modesLeft = {} /\ parsing' = "accepted"
    /\ fast' = {[base |-> f.base,
                 tiers |-> [k \in DOMAIN normal.tiers |->
                     [size |-> normal.tiers[k].size,
                      rates |-> [c \in Categories |->
                          Derived(normal.base[c], f.base[c], normal.tiers[k].rates[c])]]]] : f \in fast}
    /\ UNCHANGED <<entry, modesLeft, normal, turn, contribution>>

-----------------------------------------------------------------------------
(* Valuing a turn.                                                         *)

Excluded(reason) == [reason |-> reason]

(* The last of the tiers whose thresholds are strictly below the input: as *)
(* they ascend, the search finds as many as there are.                     *)
rates(schedule, input) ==
    LET below == {k \in DOMAIN schedule.tiers : schedule.tiers[k].size < input}
    IN  IF below = {} THEN schedule.base ELSE schedule.tiers[Cardinality(below)].rates

(* sumPricedLines: a class without tokens needs no rate.                   *)
Line(count, rate) == IF count = 0 THEN 0 ELSE count * rate

sumPricedLines(tokens, row) ==
    LET amount == Line(tokens.input, row.input) + Line(tokens.output, row.output)
                  + Line(tokens.read, row.read) + Line(tokens.write, row.write)
    IN  IF amount > MaxAmount THEN [reason |-> "overflow"] ELSE [reason |-> "", amount |-> amount]

missingRate(t, row) ==
    \/ row.input = Missing \/ row.output = Missing
    \/ t.read > 0 /\ row.read = Missing
    \/ t.write > 0 /\ row.write = Missing

Untold(t) == Missing \in {t.read, t.write}

(* CalculateAnthropic: the four classes are apart.                         *)
AnthropicAt(t, row) ==
    CASE missingRate(t, row) -> Excluded("missing_rate")
      [] ~missingRate(t, row) /\ Untold(t) -> Excluded("missing_usage")
      [] OTHER -> sumPricedLines(t, row)

CompleteInput(t) == t.input + t.write + t.read

(* Mutant: the base rates tell for an input that is not known.             *)
BaseTells(t, schedule) ==
    CASE schedule.tiers = <<>> -> AnthropicAt(t, schedule.base)
      [] schedule.tiers # <<>> /\ Untold(t) ->
           Excluded(IF missingRate(t, schedule.base) THEN "missing_rate" ELSE "missing_usage")
      [] OTHER -> AnthropicAt(t, rates(schedule, CompleteInput(t)))

(* Tariff.CalculateAnthropic: while the input that selects a tier is not   *)
(* known, only a rate that every tier lacks is missing.                    *)
Anthropic(t, schedule) ==
    LET rows == {schedule.base} \cup {schedule.tiers[k].rates : k \in DOMAIN schedule.tiers}
        never(reason) == Excluded(IF \A row \in rows : missingRate(t, row) THEN "missing_rate" ELSE reason)
    IN  CASE schedule.tiers = <<>> -> AnthropicAt(t, schedule.base)
          [] schedule.tiers # <<>> /\ Untold(t) -> never("missing_usage")
          [] OTHER -> IF CompleteInput(t) > 2 * MaxInt + 1 THEN never("inconsistent_usage")
                      ELSE AnthropicAt(t, rates(schedule, CompleteInput(t)))

(* CalculateOpenAI: cached and written tokens are part of the input.       *)
OpenAIAt(t, row) ==
    CASE missingRate(t, row) -> Excluded("missing_rate")
      [] ~missingRate(t, row) /\ Untold(t) -> Excluded("missing_usage")
      [] OTHER -> IF t.read > t.input \/ t.write > t.input - t.read
                  THEN Excluded("inconsistent_usage")
                  ELSE sumPricedLines([input |-> t.input - t.read - t.write, output |-> t.output,
                                       read |-> t.read, write |-> t.write], row)

OpenAI(t) ==
    LET schedule == IF fast # {} /\ t.tier \in FastAliases THEN CHOOSE f \in fast : TRUE ELSE normal
    IN  OpenAIAt(t, rates(schedule, t.input))

Valued(t) == IF entry.provider = "openai" THEN OpenAI(t) ELSE Anthropic(t, normal)
Turns == IF entry.provider = "openai" THEN OpenAITurns ELSE AnthropicTurns

Value ==
    /\ parsing = "accepted" /\ (entry.cost # {} \/ fast # {})
    /\ parsing' = "valued"
    /\ turn' \in Turns /\ contribution' = Valued(turn')
    /\ UNCHANGED <<entry, modesLeft, normal, fast>>

PricingNext == parseCost \/ ParseMode \/ FinishModes \/ Value
PricingSpec == PricingInit /\ [][PricingNext]_pricingVars

-----------------------------------------------------------------------------
(* The order of a Go map decides nothing: an entry is accepted whenever    *)
(* each of its parts is and no two of its modes are Fast, and its Fast     *)
(* schedule is that mode's, with its premium over the normal rates kept    *)
(* exactly in every context.                                               *)
FastModes == {k \in DOMAIN entry.modes : Candidate(entry.modes[k])}
Fine ==
    /\ \A cost \in entry.cost : Acceptable(cost)
    /\ \A k \in DOMAIN entry.modes : ~BadMode(entry.modes[k])
    /\ Cardinality(FastModes) <= 1

AcceptedInAnyOrder ==
    /\ parsing = "rejected" => ~Fine
    /\ parsing = "accepted" =>
         /\ Fine
         /\ {f.base : f \in fast} = {entry.modes[k].rates : k \in FastModes}
         /\ \A f \in fast, k \in DOMAIN normal.tiers, c \in Categories :
              LET derived == f.tiers[k].rates[c]
              IN  derived # Missing => derived * normal.base[c] = f.base[c] * normal.tiers[k].rates[c]

(* The reason of an exclusion stands whatever the counts that are missing  *)
(* turn out to be: a missing rate is missing in every one of them.  And a  *)
(* turn that is priced is priced whole, at the rates of one context.       *)
Completions(t) ==
    {u \in Turns : /\ ~Untold(u)
                   /\ \A c \in Categories : t[c] # Missing => u[c] = t[c]
                   /\ entry.provider = "openai" => u.tier = t.tier}

Rows == UNION {{s.base} \cup {s.tiers[k].rates : k \in DOMAIN s.tiers} : s \in {normal} \cup fast}
Paid(t, c) == t[c] - (IF entry.provider = "openai" /\ c = "input" THEN t.read + t.write ELSE 0)

ExclusionsStand ==
    parsing = "valued" =>
      /\ contribution.reason = "missing_rate" =>
           \A u \in Completions(turn) : Valued(u).reason = "missing_rate"
      /\ contribution.reason = "missing_usage" => Untold(turn)
      /\ contribution.reason = "" =>
           \E row \in Rows :
               /\ \A c \in Categories : Paid(turn, c) > 0 => row[c] # Missing
               /\ contribution.amount = Paid(turn, "input") * row.input + Paid(turn, "output") * row.output
                                         + Paid(turn, "read") * row.read + Paid(turn, "write") * row.write

(* A tariff and what it makes of a turn, in both respects.                 *)
PriceIsExact == AcceptedInAnyOrder /\ ExclusionsStand
=============================================================================
