-------------------------- MODULE MCUsageAccounting --------------------------
(***************************************************************************)
(* From a stream's tokens to a priced report, one part at a time: the      *)
(* meters on every short stream, the matching of a reported model, the     *)
(* price of a turn, the price list that reports share, and a report.       *)
(***************************************************************************)
EXTENDS UsageMeter, PriceList, ModelMatch, Pricing, UsageReport, TLC

VARIABLE subject        \* the part that moves

-----------------------------------------------------------------------------
(* Matching: two or three identities, of two stems, with every suffix.     *)

Named(stem, respelled, tail) == [stem |-> stem, respelled |-> respelled, tail |-> tail]
Tails == {<<>>, <<"fast">>, <<"d1">>, <<"d2">>, <<"fast", "d1">>, <<"d1", "fast">>}
Names == {Named("x", r, t) : r \in BOOLEAN, t \in Tails} \cup {Named("y", FALSE, <<>>)}
Ids == {[provider |-> p, name |-> n] : p \in {"anthropic", "openai"}, n \in Names}
Pairs == {{a, b} : a \in {i \in Ids : i.provider = "openai"},
                   b \in {i \in Ids : i.provider = "openai" \/ i.name.tail \in {<<>>, <<"d1">>}}}
Alike == {i \in Ids : i.provider = "openai" /\ i.name.tail # <<"d2">> /\ i.name.stem = "x"}
Triples == {{a, b, c} : a, b, c \in Alike}

Lists == {{}} \cup Pairs \cup Triples
AskedFor == {[provider |-> p, name |-> n] : p \in {"openai", NoScope}, n \in Names}
MatchAtRest == left = {[provider |-> "openai", name |-> Named("y", FALSE, <<>>)]} /\ budget = 7 /\ MatchInit

-----------------------------------------------------------------------------
(* Pricing: costs with one and two tiers, the old field, and numbers that  *)
(* are none; modes that are Fast by name, by wire, by both or in conflict. *)

Row(i, o, r, w) == [input |-> i, output |-> o, read |-> r, write |-> w]
Absent == -1
NoNumber == -2
Full == Row(2, 2, 1, 1)
Half == Row(3, 2, Absent, 1)
NoInput == Row(Absent, 1, 1, 1)
Odd == Row(4, 1, 0, NoNumber)
Tier(size, r) == [size |-> size, rates |-> r]
Costs == {[base |-> b, legacy |-> l, tiers |-> t] :
            b \in {Full, Half}, l \in {{}, {Half}, {Odd}},
            t \in {<<>>, <<Tier(2, Half)>>, <<Tier(2, Full), Tier(1, Half)>>,
                   <<Tier(1, Full), Tier(1, NoInput)>>, <<Tier(NoNumber, Full)>>}}
Mode(n, w, r, t) == [name |-> n, wire |-> w, rates |-> r, tiered |-> t]
Modes == {<<>>,
    <<Mode("fast", "absent", Row(4, 3, 1, Absent), FALSE)>>,
    <<Mode("quick", "priority", Row(0, 5, 3, 2), FALSE)>>,
    <<Mode("fast", "priority", Full, FALSE), Mode("quick", "fast", Half, FALSE)>>,
    <<Mode("fast", "absent", Full, FALSE), Mode("quick", "absent", Half, TRUE)>>,
    <<Mode("fast", "flex", Full, FALSE)>>, <<Mode("flex", "fast", Full, FALSE)>>,
    <<Mode("fast", "fast", Full, TRUE)>>,
    <<Mode("quick", "absent", Odd, FALSE), Mode("fast", "absent", Full, FALSE)>>}
MaybeCost == {{}} \cup {{c} : c \in Costs}
PricedModels ==
    {[provider |-> "openai", cost |-> c, modes |-> m] : c \in MaybeCost, m \in Modes}
        \cup {[provider |-> "anthropic", cost |-> c, modes |-> <<>>] : c \in MaybeCost}
MessagesTurns ==
    {Row(i, o, r, w) : i \in {0, 1, 3}, o \in {0, 1}, r \in {Absent, 0, 3}, w \in {Absent, 0, 1, 3}}
ResponsesTurns ==
    {[tier |-> t] @@ Row(i, o, r, w) : t \in {"none", "fast", "default"}, i \in {0, 1, 3}, o \in {0, 1},
                                      r \in {Absent, 0, 2}, w \in {Absent, 0, 1}}

PriceAtRest == entry = [provider |-> "openai", cost |-> {}, modes |-> <<>>] /\ PricingInit

-----------------------------------------------------------------------------
(* The price list: a heavier document, and one that lacks a provider.      *)

ProvidersOf ==
    "partial" :> {"openai"} @@ [a \in {"built in", "newer"} |-> {"openai", "anthropic", "google", "xai"}]
Weights == "newer" :> 2 @@ [a \in {"built in", "partial"} |-> 1]
ListAtRest == ListInit /\ limit = [r \in Callers |-> 0]

-----------------------------------------------------------------------------
(* Reports: clocks that jump by an hour, forth and back, by more than a    *)
(* day, and there and back; rows under one of them.                        *)

Jumping(before, until, after) == [i \in 0 .. 29 |-> IF i < until THEN before ELSE after]
Autumn == Jumping(1, 10, 0)
Clocks == {Jumping(0, 0, 0), Jumping(0, 9, 1), Autumn, Jumping(0, 9, 4), Jumping(3, 9, 0),
           [i \in 0 .. 29 |-> IF i \in 6 .. 8 THEN 7 ELSE 0]}

Starts == [day |-> 0 .. 30, week |-> {0, 3, 6, 9, 12}, month |-> {0, 2, 7, 12}]
AskedWindows == (1 .. 5) \X (1 .. 6)
Matched == {[a |-> "matched", b |-> "unknown_model"]}
Asked(period, since, until) ==
    [zone |-> Autumn, period |-> period, since |-> since, until |-> until, now |-> Now]
ReadWeeks == {Asked("week", 2, 5)}

ReportAtRest == query = Asked("day", 1, 2) /\ capture = "none" /\ held = 0 /\ ReportInit

-----------------------------------------------------------------------------
AccountingInit ==
    /\ subject \in {"meter", "match", "price", "list", "report"}
    /\ IF subject = "meter" THEN Init ELSE surface = "openai" /\ Init
    /\ IF subject = "match" THEN MatchInit ELSE MatchAtRest
    /\ IF subject = "price" THEN PricingInit ELSE PriceAtRest
    /\ IF subject = "list" THEN ListInit ELSE ListAtRest
    /\ IF subject = "report" THEN ReportInit ELSE ReportAtRest

AccountingNext ==
    /\ UNCHANGED subject
    /\ \/ subject = "meter" /\ Next /\ UNCHANGED <<matchVars, pricingVars, listVars, reportVars>>
       \/ subject = "match" /\ MatchNext /\ UNCHANGED <<vars, pricingVars, listVars, reportVars>>
       \/ subject = "price" /\ PricingNext /\ UNCHANGED <<vars, matchVars, listVars, reportVars>>
       \/ subject = "list" /\ ListNext /\ UNCHANGED <<vars, matchVars, pricingVars, reportVars>>
       \/ subject = "report" /\ ReportNext /\ UNCHANGED <<vars, matchVars, pricingVars, listVars>>

AccountingSpec ==
    AccountingInit
        /\ [][AccountingNext]_<<subject, vars, matchVars, pricingVars, listVars, reportVars>>
=============================================================================
