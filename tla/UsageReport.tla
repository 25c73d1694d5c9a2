---------------------------- MODULE UsageReport -----------------------------
(***************************************************************************)
(* A usage report (internal/usage/report): the query and its limits, the   *)
(* calendar, and the rows that readSection folds into groups, models and   *)
(* the section's total, with the cost of each.                             *)
(*                                                                         *)
(* A row is its instant, its model, one native count and what pricing says *)
(* of it; int64 is 0 .. MaxSum; identities all weigh one byte.             *)
(***************************************************************************)
EXTENDS Calendar, FiniteSets

CONSTANTS
    Zones, Windows,     \* the zones, and the [since, until) asked for
    Models,             \* the models of the rows
    Resolutions,        \* for each model, matched or one of Reasons
    RowTimes, RowCounts,        \* the instants and the counts of the rows
    Amount,             \* the cost of a row that is priced
    Sampled,            \* bound: the queries whose rows are read
    Now, HeldBytes,     \* the clock of the query, and what the prices may weigh
    MaxSum, MaxRows, MaxGroups, MaxIdentities

Null == -1              \* SQL NULL, and a nil pointer: no count is negative
Reasons == {"unknown_model", "ambiguous_model", "missing_rate"}
Surfaces == <<"anthropic", "openai">>

(* Periods have begun before every window, and begin after it.             *)
ASSUME UsageReportAssumption ==
    /\ Zones \subseteq [Instants -> Int] /\ Windows \subseteq Int \X Int
    /\ \A p \in DOMAIN PeriodStarts, w \in Windows :
         (\E s \in PeriodStarts[p] : s <= w[1]) /\ (\E s \in PeriodStarts[p] : s >= w[2])
    /\ Resolutions \subseteq [Models -> Reasons \cup {"matched"}]
    /\ RowTimes \subseteq Int /\ RowCounts \subseteq 0 .. MaxSum /\ Amount \in Nat
    /\ MaxSum \in Nat /\ MaxRows \in Nat /\ MaxGroups \in Nat

VARIABLES
    phase,              \* of Reporter.Query
    query,              \* the zone, the period, the window, and the clock
    capture,            \* capturePricing's error, kept until the query is valid
    matches, held,      \* how each model resolves, and the identity bytes of the prices
    next, buckets,      \* the calendar: the next edge, and the buckets so far
    error,              \* the result of the query
    section, cursor,    \* the section being read, and the bucket of its last row
    groups, models, total,      \* its totals
    examined, identities, made, \* the request-wide budget
    rows                \* the rows so far, of this section

reportVars == <<phase, query, capture, matches, held, next, buckets, error, section, cursor,
                groups, models, total, examined, identities, made, rows>>

NoTotals == [k \in {} |-> 0]
EmptyTotal == [turns |-> 0, sum |-> Null, reported |-> 0, priced |-> 0, amount |-> 0,
               unpriced |-> [r \in Reasons |-> 0]]

ReportInit ==
    /\ phase = "asked" /\ capture \in {"none", "limit", "other"}
    /\ \E z \in Zones, p \in DOMAIN PeriodStarts, w \in Windows :
           query = [zone |-> z, period |-> p, since |-> w[1], until |-> w[2], now |-> Now]
    /\ matches \in Resolutions /\ held \in HeldBytes
    /\ query \notin Sampled =>
         held = (CHOOSE h \in HeldBytes : TRUE) /\ matches = (CHOOSE r \in Resolutions : TRUE)
    /\ next = query.since /\ buckets = <<>> /\ error = "none" /\ section = 1 /\ cursor = 1
    /\ groups = NoTotals /\ models = NoTotals /\ total = EmptyTotal
    /\ examined = 0 /\ identities = {} /\ made = 0 /\ rows = <<>>

Resting == UNCHANGED <<query, capture, matches, held>>
Folded == <<groups, models, total, examined, identities, made, rows>>

(* A failure leaves no part of the report.                                 *)
Fail(with) ==
    /\ phase' = "failed" /\ error' = with
    /\ buckets' = <<>> /\ section' = 1 /\ cursor' = 1
    /\ groups' = NoTotals /\ models' = NoTotals /\ total' = EmptyTotal
    /\ examined' = 0 /\ identities' = {} /\ made' = 0 /\ rows' = <<>>
    /\ Resting /\ UNCHANGED next

Unless(failed, otherwise) ==
    \/ failed # "none" /\ Fail(failed)
    \/ failed = "none" /\ otherwise

(* Query, as far as the calendar's loop.                                   *)
Query ==
    /\ phase = "asked"
    /\ Unless(Unfit(query.zone, query.since, query.until),
              /\ phase' = "cutting" /\ next' = FirstEdge(query.period, query.since)
              /\ Resting /\ UNCHANGED <<buckets, error, section, cursor, Folded>>)

Lo == start(query.zone, query.since)
Hi == start(query.zone, query.until)

CutNext ==
    /\ phase = "cutting" /\ next < query.until
    /\ LET cut == Cut(query.zone, query.period, Lo, Hi, query.now, buckets, next)
       IN  Unless(cut.error,
                  /\ buckets' = cut.buckets /\ next' = NextEdge(query.period, next)
                  /\ Resting /\ UNCHANGED <<phase, error, section, cursor, Folded>>)

(* The failure to capture the prices is told after the query's own.        *)
Captured ==
    /\ phase = "cutting" /\ next >= query.until
    /\ LET whole == buckets # <<>> /\ LastTo(buckets) = Hi
           failed == CASE ~whole -> "invalid"
                       [] whole /\ capture = "limit" -> "too_large"
                       [] whole /\ capture = "other" -> "internal"
                       [] OTHER -> "none"
       IN  Unless(failed, /\ phase' = "reading"
                          /\ Resting /\ UNCHANGED <<next, buckets, error, section, cursor, Folded>>)

(* The query's context ends; each loop looks.                              *)
Expired == phase \in {"asked", "cutting", "reading"} /\ Fail("expired")

-----------------------------------------------------------------------------
(* readSection.                                                            *)

Overflows(t, row) ==
    \/ t.turns = MaxSum
    \/ row.count # Null /\ t.sum # Null /\ row.count > MaxSum - t.sum

(* An amount is nil while there are only exclusions.                       *)
addCost(t, row) ==
    IF row.value = "priced"
    THEN [t EXCEPT !.priced = @ + 1, !.amount = (IF @ = Null THEN 0 ELSE @) + Amount]
    ELSE [t EXCEPT !.unpriced[row.value] = @ + 1, !.amount = IF t.priced = 0 THEN Null ELSE @]

Counted(t, row) ==
    LET turned == [t EXCEPT !.turns = @ + 1]
    IN  IF row.count = Null THEN turned
        ELSE [turned EXCEPT !.reported = @ + 1,
                            !.sum = row.count + (IF @ = Null THEN 0 ELSE @)]

Add(t, row) == addCost(Counted(t, row), row)

TotalAt(totals, key) == IF key \in DOMAIN totals THEN totals[key] ELSE EmptyTotal
With(totals, key, t) == [k \in DOMAIN totals \cup {key} |-> IF k = key THEN t ELSE totals[k]]

(* valueTurn: what the model's match leaves open is the tariff's to say.   *)
Valuations(m) == IF matches[m] = "matched" THEN {"priced", "missing_rate"} ELSE {matches[m]}

(* ORDER BY at_ms, within the window.                                      *)
NextTimes ==
    {i \in RowTimes : /\ buckets[1].from <= i /\ i < LastTo(buckets)
                      /\ rows # <<>> => i >= rows[Len(rows)].at}

BucketFor(at) == Min({b \in cursor .. Len(buckets) : at < buckets[b].to})

ReadRow(row) ==
    LET b == BucketFor(row.at)
        key == <<b, row.model>>
        new == key \notin DOMAIN groups
        met == identities \cup {row.model}
        heavy == held + Cardinality(met) > MaxIdentities
    IN  IF examined + 1 > MaxRows \/ heavy \/ (new /\ made + 1 > MaxGroups) THEN Fail("too_large")
        ELSE IF \E t \in {TotalAt(groups, key), TotalAt(models, row.model), total} : Overflows(t, row)
        THEN Fail("overflow")
        ELSE /\ groups' = With(groups, key, Add(TotalAt(groups, key), row))
             /\ models' = With(models, row.model, Add(TotalAt(models, row.model), row))
             /\ total' = Add(total, row)
             /\ examined' = examined + 1 /\ identities' = met
             /\ made' = IF new THEN made + 1 ELSE made
             /\ cursor' = b /\ rows' = Append(rows, row)
             /\ Resting /\ UNCHANGED <<phase, next, buckets, error, section>>

NextRow ==
    /\ phase = "reading" /\ query \in Sampled
    /\ \E i \in NextTimes, m \in Models, c \in RowCounts \cup {Null} : \E v \in Valuations(m) :
           ReadRow([at |-> i, model |-> m, count |-> c, value |-> v])

(* A stored count or model that is not one; and a cost beyond what an      *)
(* amount holds, of one Turn or of a sum.                                  *)
BadRow == phase = "reading" /\ (Fail("internal") \/ Fail("overflow"))

NextSection ==
    /\ phase = "reading" /\ section < Len(Surfaces)
    /\ section' = section + 1 /\ cursor' = 1 /\ rows' = <<>>
    /\ groups' = NoTotals /\ models' = NoTotals /\ total' = EmptyTotal
    /\ Resting /\ UNCHANGED <<phase, next, buckets, error, examined, identities, made>>

Answered ==
    /\ phase = "reading" /\ section = Len(Surfaces) /\ phase' = "reported"
    /\ Resting /\ UNCHANGED <<next, buckets, error, section, cursor, Folded>>

ReportNext ==
    Query \/ CutNext \/ Captured \/ Expired \/ NextRow \/ BadRow \/ NextSection \/ Answered

-----------------------------------------------------------------------------
Shown(date) == Earliest(query.zone, date) < Horizon
Refused == error = "invalid" /\ query.since < query.until /\ Shown(query.since) /\ Shown(query.until)

(* In every zone, a window that is served is cut into buckets that cover   *)
(* it without gap or overlap, each instant in the period that began last;  *)
(* and where the zone's dates never run backwards, the one window refused  *)
(* although the zone has both its ends is one that ends where a skipped    *)
(* first day of a period gives way.                                        *)
BucketsPartitionWindow ==
    /\ phase \in {"reading", "reported"} =>
         Partitions(buckets, query.zone, query.period, query.since, query.until)
    /\ Refused /\ Monotone(query.zone) =>
         \E e \in Edges(query.period, query.since, query.until) : \A d \in e .. query.until - 1 : ~Shown(d)

(* CONFIGURATION.md: a skipped date is refused as a bound, and skipped     *)
(* dates within the window only advance its edges; what is refused beyond  *)
(* that is a zone whose dates run backwards.                               *)
SkippedEdgesAdvance == Refused => ~Monotone(query.zone)

(* The totals are what the rows say: of each group, model and section, the *)
(* turns, the sum of the counts that are there, and the cost of the turns  *)
(* that are priced, with a nil amount where every turn was excluded; each  *)
(* row is in the group of the bucket that has its instant and in no other. *)
(* No total is beyond int64, and the limits of the request count both      *)
(* sections.                                                               *)
SumOf(table, S) ==
    LET upTo[n \in 0 .. Len(table)] ==
          IF n = 0 THEN 0 ELSE upTo[n - 1] + (IF n \in S THEN table[n].count ELSE 0)
    IN  upTo[Len(table)]

Tally(table, S) ==
    LET counted == {k \in S : table[k].count # Null}
        priced == {k \in S : table[k].value = "priced"}
    IN  [turns |-> Cardinality(S), reported |-> Cardinality(counted),
         sum |-> IF counted = {} THEN Null ELSE SumOf(table, counted),
         priced |-> Cardinality(priced),
         amount |-> IF priced = {} /\ S # {} THEN Null ELSE Amount * Cardinality(priced),
         unpriced |-> [r \in Reasons |-> Cardinality({k \in S : table[k].value = r})]]

RowsOfModel(table, m) == {k \in DOMAIN table : table[k].model = m}
RowsIn(table, b) == {k \in DOMAIN table : b.from <= table[k].at /\ table[k].at < b.to}

TotalsAreTheRows ==
    /\ total = Tally(rows, DOMAIN rows)
    /\ models = [m \in {rows[k].model : k \in DOMAIN rows} |-> Tally(rows, RowsOfModel(rows, m))]
    /\ groups = [g \in {h \in (DOMAIN buckets) \X Models :
                            RowsIn(rows, buckets[h[1]]) \cap RowsOfModel(rows, h[2]) # {}}
                    |-> Tally(rows, RowsIn(rows, buckets[g[1]]) \cap RowsOfModel(rows, g[2]))]
    /\ \A t \in {total} \cup {models[m] : m \in DOMAIN models} \cup {groups[g] : g \in DOMAIN groups} :
         t.turns <= MaxSum /\ t.sum <= MaxSum
    /\ examined <= MaxRows /\ made <= MaxGroups /\ made >= Cardinality(DOMAIN groups)
    /\ examined >= Len(rows)

(* A report's windows and its totals.                                      *)
ReportIsExact == BucketsPartitionWindow /\ TotalsAreTheRows

ReportSpec == ReportInit /\ [][ReportNext]_reportVars
=============================================================================
