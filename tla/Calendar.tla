------------------------------ MODULE Calendar ------------------------------
(***************************************************************************)
(* The report calendar (internal/usage/report/calendar.go): which instants *)
(* a window of local dates covers, and into which buckets a period cuts    *)
(* it, in a zone whose offset may jump by hours or by days, either way.    *)
(*                                                                         *)
(* An instant is a number, a zone gives the offset at each instant, and a  *)
(* date is a run of DayLength local instants.  Weeks, months and years are *)
(* the dates on which they begin.                                          *)
(***************************************************************************)
EXTENDS Integers, Sequences, FiniteSetsExt

CONSTANTS
    DayLength,
    Horizon,            \* bound: the instants are 0 .. Horizon - 1
    PeriodStarts,       \* of each period, the dates on which one begins
    MaxDates, MaxBuckets

ASSUME CalendarAssumption ==
    /\ DayLength \in Nat \ {0} /\ Horizon \in Nat \ {0} /\ MaxDates \in Nat
    /\ \A p \in DOMAIN PeriodStarts : PeriodStarts[p] \subseteq Int

Instants == 0 .. Horizon - 1
NoDate == -1            \* Go's zero time: no instant has that date

DateAt(zone, i) == (i + zone[i]) \div DayLength

(* nextInterval, from the first to the last: the runs of one offset.       *)
RunStarts(zone) == {i \in Instants : i = 0 \/ zone[i] # zone[i - 1]}
RunEnd(zone, i) == Min({Horizon} \cup {j \in RunStarts(zone) : j > i})

(* The part of a run that has the date, by arithmetic on its offset.       *)
From(zone, i, date) == Max({i, date * DayLength - zone[i]})
To(zone, i, date) == Min({RunEnd(zone, i), (date + 1) * DayLength - zone[i]})
Displays(zone, i, date) == From(zone, i, date) < To(zone, i, date)

(* Mutant: the last occurrence of a date that a zone shows twice.          *)
LastStart(zone, date) ==
    LET runs == {i \in RunStarts(zone) : Displays(zone, i, date)}
    IN  IF runs = {} THEN NoDate ELSE From(zone, Max(runs), date)

(* dateResolver.start: in the first run that has the date.                 *)
start(zone, date) ==
    LET runs == {i \in RunStarts(zone) : Displays(zone, i, date)}
    IN  IF runs = {} THEN NoDate ELSE From(zone, Min(runs), date)

(* dateResolver.edge: a date that the zone skips gives way to the next.    *)
edge(zone, date) ==
    LET there == {d \in date .. date + MaxDates : start(zone, d) # NoDate}
    IN  IF there = {} THEN NoDate ELSE start(zone, Min(there))

-----------------------------------------------------------------------------
(* calendar.                                                               *)

FirstEdge(period, since) == Max({s \in PeriodStarts[period] : s <= since})
NextEdge(period, e) == Min({s \in PeriodStarts[period] : s > e})
Edges(period, since, until) ==
    {e \in PeriodStarts[period] : FirstEdge(period, since) <= e /\ e < until}

(* What is refused before the first edge: a window that is none or is too  *)
(* long, and bounds that the zone skips or has in another order.           *)
Unfit(zone, since, until) ==
    LET lo == start(zone, since)
        hi == start(zone, until)
    IN  CASE since >= until -> "invalid"
          [] since < until /\ until - since > MaxDates -> "too_large"
          [] OTHER -> IF NoDate \in {lo, hi} \/ lo >= hi THEN "invalid" ELSE "none"

Failed(error) == [error |-> error, buckets |-> <<>>]
Kept(buckets) == [error |-> "none", buckets |-> buckets]
LastTo(buckets) == buckets[Len(buckets)].to

(* One turn of the loop over the edges.                                    *)
Cut(zone, period, lo, hi, now, buckets, e) ==
    LET a == edge(zone, e)
        b == edge(zone, NextEdge(period, e))
        from == Max({a, lo})
        to == Min({b, hi})
        previous == IF buckets = <<>> THEN lo ELSE LastTo(buckets)
        there == NoDate \notin {a, b}
        fits == a < b /\ from < to /\ from = previous
    IN  CASE ~there -> Failed("too_large")
          [] there /\ a = b -> Kept(buckets)
          [] there /\ a # b /\ ~fits -> Failed("invalid")
          [] there /\ fits /\ Len(buckets) >= MaxBuckets -> Failed("too_large")
          [] OTHER -> Kept(Append(buckets,
                [date |-> e, from |-> from, to |-> to,
                 partial |-> a # from \/ b # to, inProgress |-> a <= now /\ now < b]))

-----------------------------------------------------------------------------
(* What the calendar is for, from the zone's clock alone.                  *)

Earliest(zone, date) ==
    LET shown == {i \in Instants : DateAt(zone, i) = date} IN IF shown = {} THEN Horizon ELSE Min(shown)

(* The latest period that has begun by an instant.  One that would begin   *)
(* on a date the zone skips begins with the next date it shows.            *)
Begun(zone, e, i) ==
    \E d \in e .. e + MaxDates :
        Earliest(zone, d) <= i /\ \A skipped \in e .. d - 1 : Earliest(zone, skipped) = Horizon
OwnerOf(zone, period, since, until, i) ==
    Max({e \in Edges(period, since, until) : Begun(zone, e, i)})

(* A zone whose dates never run backwards.                                 *)
Monotone(zone) == \A i, j \in Instants : i < j => DateAt(zone, i) <= DateAt(zone, j)

(* The buckets of a window: they cover it without gap or overlap, each     *)
(* instant in the period that began last before it.                        *)
Partitions(buckets, zone, period, since, until) ==
    /\ buckets # <<>>
    /\ buckets[1].from = Earliest(zone, since) /\ LastTo(buckets) = Earliest(zone, until)
    /\ \A k \in DOMAIN buckets :
         /\ k > 1 => buckets[k].from = buckets[k - 1].to
         /\ buckets[k].from < buckets[k].to
         /\ \A i \in buckets[k].from .. buckets[k].to - 1 :
              OwnerOf(zone, period, since, until, i) = buckets[k].date
=============================================================================
