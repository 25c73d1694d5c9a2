----------------------------- MODULE UsageMeter -----------------------------
(***************************************************************************)
(* The usage meters of internal/shim: the Anthropic meter gathers a Turn   *)
(* from the events of a Messages stream, the OpenAI meter takes it from    *)
(* one completed event, and the turn recorder submits it to the sink.      *)
(*                                                                         *)
(* An event is kept to its type, to whether the meter can read it (its     *)
(* payload, its own type, its ids and its usage), and to the counts that   *)
(* it reports.  Upstream may send any events in any order.                 *)
(***************************************************************************)
EXTENDS Naturals, Sequences

CONSTANTS
    Counts, Required,   \* the native counts, and those a Turn cannot miss
    Values,             \* of a count
    MaxEvents           \* the bound on the length of a stream

Unreported == "unreported"
ASSUME UsageMeterAssumption ==
    /\ Required \subseteq Counts /\ Unreported \notin Values /\ MaxEvents \in Nat

Updates == [Counts -> Values \cup {Unreported}]
NoCounts == [c \in Counts |-> Unreported]

AnthropicEvents ==
    [type : {"message_start", "message_delta"}, counts : Updates]
        \cup [type : {"message_stop", "error", "unreadable"}, counts : {NoCounts}]
OpenAIEvents == [type : {"response.completed"}, counts : Updates] \cup [type : {"unreadable"}, counts : {NoCounts}]

VARIABLES
    surface,            \* "anthropic" or "openai"
    active, poisoned, started, counts,  \* the Anthropic accumulator; started names its message
    turns,              \* what the sink was given; turn_index is the position
    heard               \* the stream so far

accumulatorVars == <<active, poisoned, started, counts>>
vars == <<surface, accumulatorVars, turns, heard>>

Init ==
    /\ surface \in {"anthropic", "openai"}
    /\ active = FALSE /\ poisoned = FALSE /\ started = 0 /\ counts = NoCounts
    /\ turns = <<>> /\ heard = <<>>

Apply(old, update) == [c \in Counts |-> IF update[c] = Unreported THEN old[c] ELSE update[c]]
Complete(cs) == \A c \in Required : cs[c] # Unreported

Submit(message, cs) == turns' = Append(turns, [message |-> message, counts |-> cs])
Position == Len(heard) + 1

Ignore == UNCHANGED <<accumulatorVars, turns>>
Poison == poisoned' = TRUE /\ UNCHANGED <<active, started, counts, turns>>

(* Mutant: a second start replaces the candidate.                          *)
StartAgain(e) ==
    /\ active' = TRUE /\ started' = Position /\ counts' = Apply(NoCounts, e.counts)
    /\ UNCHANGED <<poisoned, turns>>

observeStart(e) ==
    IF active THEN Poison
    ELSE /\ active' = TRUE /\ started' = Position /\ counts' = Apply(NoCounts, e.counts)
         /\ UNCHANGED <<poisoned, turns>>

observeDelta(e) ==
    /\ counts' = IF active THEN Apply(counts, e.counts) ELSE counts
    /\ UNCHANGED <<active, poisoned, started, turns>>

(* clearCandidate keeps the poison.                                        *)
observeStop ==
    /\ IF active /\ Complete(counts) THEN Submit(started, counts) ELSE UNCHANGED turns
    /\ active' = FALSE /\ started' = 0 /\ counts' = NoCounts
    /\ UNCHANGED poisoned

observeEvent(e) ==
    IF poisoned THEN Ignore
    ELSE CASE e.type = "message_start" -> observeStart(e)
           [] e.type = "message_delta" -> observeDelta(e)
           [] e.type = "message_stop"  -> observeStop
           [] OTHER                    -> Poison

Messages ==
    /\ surface = "anthropic" /\ Len(heard) < MaxEvents
    /\ \E e \in AnthropicEvents : heard' = Append(heard, e) /\ observeEvent(e)
    /\ UNCHANGED surface

(* observeResponseCompletedEvent: each event by itself.                    *)
Responses ==
    /\ surface = "openai" /\ Len(heard) < MaxEvents
    /\ \E e \in OpenAIEvents :
          /\ heard' = Append(heard, e)
          /\ IF e.type = "response.completed" /\ Complete(e.counts)
                THEN Submit(Position, e.counts) ELSE UNCHANGED turns
    /\ UNCHANGED <<surface, accumulatorVars>>

Next == Messages \/ Responses

Spec == Init /\ [][Next]_vars

-----------------------------------------------------------------------------
TypeOK ==
    /\ active \in BOOLEAN /\ poisoned \in BOOLEAN /\ started \in 0 .. MaxEvents
    /\ counts \in Updates /\ heard \in Seq(AnthropicEvents \cup OpenAIEvents)

(* The reference: which Turns a stream is worth, without an accumulator.   *)
IsAt(k, type) == heard[k].type = type
OpenAt(i, k) == IsAt(i, "message_start") /\ \A j \in i + 1 .. k - 1 : ~IsAt(j, "message_stop")
Spoils(k) ==
    \/ heard[k].type \in {"error", "unreadable"}
    \/ IsAt(k, "message_start") /\ \E i \in 1 .. k - 1 : OpenAt(i, k)

LastReport(i, k, c) ==
    LET reports == {j \in i .. k : heard[j].counts[c] # Unreported}
    IN  IF reports = {} THEN Unreported
        ELSE heard[CHOOSE j \in reports : \A l \in reports : l <= j].counts[c]
Reports(i, k) == [c \in Counts |-> LastReport(i, k, c)]

(* The message that starts at i and stops at k is worth a Turn.            *)
Worth(i, k) ==
    /\ IsAt(k, "message_stop") /\ OpenAt(i, k) /\ ~\E j \in 1 .. k : Spoils(j)
    /\ Complete(Reports(i, k))
Spans == IF surface = "anthropic"
         THEN {s \in (1 .. Len(heard)) \X (1 .. Len(heard)) : s[1] < s[2] /\ Worth(s[1], s[2])}
         ELSE {<<i, i>> : i \in {j \in 1 .. Len(heard) :
                                   IsAt(j, "response.completed") /\ Complete(heard[j].counts)}}

(* The sink has exactly one Turn for each message that the stream told     *)
(* whole, in their order, with the last reported value of every count, and *)
(* none from where the stream cannot be trusted on.                        *)
TurnsMatchStream ==
    /\ {turns[n] : n \in 1 .. Len(turns)}
         = {[message |-> s[1], counts |-> Reports(s[1], s[2])] : s \in Spans}
    /\ \A m, n \in 1 .. Len(turns) : m < n => turns[m].message < turns[n].message
=============================================================================
