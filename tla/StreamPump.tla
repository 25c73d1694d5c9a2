----------------------------- MODULE StreamPump -----------------------------
(***************************************************************************)
(* Pump of internal/sse/pump.go: a reader goroutine takes frames from the  *)
(* upstream body, hands them over with the time it saw them, and the pump  *)
(* transforms and writes them while a stall stopwatch, a keepalive timer   *)
(* and the client's cancellation race with them.                           *)
(*                                                                         *)
(* A frame is "data" or "terminal".  Time is kept only where it decides:   *)
(* sample says whether the reader's is after the current stall tick.       *)
(***************************************************************************)
EXTENDS Naturals, Sequences

CONSTANTS
    MaxFrames           \* bound: how many frames one Transform or Finalize yields

ASSUME StreamPumpAssumption == MaxFrames \in Nat

Frames == {"data", "terminal"}
Errors == {"eof", "broken", "cancelled"}    \* what a Read fails with
Outcomes == {"clean", "synthesized", "stall", "client_cancel", "upstream_error", "shim_error"}

None == "none"

VARIABLES
    transforming,       \* whether there is a FrameTransformer
    ctxDone, closed,    \* the stream's context, the upstream body
    rpc, next,          \* the reader: where it is, what its Read returned
    reads,              \* the channel of completed reads: None, or the one in it
    sample,             \* the reader's: None, "early", or "late": after the stall tick
    stall, keepalive,   \* the timers: "none", "off", "armed", "fired"
    pc,                 \* the pump
    read, frames,       \* the read in hand, the frames still to be written
    stallAt,            \* this turn of the loop has taken a stall tick
    keepaliveFired,     \* and a keepalive tick
    cause,              \* why the stream ends early
    sawTerminal,        \* the client was sent a terminal
    wire,               \* what it was sent last: None, "frame", "keepalive", "error"
    outcome

clientVars == <<sawTerminal, wire, outcome>>
readerVars == <<rpc, next>>
turnVars   == <<read, frames, stallAt, keepaliveFired, cause>>
vars == <<transforming, ctxDone, closed, readerVars, reads, sample, stall, keepalive,
          pc, turnVars, clientVars>>

Init ==
    /\ transforming \in BOOLEAN
    /\ ctxDone = FALSE /\ closed = FALSE
    /\ rpc = "read" /\ next = None /\ reads = None /\ sample = None
    /\ stall \in {"none", "armed"} /\ keepalive \in {"none", "armed"}
    /\ pc = "select" /\ read = None /\ frames = <<>>
    /\ stallAt = FALSE /\ keepaliveFired = FALSE /\ cause = None
    /\ sawTerminal = FALSE /\ wire = None /\ outcome = None

-----------------------------------------------------------------------------
(* The reader goroutine.                                                   *)

ReaderStep == UNCHANGED <<transforming, ctxDone, closed, stall, keepalive, pc, turnVars, clientVars>>

(* Read: a frame, the end of the body, an error; a cancelled request makes *)
(* the body's reads fail, whatever upstream sends.                         *)
ReaderReads ==
    /\ rpc = "read"
    /\ next' \in Frames \cup {"eof", "broken"} \cup (IF ctxDone \/ closed THEN {"cancelled"} ELSE {})
    /\ rpc' = "publish"
    /\ UNCHANGED <<reads, sample>> /\ ReaderStep

Sampled == {"early"} \cup (IF stall = "fired" \/ stallAt THEN {"late"} ELSE {})

(* Mutant: the reader takes its sample before it publishes the read.       *)
ReaderSamplesFirst ==
    \/ /\ rpc = "publish" /\ rpc' = "sample"
       /\ sample' \in Sampled
       /\ UNCHANGED <<reads, next>> /\ ReaderStep
    \/ /\ rpc = "sample" /\ rpc' = "handoff" /\ reads' = next
       /\ UNCHANGED <<sample, next>> /\ ReaderStep

(* The read is published, then its time is sampled: the argument of the    *)
(* second send is evaluated before its select blocks.                      *)
ReaderHandsOver ==
    \/ /\ rpc = "publish" /\ reads = None /\ rpc' = "sample" /\ reads' = next
       /\ UNCHANGED <<sample, next>> /\ ReaderStep
    \/ /\ rpc = "sample" /\ rpc' = "handoff"
       /\ sample' \in Sampled
       /\ UNCHANGED <<reads, next>> /\ ReaderStep

(* It exits when its context is done; reads is closed behind it, and a     *)
(* completed read stays in it.                                             *)
ReaderLeaves ==
    /\ rpc \in {"publish", "handoff"} /\ ctxDone
    /\ rpc' = "exited" /\ next' = None
    /\ UNCHANGED <<reads, sample>> /\ ReaderStep

Reader == ReaderHandsOver \/ ReaderLeaves

-----------------------------------------------------------------------------
(* The pump's loop.                                                        *)

EndAs(result) == pc' = "teardown" /\ outcome' = result

PumpOnly == UNCHANGED <<transforming, ctxDone, closed>>

(* What every arm of the select that finds reads does with it; a closed    *)
(* channel means that the context is done.                                 *)
TakeRead(onTick) ==
    IF reads # None
    THEN /\ read' = reads /\ reads' = None
         /\ keepaliveFired' = onTick /\ pc' = "stamp" /\ UNCHANGED outcome
    ELSE /\ rpc = "exited" /\ EndAs(IF ctxDone THEN "client_cancel" ELSE outcome)
         /\ UNCHANGED <<read, reads, keepaliveFired>>

SelectCancel ==
    /\ pc = "select" /\ ctxDone /\ EndAs("client_cancel")
    /\ UNCHANGED <<readerVars, reads, sample, stall, keepalive, turnVars, sawTerminal, wire>>
    /\ PumpOnly

SelectStall ==
    /\ pc = "select" /\ stall = "fired"
    /\ stall' = "off" /\ stallAt' = TRUE /\ pc' = "stallTick"
    /\ UNCHANGED <<readerVars, reads, sample, keepalive, read, frames, keepaliveFired, cause, clientVars>>
    /\ PumpOnly

SelectKeepalive ==
    /\ pc = "select" /\ keepalive = "fired"
    /\ keepalive' = "off" /\ pc' = "keepaliveTick"
    /\ UNCHANGED <<readerVars, reads, sample, stall, turnVars, clientVars>>
    /\ PumpOnly

SelectRead ==
    /\ pc = "select" /\ TakeRead(FALSE)
    /\ UNCHANGED <<readerVars, sample, stall, keepalive, frames, stallAt, cause, sawTerminal, wire>>
    /\ PumpOnly

(* A stall tick: the client may have left, or a read may be complete.      *)
StallTick ==
    /\ pc = "stallTick"
    /\ \/ ctxDone /\ EndAs("client_cancel") /\ UNCHANGED <<read, reads, keepaliveFired>>
       \/ ~ctxDone /\ TakeRead(FALSE)
       \/ /\ ~ctxDone /\ reads = None /\ rpc # "exited" /\ pc' = "stalled"
          /\ UNCHANGED <<read, reads, keepaliveFired, outcome>>
    /\ UNCHANGED <<readerVars, sample, stall, keepalive, frames, stallAt, cause, sawTerminal, wire>>
    /\ PumpOnly

(* writeKeepalive: its write may fail, which is the client leaving.        *)
WriteKeepalive(after) ==
    \/ keepalive' = "armed" /\ wire' = "keepalive" /\ pc' = after /\ UNCHANGED outcome
    \/ EndAs("client_cancel") /\ UNCHANGED <<keepalive, wire>>

(* Mutant: a keepalive counts as progress.                                 *)
KeepaliveTickAsProgress ==
    /\ pc = "keepaliveTick"
    /\ \/ /\ ctxDone /\ EndAs("client_cancel")
          /\ UNCHANGED <<read, reads, keepaliveFired, keepalive, wire, stall>>
       \/ ~ctxDone /\ TakeRead(TRUE) /\ UNCHANGED <<keepalive, wire, stall>>
       \/ /\ ~ctxDone /\ reads = None /\ rpc # "exited"
          /\ IF sawTerminal THEN EndAs("clean") /\ UNCHANGED <<keepalive, wire>> ELSE WriteKeepalive("select")
          /\ stall' = (IF stall = "none" THEN "none" ELSE "armed")
          /\ UNCHANGED <<read, reads, keepaliveFired>>
    /\ UNCHANGED <<readerVars, sample, frames, stallAt, cause, sawTerminal>>
    /\ PumpOnly

KeepaliveTick ==
    /\ pc = "keepaliveTick"
    /\ \/ /\ ctxDone /\ EndAs("client_cancel")
          /\ UNCHANGED <<read, reads, keepaliveFired, keepalive, wire>>
       \/ ~ctxDone /\ TakeRead(TRUE) /\ UNCHANGED <<keepalive, wire>>
       \/ /\ ~ctxDone /\ reads = None /\ rpc # "exited"
          /\ IF sawTerminal THEN EndAs("clean") /\ UNCHANGED <<keepalive, wire>> ELSE WriteKeepalive("select")
          /\ UNCHANGED <<read, reads, keepaliveFired>>
    /\ UNCHANGED <<readerVars, sample, stall, frames, stallAt, cause, sawTerminal>>
    /\ PumpOnly

(* The read in hand gets its time, and is ordered against a stall tick     *)
(* that is already taken or waits.  The reader goes on, or exits on error. *)
Stamp ==
    /\ pc = "stamp" /\ rpc = "handoff"
    /\ LET ticked == stallAt \/ stall = "fired" IN
       /\ stallAt' = ticked
       /\ pc' = IF ticked /\ sample = "late" THEN "stalled" ELSE "accept"
    /\ stall' = IF stall = "fired" /\ ~stallAt THEN "off" ELSE stall
    /\ rpc' = IF next \in Errors THEN "exited" ELSE "read"
    /\ next' = None /\ sample' = None
    /\ UNCHANGED <<reads, keepalive, read, frames, keepaliveFired, cause, clientVars>>
    /\ PumpOnly

StampCancel ==
    /\ pc = "stamp" /\ ctxDone /\ EndAs("client_cancel")
    /\ UNCHANGED <<readerVars, reads, sample, stall, keepalive, turnVars, sawTerminal, wire>>
    /\ PumpOnly

-----------------------------------------------------------------------------
(* What the turn decides.                                                  *)

Kept == UNCHANGED <<readerVars, reads, sample, keepalive, stallAt>>

Stalled ==
    /\ pc = "stalled"
    /\ \/ ctxDone /\ EndAs("client_cancel") /\ UNCHANGED cause
       \/ ~ctxDone /\ sawTerminal /\ EndAs("clean") /\ UNCHANGED cause
       \/ ~ctxDone /\ ~sawTerminal /\ cause' = "stall" /\ pc' = "finish" /\ UNCHANGED outcome
    /\ UNCHANGED <<stall, read, frames, keepaliveFired, sawTerminal, wire>> /\ Kept /\ PumpOnly

Blame(error) == IF error = "eof" THEN "synthesized" ELSE "upstream_error"

(* A frame stops the stopwatch; then the client's cancellation is looked   *)
(* at again, before anything is made of the read.                          *)
Accept ==
    /\ pc = "accept"
    /\ stall' = IF read \in Frames /\ stall # "none" THEN "off" ELSE stall
    /\ \/ ctxDone /\ EndAs("client_cancel") /\ UNCHANGED <<frames, cause>>
       \/ ~ctxDone /\ read \in Errors /\ sawTerminal /\ EndAs("clean") /\ UNCHANGED <<frames, cause>>
       \/ /\ ~ctxDone /\ read \in Errors /\ ~sawTerminal
          /\ cause' = Blame(read) /\ pc' = "finish" /\ UNCHANGED <<frames, outcome>>
       \/ /\ ~ctxDone /\ read \in Frames
          /\ IF transforming THEN pc' = "transform" /\ UNCHANGED frames
                            ELSE pc' = "write" /\ frames' = <<read>>
          /\ UNCHANGED <<cause, outcome>>
    /\ UNCHANGED <<read, keepaliveFired, sawTerminal, wire>> /\ Kept /\ PumpOnly

Yields == UNION {[1..n -> Frames] : n \in 0..MaxFrames}

(* renderOutcome: the error is the client's last word, if it arrives.      *)
Render(result) ==
    /\ wire' = "error"
    /\ \E r \in {result, "client_cancel"} : EndAs(r)

(* The transformer returns frames, none when it holds or drops the one it  *)
(* was given, or panics; the client may leave meanwhile.                   *)
Transform ==
    /\ pc = "transform"
    /\ \/ ctxDone /\ EndAs("client_cancel") /\ UNCHANGED <<frames, wire>>
       \/ /\ ~ctxDone /\ frames' \in Yields
          /\ pc' = IF frames' = <<>> THEN "dropped" ELSE "write"
          /\ UNCHANGED <<wire, outcome>>
       \/ /\ ~ctxDone /\ UNCHANGED frames     \* a panic
          /\ IF sawTerminal THEN EndAs("clean") /\ UNCHANGED wire ELSE Render("shim_error")
    /\ UNCHANGED <<stall, read, keepaliveFired, cause, sawTerminal>> /\ Kept /\ PumpOnly

(* One frame: its write and flush fail when the client has gone.           *)
WriteOne(after) ==
    \/ /\ frames' = Tail(frames)
       /\ sawTerminal' = (sawTerminal \/ Head(frames) = "terminal") /\ wire' = "frame"
       /\ keepalive' = IF keepalive = "none" THEN "none" ELSE "armed"
       /\ pc' = (IF Tail(frames) = <<>> THEN after ELSE pc) /\ UNCHANGED outcome
    \/ EndAs("client_cancel") /\ UNCHANGED <<frames, sawTerminal, wire, keepalive>>

Write ==
    /\ pc = "write" /\ WriteOne("again")
    /\ UNCHANGED <<readerVars, reads, sample, stall, read, stallAt, keepaliveFired, cause>>
    /\ PumpOnly

(* The transformer held the frame that ended the idle gap of a keepalive.  *)
Dropped ==
    /\ pc = "dropped"
    /\ \/ ~keepaliveFired /\ pc' = "again" /\ UNCHANGED <<keepalive, wire, outcome>>
       \/ keepaliveFired /\ sawTerminal /\ EndAs("clean") /\ UNCHANGED <<keepalive, wire>>
       \/ keepaliveFired /\ ~sawTerminal /\ WriteKeepalive("again")
    /\ UNCHANGED <<readerVars, reads, sample, stall, turnVars, sawTerminal>> /\ PumpOnly

(* The turn is over: the stopwatch runs again, so that a sample already    *)
(* taken is before its next tick.                                          *)
Again ==
    /\ pc = "again" /\ pc' = "select"
    /\ stall' = IF stall = "none" THEN "none" ELSE "armed"
    /\ sample' = IF sample = None THEN None ELSE "early"
    /\ read' = None /\ stallAt' = FALSE /\ keepaliveFired' = FALSE
    /\ UNCHANGED <<readerVars, reads, keepalive, frames, cause, clientVars>> /\ PumpOnly

(* finishPreTerminal: held frames are released first, and may hold the     *)
(* terminal that makes the error needless.                                 *)
(* Mutant: the error is rendered whatever Finalize released.               *)
FinishedAlways ==
    /\ pc = "finished" /\ Render(cause)
    /\ UNCHANGED <<stall, turnVars, sawTerminal>> /\ Kept /\ PumpOnly

Finish ==
    /\ pc = "finish"
    /\ \/ ~transforming /\ pc' = "finished" /\ UNCHANGED <<frames, wire, outcome>>
       \/ transforming /\ ctxDone /\ EndAs("client_cancel") /\ UNCHANGED <<frames, wire>>
       \/ transforming /\ ~ctxDone /\ Render("shim_error") /\ UNCHANGED frames
       \/ /\ transforming /\ ~ctxDone /\ frames' \in Yields
          /\ pc' = IF frames' = <<>> THEN "finished" ELSE "release"
          /\ UNCHANGED <<wire, outcome>>
    /\ UNCHANGED <<stall, read, keepaliveFired, cause, sawTerminal>> /\ Kept /\ PumpOnly

Release ==
    /\ pc = "release" /\ WriteOne("finished")
    /\ UNCHANGED <<readerVars, reads, sample, stall, read, stallAt, keepaliveFired, cause>>
    /\ PumpOnly

Finished ==
    /\ pc = "finished"
    /\ IF sawTerminal THEN EndAs("clean") /\ UNCHANGED wire ELSE Render(cause)
    /\ UNCHANGED <<stall, turnVars, sawTerminal>> /\ Kept /\ PumpOnly

-----------------------------------------------------------------------------
(* Every exit cancels, closes the body, then joins the reader.             *)
TearDown ==
    /\ pc = "teardown" /\ pc' = "join" /\ ctxDone' = TRUE /\ closed' = TRUE
    /\ UNCHANGED <<transforming, readerVars, reads, sample, stall, keepalive, turnVars, clientVars>>

Join ==
    /\ pc = "join" /\ rpc = "exited" /\ pc' = "returned"
    /\ UNCHANGED <<readerVars, reads, sample, stall, keepalive, turnVars, clientVars>> /\ PumpOnly

-----------------------------------------------------------------------------
(* Timers run out; the client leaves, or the stream's deadline passes.     *)

Clock == UNCHANGED <<transforming, ctxDone, closed, readerVars, reads, sample, pc, turnVars, clientVars>>

StallFires     == stall = "armed" /\ stall' = "fired" /\ UNCHANGED keepalive /\ Clock
KeepaliveFires == keepalive = "armed" /\ keepalive' = "fired" /\ UNCHANGED stall /\ Clock

ContextDone ==
    /\ ~ctxDone /\ ctxDone' = TRUE
    /\ UNCHANGED <<transforming, closed, readerVars, reads, sample, stall, keepalive,
                   pc, turnVars, clientVars>>

Select == SelectCancel \/ SelectStall \/ SelectKeepalive \/ SelectRead

Pump ==
    \/ Select \/ StallTick \/ KeepaliveTick
    \/ Stamp \/ StampCancel \/ Stalled \/ Accept
    \/ Transform \/ Write \/ Dropped \/ Again
    \/ Finish \/ Release \/ Finished
    \/ TearDown \/ Join

Next == Pump \/ Reader \/ ReaderReads \/ StallFires \/ KeepaliveFires \/ ContextDone

(* Goroutines run, writes end by their deadline, callbacks return, and a   *)
(* Read ends once its request is cancelled or its body closed.  select     *)
(* chooses at random among the ready arms, so that none waits for ever.    *)
Fairness ==
    /\ WF_vars(Pump) /\ SF_vars(SelectCancel) /\ SF_vars(SelectStall)
    /\ WF_vars(Reader) /\ WF_vars(ReaderReads /\ (ctxDone \/ closed))
    /\ WF_vars(StallFires)

Spec == Init /\ [][Next]_vars /\ Fairness

-----------------------------------------------------------------------------
(* Once the client has a terminal the pump adds nothing of its own: no     *)
(* keepalive, and no rendered error after it, whether the terminal came    *)
(* from upstream or out of Finalize.                                       *)
NothingAfterTerminal == sawTerminal => wire = "frame"

(* What Pump reports is what the client saw: clean after a terminal, any   *)
(* other ending than the client's own with an error as the last word; and  *)
(* a read that failed because the client left is not held against upstream.*)
OutcomeHonest ==
    /\ NothingAfterTerminal
    /\ cause = "upstream_error" => read # "cancelled"
    /\ pc = "returned" =>
         /\ outcome \in Outcomes
         /\ outcome = "clean" => sawTerminal
         /\ outcome \notin {"clean", "client_cancel"} => ~sawTerminal /\ wire = "error"

(* A frame whose time was sampled no later than the stall tick is found:   *)
(* the stream is not declared stalled over it (pump.go:97-103, 224-226).   *)
NoFalseStall == [][pc' = "stalled" /\ pc # "stalled" => sample # "early"]_vars

(* Every ending joins the reader, so Pump leaves no goroutine behind.      *)
PumpReturns == ctxDone \/ outcome # None ~> pc = "returned"

(* With a stall timeout upstream cannot hold the reader in a Read for      *)
(* ever, however many keepalives the client is sent meanwhile.             *)
SilenceEnds == stall # "none" => []<>(rpc # "read")

(* A stream that is over is over for every goroutine, and a silent one is  *)
(* given up.                                                               *)
StreamEnds == PumpReturns /\ SilenceEnds
=============================================================================
