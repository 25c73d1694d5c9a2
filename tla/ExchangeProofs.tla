--------------------------- MODULE ExchangeProofs ---------------------------
(***************************************************************************)
(* Proofs about what serves one request: its stream (StreamPump), whose    *)
(* reported outcome is what the client saw and which is never called       *)
(* stalled over a frame that was sampled in time, for any number of frames *)
(* a transformer yields; its forwarding (Forwarding), which answers once   *)
(* and truly; and its way through the shims (ShimChain), where each frame  *)
(* passes every hook once and in order, for any registry of shims, and     *)
(* what goes upstream is attributed as it went.                            *)
(***************************************************************************)
EXTENDS Exchange, ShimChain, FiniteSetTheorems, TLAPS

Turning  == {"select", "stallTick", "keepaliveTick", "stamp", "accept", "transform", "write",
             "dropped", "again"}
Failing  == {"stalled", "finish", "release", "finished"}
Over     == {"teardown", "join", "returned"}

ReaderTypeOK ==
    /\ transforming \in BOOLEAN /\ ctxDone \in BOOLEAN /\ closed \in BOOLEAN
    /\ rpc \in {"read", "publish", "sample", "handoff", "exited"}
    /\ next \in Frames \cup Errors \cup {None} /\ reads \in Frames \cup Errors \cup {None}
    /\ sample \in {None, "early", "late"}

PumpTypeOK ==
    /\ stall \in {"none", "off", "armed", "fired"} /\ keepalive \in {"none", "off", "armed", "fired"}
    /\ pc \in Turning \cup Failing \cup Over
    /\ stallAt \in BOOLEAN /\ keepaliveFired \in BOOLEAN

TurnTypeOK == read \in Frames \cup Errors \cup {None} /\ frames \in Seq(Frames)

ClientTypeOK ==
    /\ cause \in {None, "stall", "synthesized", "upstream_error"}
    /\ sawTerminal \in BOOLEAN /\ wire \in {None, "frame", "keepalive", "error"}
    /\ outcome \in Outcomes \cup {None}

TypeOK == ReaderTypeOK /\ PumpTypeOK /\ TurnTypeOK /\ ClientTypeOK

(* One completed read is on its way at a time: in the reader's hand, in    *)
(* the channel, or in the pump's until its time is handed over too.        *)
HandoffInv ==
    /\ rpc \in {"read", "publish"} => reads = None /\ sample = None /\ pc # "stamp"
    /\ rpc = "sample" => sample = None
    /\ rpc \in {"sample", "handoff"} /\ pc \notin Over =>
          /\ next \in Frames \cup Errors
          /\ pc = "stamp" => reads = None /\ read = next
          /\ pc # "stamp" => reads = next
    /\ rpc = "publish" => next \in Frames \cup Errors
    /\ pc = "accept" => read \in Frames \cup Errors

(* The reader leaves by itself only over a failed read, which ends the     *)
(* turn that has it; a read fails as cancelled only once the client left.  *)
ReaderInv ==
    /\ rpc = "exited" /\ ~ctxDone =>
          pc \in Failing \cup Over \/ (pc = "accept" /\ read \in Errors)
    /\ closed => ctxDone
    /\ "cancelled" \in {next, reads, read} => ctxDone

(* Where the pump is decides what the client can have been sent.           *)
ClientInv ==
    /\ pc \in {"finish", "release", "finished"} => cause # None
    /\ cause # None => pc \in {"finish", "release", "finished"} \cup Over
    /\ pc = "finish" => ~sawTerminal
    /\ pc \in {"write", "release"} => frames # <<>>
    /\ pc \in Over =>
         /\ outcome \in Outcomes
         /\ outcome = "clean" => sawTerminal
         /\ outcome \notin {"clean", "client_cancel"} => ~sawTerminal /\ wire = "error"
    /\ pc \notin Over => outcome = None

IInv ==
    /\ TypeOK /\ HandoffInv /\ ReaderInv /\ ClientInv
    /\ NothingAfterTerminal
    /\ cause = "upstream_error" => read # "cancelled"

-----------------------------------------------------------------------------
LEMMA YieldsAreFrames ==
    ASSUME NEW y \in Yields
    PROVE  y \in Seq(Frames)
<1>1. PICK n \in 0..MaxFrames : y \in [1..n -> Frames]  BY DEF Yields
<1>2. n \in Nat  BY StreamPumpAssumption
<1>3. QED  BY <1>1, <1>2

LEMMA ShortSeqs ==
    <<>> \in Seq(Frames) /\ \A f \in Frames : <<f>> \in Seq(Frames)
OBVIOUS

-----------------------------------------------------------------------------
(* Every step of the reader, the pump, the timers and the client.          *)

LEMMA IInvInit == Init => IInv
<1> SUFFICES ASSUME Init PROVE IInv  OBVIOUS
<1> USE DEF Init, Turning, Failing, Over, Frames, Errors, Outcomes, None
<1>1. ReaderTypeOK /\ PumpTypeOK /\ TurnTypeOK /\ ClientTypeOK
  BY ShortSeqs DEF ReaderTypeOK, PumpTypeOK, TurnTypeOK, ClientTypeOK
<1>2. HandoffInv /\ ReaderInv  BY DEF HandoffInv, ReaderInv
<1>3. ClientInv /\ NothingAfterTerminal  BY DEF ClientInv, NothingAfterTerminal
<1>4. QED  BY <1>1, <1>2, <1>3 DEF IInv, TypeOK

LEMMA ReaderTypeStep ==
    ASSUME IInv, [Next]_vars
    PROVE  ReaderTypeOK'
<1> USE DEF IInv, TypeOK, ReaderTypeOK, Turning, Failing, Over, Frames, Errors, Outcomes, None,
            readerVars, turnVars, clientVars
<1>1. CASE ReaderReads  BY <1>1 DEF ReaderReads, ReaderStep
<1>2. CASE ReaderHandsOver  BY <1>2 DEF ReaderHandsOver, Sampled, ReaderStep
<1>3. CASE ReaderLeaves  BY <1>3 DEF ReaderLeaves, ReaderStep
<1>4. CASE StallFires  BY <1>4 DEF StallFires, Clock
<1>5. CASE KeepaliveFires  BY <1>5 DEF KeepaliveFires, Clock
<1>6. CASE ContextDone  BY <1>6 DEF ContextDone
<1>7. CASE SelectCancel  BY <1>7 DEF SelectCancel, EndAs, PumpOnly
<1>8. CASE SelectStall  BY <1>8 DEF SelectStall, PumpOnly
<1>9. CASE SelectKeepalive  BY <1>9 DEF SelectKeepalive, PumpOnly
<1>10. CASE SelectRead  BY <1>10 DEF SelectRead, TakeRead, EndAs, PumpOnly
<1>11. CASE StallTick  BY <1>11 DEF StallTick, TakeRead, EndAs, PumpOnly
<1>12. CASE KeepaliveTick  BY <1>12 DEF KeepaliveTick, TakeRead, WriteKeepalive, EndAs, PumpOnly
<1>13. CASE Stamp  BY <1>13 DEF Stamp, PumpOnly
<1>14. CASE StampCancel  BY <1>14 DEF StampCancel, EndAs, PumpOnly
<1>15. CASE Stalled  BY <1>15 DEF Stalled, EndAs, Kept, PumpOnly
<1>16. CASE Accept  BY <1>16 DEF Accept, EndAs, Blame, Kept, PumpOnly
<1>17. CASE Transform  BY <1>17 DEF Transform, Render, EndAs, Kept, PumpOnly
<1>18. CASE Write  BY <1>18 DEF Write, WriteOne, EndAs, PumpOnly
<1>19. CASE Dropped  BY <1>19 DEF Dropped, WriteKeepalive, EndAs, PumpOnly
<1>20. CASE Again  BY <1>20 DEF Again, PumpOnly
<1>21. CASE Finish  BY <1>21 DEF Finish, Render, EndAs, Kept, PumpOnly
<1>22. CASE Release  BY <1>22 DEF Release, WriteOne, EndAs, PumpOnly
<1>23. CASE Finished  BY <1>23 DEF Finished, Render, EndAs, Kept, PumpOnly
<1>24. CASE TearDown  BY <1>24 DEF TearDown
<1>25. CASE Join  BY <1>25 DEF Join, PumpOnly
<1>26. CASE UNCHANGED vars  BY <1>26 DEF vars
<1>27. QED
  BY <1>1, <1>2, <1>3, <1>4, <1>5, <1>6, <1>7, <1>8, <1>9, <1>10, <1>11, <1>12, <1>13,
     <1>14, <1>15, <1>16, <1>17, <1>18, <1>19, <1>20, <1>21, <1>22, <1>23, <1>24, <1>25, <1>26
  DEF Next, Reader, Pump, Select

LEMMA PumpTypeStep ==
    ASSUME IInv, [Next]_vars
    PROVE  PumpTypeOK'
<1> USE DEF IInv, TypeOK, PumpTypeOK, Turning, Failing, Over, Frames, Errors, Outcomes, None,
            readerVars, turnVars, clientVars
<1>1. CASE ReaderReads  BY <1>1 DEF ReaderReads, ReaderStep
<1>2. CASE ReaderHandsOver  BY <1>2 DEF ReaderHandsOver, Sampled, ReaderStep
<1>3. CASE ReaderLeaves  BY <1>3 DEF ReaderLeaves, ReaderStep
<1>4. CASE StallFires  BY <1>4 DEF StallFires, Clock
<1>5. CASE KeepaliveFires  BY <1>5 DEF KeepaliveFires, Clock
<1>6. CASE ContextDone  BY <1>6 DEF ContextDone
<1>7. CASE SelectCancel  BY <1>7 DEF SelectCancel, EndAs, PumpOnly
<1>8. CASE SelectStall  BY <1>8 DEF SelectStall, PumpOnly
<1>9. CASE SelectKeepalive  BY <1>9 DEF SelectKeepalive, PumpOnly
<1>10. CASE SelectRead  BY <1>10 DEF SelectRead, TakeRead, EndAs, PumpOnly
<1>11. CASE StallTick  BY <1>11 DEF StallTick, TakeRead, EndAs, PumpOnly
<1>12. CASE KeepaliveTick  BY <1>12 DEF KeepaliveTick, TakeRead, WriteKeepalive, EndAs, PumpOnly
<1>13. CASE Stamp  BY <1>13 DEF Stamp, PumpOnly
<1>14. CASE StampCancel  BY <1>14 DEF StampCancel, EndAs, PumpOnly
<1>15. CASE Stalled  BY <1>15 DEF Stalled, EndAs, Kept, PumpOnly
<1>16. CASE Accept  BY <1>16 DEF Accept, EndAs, Blame, Kept, PumpOnly
<1>17. CASE Transform  BY <1>17 DEF Transform, Render, EndAs, Kept, PumpOnly
<1>18. CASE Write  BY <1>18 DEF Write, WriteOne, EndAs, PumpOnly
<1>19. CASE Dropped  BY <1>19 DEF Dropped, WriteKeepalive, EndAs, PumpOnly
<1>20. CASE Again  BY <1>20 DEF Again, PumpOnly
<1>21. CASE Finish  BY <1>21 DEF Finish, Render, EndAs, Kept, PumpOnly
<1>22. CASE Release  BY <1>22 DEF Release, WriteOne, EndAs, PumpOnly
<1>23. CASE Finished  BY <1>23 DEF Finished, Render, EndAs, Kept, PumpOnly
<1>24. CASE TearDown  BY <1>24 DEF TearDown
<1>25. CASE Join  BY <1>25 DEF Join, PumpOnly
<1>26. CASE UNCHANGED vars  BY <1>26 DEF vars
<1>27. QED
  BY <1>1, <1>2, <1>3, <1>4, <1>5, <1>6, <1>7, <1>8, <1>9, <1>10, <1>11, <1>12, <1>13,
     <1>14, <1>15, <1>16, <1>17, <1>18, <1>19, <1>20, <1>21, <1>22, <1>23, <1>24, <1>25, <1>26
  DEF Next, Reader, Pump, Select

LEMMA TurnTypeStep ==
    ASSUME IInv, [Next]_vars
    PROVE  TurnTypeOK'
<1> USE DEF IInv, TypeOK, TurnTypeOK, ClientInv, Turning, Failing, Over, Frames, Errors, Outcomes, None,
            readerVars, turnVars, clientVars
<1>0. reads \in Frames \cup Errors \cup {None}  BY DEF ReaderTypeOK
<1>1. CASE ReaderReads  BY <1>1 DEF ReaderReads, ReaderStep
<1>2. CASE ReaderHandsOver  BY <1>2 DEF ReaderHandsOver, Sampled, ReaderStep
<1>3. CASE ReaderLeaves  BY <1>3 DEF ReaderLeaves, ReaderStep
<1>4. CASE StallFires  BY <1>4 DEF StallFires, Clock
<1>5. CASE KeepaliveFires  BY <1>5 DEF KeepaliveFires, Clock
<1>6. CASE ContextDone  BY <1>6 DEF ContextDone
<1>7. CASE SelectCancel  BY <1>7 DEF SelectCancel, EndAs, PumpOnly
<1>8. CASE SelectStall  BY <1>8 DEF SelectStall, PumpOnly
<1>9. CASE SelectKeepalive  BY <1>9 DEF SelectKeepalive, PumpOnly
<1>10. CASE SelectRead  BY <1>0, <1>10 DEF SelectRead, TakeRead, EndAs, PumpOnly
<1>11. CASE StallTick  BY <1>0, <1>11 DEF StallTick, TakeRead, EndAs, PumpOnly
<1>12. CASE KeepaliveTick  BY <1>0, <1>12 DEF KeepaliveTick, TakeRead, WriteKeepalive, EndAs, PumpOnly
<1>13. CASE Stamp  BY <1>13 DEF Stamp, PumpOnly
<1>14. CASE StampCancel  BY <1>14 DEF StampCancel, EndAs, PumpOnly
<1>15. CASE Stalled  BY <1>15 DEF Stalled, EndAs, Kept, PumpOnly
<1>16. CASE Accept  BY ShortSeqs, <1>16 DEF Accept, EndAs, Blame, Kept, PumpOnly
<1>17. CASE Transform  BY YieldsAreFrames, <1>17 DEF Transform, Render, EndAs, Kept, PumpOnly
<1>18. CASE Write  BY <1>18 DEF Write, WriteOne, EndAs, PumpOnly
<1>19. CASE Dropped  BY <1>19 DEF Dropped, WriteKeepalive, EndAs, PumpOnly
<1>20. CASE Again  BY <1>20 DEF Again, PumpOnly
<1>21. CASE Finish  BY YieldsAreFrames, <1>21 DEF Finish, Render, EndAs, Kept, PumpOnly
<1>22. CASE Release  BY <1>22 DEF Release, WriteOne, EndAs, PumpOnly
<1>23. CASE Finished  BY <1>23 DEF Finished, Render, EndAs, Kept, PumpOnly
<1>24. CASE TearDown  BY <1>24 DEF TearDown
<1>25. CASE Join  BY <1>25 DEF Join, PumpOnly
<1>26. CASE UNCHANGED vars  BY <1>26 DEF vars
<1>27. QED
  BY <1>1, <1>2, <1>3, <1>4, <1>5, <1>6, <1>7, <1>8, <1>9, <1>10, <1>11, <1>12, <1>13,
     <1>14, <1>15, <1>16, <1>17, <1>18, <1>19, <1>20, <1>21, <1>22, <1>23, <1>24, <1>25, <1>26
  DEF Next, Reader, Pump, Select

LEMMA ClientTypeStep ==
    ASSUME IInv, [Next]_vars
    PROVE  ClientTypeOK'
<1> USE DEF IInv, TypeOK, ClientTypeOK, Turning, Failing, Over, Frames, Errors, Outcomes, None,
            readerVars, turnVars, clientVars
<1>1. CASE ReaderReads  BY <1>1 DEF ReaderReads, ReaderStep
<1>2. CASE ReaderHandsOver  BY <1>2 DEF ReaderHandsOver, Sampled, ReaderStep
<1>3. CASE ReaderLeaves  BY <1>3 DEF ReaderLeaves, ReaderStep
<1>4. CASE StallFires  BY <1>4 DEF StallFires, Clock
<1>5. CASE KeepaliveFires  BY <1>5 DEF KeepaliveFires, Clock
<1>6. CASE ContextDone  BY <1>6 DEF ContextDone
<1>7. CASE SelectCancel  BY <1>7 DEF SelectCancel, EndAs, PumpOnly
<1>8. CASE SelectStall  BY <1>8 DEF SelectStall, PumpOnly
<1>9. CASE SelectKeepalive  BY <1>9 DEF SelectKeepalive, PumpOnly
<1>10. CASE SelectRead  BY <1>10 DEF SelectRead, TakeRead, EndAs, PumpOnly
<1>11. CASE StallTick  BY <1>11 DEF StallTick, TakeRead, EndAs, PumpOnly
<1>12. CASE KeepaliveTick  BY <1>12 DEF KeepaliveTick, TakeRead, WriteKeepalive, EndAs, PumpOnly
<1>13. CASE Stamp  BY <1>13 DEF Stamp, PumpOnly
<1>14. CASE StampCancel  BY <1>14 DEF StampCancel, EndAs, PumpOnly
<1>15. CASE Stalled  BY <1>15 DEF Stalled, EndAs, Kept, PumpOnly
<1>16. CASE Accept  BY <1>16 DEF Accept, EndAs, Blame, Kept, PumpOnly
<1>17. CASE Transform  BY <1>17 DEF Transform, Render, EndAs, Kept, PumpOnly
<1>18. CASE Write  BY <1>18 DEF Write, WriteOne, EndAs, PumpOnly
<1>19. CASE Dropped  BY <1>19 DEF Dropped, WriteKeepalive, EndAs, PumpOnly
<1>20. CASE Again  BY <1>20 DEF Again, PumpOnly
<1>21. CASE Finish  BY <1>21 DEF Finish, Render, EndAs, Kept, PumpOnly
<1>22. CASE Release  BY <1>22 DEF Release, WriteOne, EndAs, PumpOnly
<1>23. CASE Finished  BY <1>23 DEF Finished, Render, EndAs, Kept, PumpOnly
<1>24. CASE TearDown  BY <1>24 DEF TearDown
<1>25. CASE Join  BY <1>25 DEF Join, PumpOnly
<1>26. CASE UNCHANGED vars  BY <1>26 DEF vars
<1>27. QED
  BY <1>1, <1>2, <1>3, <1>4, <1>5, <1>6, <1>7, <1>8, <1>9, <1>10, <1>11, <1>12, <1>13,
     <1>14, <1>15, <1>16, <1>17, <1>18, <1>19, <1>20, <1>21, <1>22, <1>23, <1>24, <1>25, <1>26
  DEF Next, Reader, Pump, Select

LEMMA HandoffStep ==
    ASSUME IInv, [Next]_vars
    PROVE  HandoffInv'
<1> USE DEF IInv, TypeOK, ReaderTypeOK, PumpTypeOK, TurnTypeOK, HandoffInv, Turning, Failing, Over, Frames, Errors, Outcomes, None,
            readerVars, turnVars, clientVars
<1>1. CASE ReaderReads  BY <1>1 DEF ReaderReads, ReaderStep
<1>2. CASE ReaderHandsOver  BY <1>2 DEF ReaderHandsOver, Sampled, ReaderStep
<1>3. CASE ReaderLeaves  BY <1>3 DEF ReaderLeaves, ReaderStep
<1>4. CASE StallFires  BY <1>4 DEF StallFires, Clock
<1>5. CASE KeepaliveFires  BY <1>5 DEF KeepaliveFires, Clock
<1>6. CASE ContextDone  BY <1>6 DEF ContextDone
<1>7. CASE SelectCancel  BY <1>7 DEF SelectCancel, EndAs, PumpOnly
<1>8. CASE SelectStall  BY <1>8 DEF SelectStall, PumpOnly
<1>9. CASE SelectKeepalive  BY <1>9 DEF SelectKeepalive, PumpOnly
<1>10. CASE SelectRead  BY <1>10 DEF SelectRead, TakeRead, EndAs, PumpOnly
<1>11. CASE StallTick  BY <1>11 DEF StallTick, TakeRead, EndAs, PumpOnly
<1>12. CASE KeepaliveTick  BY <1>12 DEF KeepaliveTick, TakeRead, WriteKeepalive, EndAs, PumpOnly
<1>13. CASE Stamp  BY <1>13 DEF Stamp, PumpOnly
<1>14. CASE StampCancel  BY <1>14 DEF StampCancel, EndAs, PumpOnly
<1>15. CASE Stalled  BY <1>15 DEF Stalled, EndAs, Kept, PumpOnly
<1>16. CASE Accept  BY <1>16 DEF Accept, EndAs, Blame, Kept, PumpOnly
<1>17. CASE Transform  BY <1>17 DEF Transform, Render, EndAs, Kept, PumpOnly
<1>18. CASE Write  BY <1>18 DEF Write, WriteOne, EndAs, PumpOnly
<1>19. CASE Dropped  BY <1>19 DEF Dropped, WriteKeepalive, EndAs, PumpOnly
<1>20. CASE Again  BY <1>20 DEF Again, PumpOnly
<1>21. CASE Finish  BY <1>21 DEF Finish, Render, EndAs, Kept, PumpOnly
<1>22. CASE Release  BY <1>22 DEF Release, WriteOne, EndAs, PumpOnly
<1>23. CASE Finished  BY <1>23 DEF Finished, Render, EndAs, Kept, PumpOnly
<1>24. CASE TearDown  BY <1>24 DEF TearDown
<1>25. CASE Join  BY <1>25 DEF Join, PumpOnly
<1>26. CASE UNCHANGED vars  BY <1>26 DEF vars
<1>27. QED
  BY <1>1, <1>2, <1>3, <1>4, <1>5, <1>6, <1>7, <1>8, <1>9, <1>10, <1>11, <1>12, <1>13,
     <1>14, <1>15, <1>16, <1>17, <1>18, <1>19, <1>20, <1>21, <1>22, <1>23, <1>24, <1>25, <1>26
  DEF Next, Reader, Pump, Select

LEMMA ReaderInvStep ==
    ASSUME IInv, [Next]_vars
    PROVE  ReaderInv'
<1> USE DEF IInv, TypeOK, ReaderTypeOK, PumpTypeOK, TurnTypeOK, HandoffInv, ReaderInv, ClientInv, Turning, Failing, Over, Frames, Errors, Outcomes, None,
            readerVars, turnVars, clientVars
<1>1. CASE ReaderReads  BY <1>1 DEF ReaderReads, ReaderStep
<1>2. CASE ReaderHandsOver  BY <1>2 DEF ReaderHandsOver, Sampled, ReaderStep
<1>3. CASE ReaderLeaves  BY <1>3 DEF ReaderLeaves, ReaderStep
<1>4. CASE StallFires  BY <1>4 DEF StallFires, Clock
<1>5. CASE KeepaliveFires  BY <1>5 DEF KeepaliveFires, Clock
<1>6. CASE ContextDone  BY <1>6 DEF ContextDone
<1>7. CASE SelectCancel  BY <1>7 DEF SelectCancel, EndAs, PumpOnly
<1>8. CASE SelectStall  BY <1>8 DEF SelectStall, PumpOnly
<1>9. CASE SelectKeepalive  BY <1>9 DEF SelectKeepalive, PumpOnly
<1>10. CASE SelectRead  BY <1>10 DEF SelectRead, TakeRead, EndAs, PumpOnly
<1>11. CASE StallTick  BY <1>11 DEF StallTick, TakeRead, EndAs, PumpOnly
<1>12. CASE KeepaliveTick  BY <1>12 DEF KeepaliveTick, TakeRead, WriteKeepalive, EndAs, PumpOnly
<1>13. CASE Stamp  BY <1>13 DEF Stamp, PumpOnly
<1>14. CASE StampCancel  BY <1>14 DEF StampCancel, EndAs, PumpOnly
<1>15. CASE Stalled  BY <1>15 DEF Stalled, EndAs, Kept, PumpOnly
<1>16. CASE Accept  BY <1>16 DEF Accept, EndAs, Blame, Kept, PumpOnly
<1>17. CASE Transform  BY <1>17 DEF Transform, Render, EndAs, Kept, PumpOnly
<1>18. CASE Write  BY <1>18 DEF Write, WriteOne, EndAs, PumpOnly
<1>19. CASE Dropped  BY <1>19 DEF Dropped, WriteKeepalive, EndAs, PumpOnly
<1>20. CASE Again  BY <1>20 DEF Again, PumpOnly
<1>21. CASE Finish  BY <1>21 DEF Finish, Render, EndAs, Kept, PumpOnly
<1>22. CASE Release  BY <1>22 DEF Release, WriteOne, EndAs, PumpOnly
<1>23. CASE Finished  BY <1>23 DEF Finished, Render, EndAs, Kept, PumpOnly
<1>24. CASE TearDown  BY <1>24 DEF TearDown
<1>25. CASE Join  BY <1>25 DEF Join, PumpOnly
<1>26. CASE UNCHANGED vars  BY <1>26 DEF vars
<1>27. QED
  BY <1>1, <1>2, <1>3, <1>4, <1>5, <1>6, <1>7, <1>8, <1>9, <1>10, <1>11, <1>12, <1>13,
     <1>14, <1>15, <1>16, <1>17, <1>18, <1>19, <1>20, <1>21, <1>22, <1>23, <1>24, <1>25, <1>26
  DEF Next, Reader, Pump, Select

LEMMA ClientInvStep ==
    ASSUME IInv, [Next]_vars
    PROVE  ClientInv' /\ NothingAfterTerminal' /\ (cause = "upstream_error" => read # "cancelled")'
<1> USE DEF IInv, TypeOK, ReaderTypeOK, PumpTypeOK, TurnTypeOK, ClientTypeOK, ReaderInv, ClientInv, NothingAfterTerminal, Turning, Failing, Over, Frames, Errors, Outcomes, None,
            readerVars, turnVars, clientVars
<1>1. CASE ReaderReads  BY <1>1 DEF ReaderReads, ReaderStep
<1>2. CASE ReaderHandsOver  BY <1>2 DEF ReaderHandsOver, Sampled, ReaderStep
<1>3. CASE ReaderLeaves  BY <1>3 DEF ReaderLeaves, ReaderStep
<1>4. CASE StallFires  BY <1>4 DEF StallFires, Clock
<1>5. CASE KeepaliveFires  BY <1>5 DEF KeepaliveFires, Clock
<1>6. CASE ContextDone  BY <1>6 DEF ContextDone
<1>7. CASE SelectCancel  BY <1>7 DEF SelectCancel, EndAs, PumpOnly
<1>8. CASE SelectStall  BY <1>8 DEF SelectStall, PumpOnly
<1>9. CASE SelectKeepalive  BY <1>9 DEF SelectKeepalive, PumpOnly
<1>10. CASE SelectRead  BY <1>10 DEF SelectRead, TakeRead, EndAs, PumpOnly
<1>11. CASE StallTick  BY <1>11 DEF StallTick, TakeRead, EndAs, PumpOnly
<1>12. CASE KeepaliveTick  BY <1>12 DEF KeepaliveTick, TakeRead, WriteKeepalive, EndAs, PumpOnly
<1>13. CASE Stamp  BY <1>13 DEF Stamp, PumpOnly
<1>14. CASE StampCancel  BY <1>14 DEF StampCancel, EndAs, PumpOnly
<1>15. CASE Stalled  BY <1>15 DEF Stalled, EndAs, Kept, PumpOnly
<1>16. CASE Accept  BY <1>16 DEF Accept, EndAs, Blame, Kept, PumpOnly
<1>17. CASE Transform  BY <1>17 DEF Transform, Render, EndAs, Kept, PumpOnly
<1>18. CASE Write  BY <1>18 DEF Write, WriteOne, EndAs, PumpOnly
<1>19. CASE Dropped  BY <1>19 DEF Dropped, WriteKeepalive, EndAs, PumpOnly
<1>20. CASE Again  BY <1>20 DEF Again, PumpOnly
<1>21. CASE Finish  BY <1>21 DEF Finish, Render, EndAs, Kept, PumpOnly
<1>22. CASE Release  BY <1>22 DEF Release, WriteOne, EndAs, PumpOnly
<1>23. CASE Finished  BY <1>23 DEF Finished, Render, EndAs, Kept, PumpOnly
<1>24. CASE TearDown  BY <1>24 DEF TearDown
<1>25. CASE Join  BY <1>25 DEF Join, PumpOnly
<1>26. CASE UNCHANGED vars  BY <1>26 DEF vars
<1>27. QED
  BY <1>1, <1>2, <1>3, <1>4, <1>5, <1>6, <1>7, <1>8, <1>9, <1>10, <1>11, <1>12, <1>13,
     <1>14, <1>15, <1>16, <1>17, <1>18, <1>19, <1>20, <1>21, <1>22, <1>23, <1>24, <1>25, <1>26
  DEF Next, Reader, Pump, Select

LEMMA IInvStep == IInv /\ [Next]_vars => IInv'
BY ReaderTypeStep, PumpTypeStep, TurnTypeStep, ClientTypeStep, HandoffStep, ReaderInvStep, ClientInvStep
DEF IInv, TypeOK

(* What Pump reports is what the client saw, whichever way the stream ends *)
(* and however its timers, its reader and the client's cancellation race.  *)
THEOREM HonestOutcome == Spec => []OutcomeHonest
<1>1. IInv => OutcomeHonest  BY DEF IInv, ClientInv, OutcomeHonest, Over
<1>2. QED  BY IInvInit, IInvStep, <1>1, PTL DEF Spec

(* No frame whose time was sampled before the stall tick is left in the    *)
(* channel when the pump gives the stream up as stalled.                   *)
THEOREM StallsAreTrue == Spec => NoFalseStall
<1>1. IInv /\ [Next]_vars => [pc' = "stalled" /\ pc # "stalled" => sample # "early"]_vars
  <2> SUFFICES ASSUME IInv, [Next]_vars, pc' = "stalled", pc # "stalled"
               PROVE  sample # "early"
    OBVIOUS
  <2>1. StallTick \/ Stamp
    BY DEF Next, Reader, Pump, Select, vars, ReaderReads, ReaderHandsOver, ReaderLeaves, StallFires,
           KeepaliveFires, ContextDone, SelectCancel, SelectStall, SelectKeepalive, SelectRead,
           KeepaliveTick, StampCancel, Stalled, Accept, Transform, Write, Dropped, Again, Finish,
           Release, Finished, TearDown, Join, ReaderStep, Clock, TakeRead, WriteKeepalive, WriteOne,
           Render, EndAs
  <2>2. CASE StallTick
    BY <2>2 DEF StallTick, TakeRead, EndAs, IInv, TypeOK, ReaderTypeOK, HandoffInv, Frames, Errors, Over, None
  <2>3. CASE Stamp  BY <2>3 DEF Stamp, IInv, TypeOK, ReaderTypeOK
  <2>4. QED  BY <2>1, <2>2, <2>3
<1>2. QED  BY IInvInit, IInvStep, <1>1, PTL DEF Spec, NoFalseStall

-----------------------------------------------------------------------------
(***************************************************************************)
(* The forwarding of one request (Forwarding), with every answer of its    *)
(* surroundings: the client may leave, the timer may fire and the body may *)
(* break between any two steps.                                            *)
(***************************************************************************)
(* Where the handler stands: up to the headers; until it cancels its call; *)
(* on the catalog's way out and on a panic's, which still owe an answer;   *)
(* and where an answer is due.                                             *)
UpToHeaders  == {"gate", "reading", "request hooks", "preparing", "calling", "responded"}
Underway     == UpToHeaders \cup {"prelude hooks", "committing", "buffering", "body hooks"}
CatalogEnds  == {"closing catalog", "closed catalog", "rendering"}
PanicEnds    == {"panicking", "unwinding", "panicked"}
Unanswered   == Underway \cup CatalogEnds \cup PanicEnds
Ends         == {"cancelling", "closing", "returned", "recorded"}
Uncancelled  == Underway \cup {"closing catalog", "panicking", "copying", "cancelling"}

ForwardTypeOK ==
    /\ serving \in Unanswered \cup Ends \cup {"copying"}
    /\ over \in {"none", "canceled", "deadline"}
    /\ timer \in {"off", "armed", "fired", "stopped"}
    /\ summary \in [context : {"binding", "correlated"}, stream : {"none", "clean", "stall", "client_cancel"}]

(* The context of the call ends with the client or with the timer, and     *)
(* says so; a timer without a cause of its own is the passthrough's, which *)
(* never asks.                                                             *)
ContextInv ==
    /\ serving \in UpToHeaders => timer = "off"
    /\ over = "deadline" => timer = "fired"
    /\ over = "canceled" /\ serving \in Uncancelled =>
          gone \/ (endpoint = "passthrough" /\ timer = "fired")
    /\ serving \in {"buffering", "prelude hooks"} => endpoint # "passthrough"

(* One answer, and none only to a client that has left or whose own body   *)
(* broke.                                                                  *)
WireInv ==
    /\ serving \in Unanswered => answers = <<>>
    /\ serving = "copying" => answers = <<"upstream">>
    /\ serving \in Ends =>
          (answers = <<>> /\ (gone \/ fate = "request broken")) \/ \E kind : answers = <<kind>>

(* What has gone wrong, and what is answered or is going to be.            *)
FateInv ==
    /\ serving \notin CatalogEnds \cup Ends => fate = "none" /\ failure = "none"
    /\ serving \in CatalogEnds =>
          /\ fate # "no credential"
          /\ fate = "over cap" => failure = "badGateway"
          /\ failure = "clientGone" => gone
          /\ failure = "gatewayTimeout" => timer = "fired"
    /\ answers = <<"gatewayTimeout">> => fate = "headers late" \/ timer = "fired"
    /\ fate = "over cap" /\ serving \in Ends => answers = <<"badGateway">>
    /\ fate = "no credential" => answers \in {<<>>, <<"notReady">>}
    /\ fate = "request broken" => serving \in {"returned", "recorded"} /\ answers = <<>>

(* The one record, of what the summary says and the wire carried.          *)
RecordInv ==
    /\ response.correlated => summary.context = "correlated"
    /\ summary.stream # "none" => serving \in Ends /\ answers = <<"upstream">> /\ response.stream
    /\ serving # "recorded" => records = <<>>
    /\ serving = "recorded" =>
          records = <<Forward!RecordOf(IF answers = <<>> THEN 200 ELSE Forward!StatusOf(Head(answers)))>>

ForwardInv == ForwardTypeOK /\ ContextInv /\ WireInv /\ FateInv /\ RecordInv

LEMMA OneAnswer ==
    ASSUME NEW kind
    PROVE  /\ Append(<<>>, kind) = <<kind>> /\ <<kind>> # <<>> /\ Len(<<kind>>) = 1
           /\ Head(<<kind>>) = kind /\ <<kind>>[1] = kind
           /\ \A other : <<kind>> = <<other>> => kind = other
  OBVIOUS

LEMMA ForwardInit == Forward!Init => ForwardInv
<1> SUFFICES ASSUME Forward!Init PROVE ForwardInv  OBVIOUS
<1> USE DEF Forward!Init
<1>1. ForwardTypeOK  BY DEF ForwardTypeOK, Unanswered, Underway, UpToHeaders
<1>2. ContextInv /\ WireInv /\ FateInv
  BY OneAnswer DEF ContextInv, WireInv, FateInv, UpToHeaders, CatalogEnds, Ends
<1>3. RecordInv  BY DEF RecordInv, Forward!NoResponse
<1>4. QED  BY <1>1, <1>2, <1>3 DEF ForwardInv

(* The client leaves, or the timer fires.                                  *)
LEMMA OutsideKeeps == ForwardInv /\ (Forward!Leave \/ Forward!OutboundTimeout) => ForwardInv'
<1> SUFFICES ASSUME ForwardInv, Forward!Leave \/ Forward!OutboundTimeout PROVE ForwardInv'  OBVIOUS
<1>1. ForwardTypeOK /\ ContextInv /\ WireInv /\ FateInv /\ RecordInv  BY DEF ForwardInv
<1>2. /\ UNCHANGED <<endpoint, serving, response, fate, failure, answers, summary, records>>
      /\ gone => gone'
      /\ timer' = timer \/ (timer = "armed" /\ timer' = "fired")
      /\ over' \in {"none", "canceled", "deadline"}
      /\ over' = over \/ (over' = "canceled" /\ gone')
         \/ (timer' = "fired" /\ over' = IF endpoint = "passthrough" THEN "canceled" ELSE "deadline")
  BY <1>1 DEF Forward!Leave, Forward!OutboundTimeout, ForwardTypeOK
<1>3. ForwardTypeOK'  BY <1>1, <1>2 DEF ForwardTypeOK
<1>4. ContextInv'  BY <1>1, <1>2 DEF ContextInv
<1>5. WireInv' /\ FateInv'  BY <1>1, <1>2 DEF WireInv, FateInv
<1>6. RecordInv'
  <2>1. serving = "recorded" => records' = records /\ response' = response  BY <1>2
  <2>2. QED  BY <1>1, <1>2 DEF RecordInv, Forward!RecordOf, Forward!StatusOf
<1>7. QED  BY <1>3, <1>4, <1>5, <1>6 DEF ForwardInv

(* A step that only goes on.                                               *)
LEMMA QuietKeeps ==
    ASSUME ForwardInv, Forward!Quietly,
           NEW from \in Underway, NEW to \in Underway \cup {"closing catalog", "panicking"},
           Forward!Goes(from, to),
           to \in UpToHeaders => from \in UpToHeaders,
           to \in {"buffering", "prelude hooks"} => endpoint # "passthrough"
    PROVE  ForwardInv'
<1>1. ForwardTypeOK /\ ContextInv /\ WireInv /\ FateInv /\ RecordInv  BY DEF ForwardInv
<1>2. /\ serving = from /\ serving' = to
      /\ UNCHANGED <<endpoint, gone, over, timer, response, fate, failure, answers, summary, records>>
  BY DEF Forward!Goes, Forward!Quietly, Forward!callVars
<1>3. /\ serving \in Underway /\ serving \in Unanswered /\ serving \in Uncancelled
      /\ serving \notin CatalogEnds \cup Ends /\ serving # "recorded" /\ serving' \notin {"copying", "recorded"}
      /\ serving' \in Unanswered
      /\ serving' \in CatalogEnds => serving' = "closing catalog"
  BY <1>2 DEF Underway, Unanswered, Uncancelled, UpToHeaders, CatalogEnds, Ends, PanicEnds
<1>4. ForwardTypeOK'  BY <1>1, <1>2, <1>3 DEF ForwardTypeOK, Ends
<1>5. ContextInv'  BY <1>1, <1>2, <1>3 DEF ContextInv
<1>6. WireInv'  BY <1>1, <1>2, <1>3 DEF WireInv, Ends, Unanswered, Underway, UpToHeaders, PanicEnds, CatalogEnds
<1>7. FateInv'  BY <1>1, <1>2, <1>3 DEF FateInv
<1>8. RecordInv'  BY <1>1, <1>2, <1>3 DEF RecordInv
<1>9. QED  BY <1>4, <1>5, <1>6, <1>7, <1>8 DEF ForwardInv

(* A step that answers: it is the first that does.                         *)
LEMMA AnswerKeeps ==
    ASSUME ForwardInv, NEW from \in Unanswered, NEW kind, NEW to \in {"copying", "cancelling", "returned"},
           Forward!Answer(from, kind, to),
           kind # "gatewayTimeout", to = "copying" => kind = "upstream" /\ from \in Underway,
           to = "cancelling" => from \in Underway,
           from \in CatalogEnds => failure = "none"
    PROVE  ForwardInv'
<1>1. ForwardTypeOK /\ ContextInv /\ WireInv /\ FateInv /\ RecordInv  BY DEF ForwardInv
<1>2. /\ serving = from /\ serving' = to
      /\ UNCHANGED <<endpoint, gone, over, timer, response, fate, failure, summary, records>>
  BY DEF Forward!Goes, Forward!Answer, Forward!callVars
<1>3. answers' = <<kind>>
  <2>1. answers' = Append(answers, kind)  BY DEF Forward!Answer
  <2>2. QED  BY <1>1, <1>2, <2>1, OneAnswer DEF WireInv
<1>4. /\ serving \notin Ends /\ serving \notin {"copying", "returned", "recorded"}
      /\ serving' \notin UpToHeaders /\ serving' \notin {"buffering", "prelude hooks", "recorded"}
      /\ serving' \notin CatalogEnds /\ serving' \notin Unanswered
      /\ serving' \in Uncancelled => serving \in Uncancelled
      /\ serving' = "copying" \/ serving' \in Ends
  BY <1>2 DEF Underway, Unanswered, Uncancelled, UpToHeaders, CatalogEnds, Ends, PanicEnds
<1>5. fate \notin {"over cap", "no credential", "request broken"}  BY <1>1, <1>2, <1>4 DEF FateInv
<1>6. serving' = "copying" => fate = "none" /\ failure = "none"
  BY <1>1, <1>2 DEF FateInv, Underway, UpToHeaders, CatalogEnds, Ends
<1>7. ForwardTypeOK' /\ ContextInv'  BY <1>1, <1>2, <1>4 DEF ForwardTypeOK, ContextInv
<1>8. WireInv'  BY <1>2, <1>3, <1>4 DEF WireInv, Ends
<1>9. FateInv'  BY <1>2, <1>3, <1>4, <1>5, <1>6, OneAnswer DEF FateInv
<1>10. RecordInv'  BY <1>1, <1>2, <1>4 DEF RecordInv
<1>11. QED  BY <1>7, <1>8, <1>9, <1>10 DEF ForwardInv

(* A failure of the call, answered or not.                                 *)
LEMMA FailKeeps ==
    ASSUME ForwardInv, NEW from \in {"preparing", "calling", "buffering"}, NEW why, NEW kind,
           Forward!Fails(from, why, kind),
           kind = "clientGone" => over = "canceled",
           kind = "gatewayTimeout" => why = "headers late" \/ over = "deadline",
           why = "over cap" => kind = "badGateway",
           why = "no credential" => kind \in {"clientGone", "notReady"},
           why # "request broken"
    PROVE  ForwardInv'
<1>1. ForwardTypeOK /\ ContextInv /\ WireInv /\ FateInv /\ RecordInv  BY DEF ForwardInv
<1>2. /\ serving = from /\ serving' = "cancelling" /\ fate' = why
      /\ UNCHANGED <<endpoint, gone, over, timer, response, failure, summary, records>>
      /\ answers' = IF kind = "clientGone" THEN answers ELSE Append(answers, kind)
  BY DEF Forward!Goes, Forward!Fails, Forward!Responding, Forward!callVars
<1>3. /\ serving \in Underway /\ serving \in Uncancelled /\ serving \in Unanswered
      /\ serving \notin Ends /\ serving # "recorded"
      /\ "cancelling" \in Ends /\ "cancelling" \notin Unanswered \cup CatalogEnds
  BY <1>2 DEF Underway, Uncancelled, Unanswered, Ends, UpToHeaders, PanicEnds, CatalogEnds
<1>4. answers' = IF kind = "clientGone" THEN <<>> ELSE <<kind>>
  BY <1>1, <1>2, <1>3, OneAnswer DEF WireInv
<1>5. kind = "clientGone" => gone
  BY <1>1, <1>2, <1>3 DEF ContextInv, UpToHeaders
<1>6. over = "deadline" => timer = "fired"  BY <1>1 DEF ContextInv
<1>7. ForwardTypeOK'  BY <1>1, <1>2, <1>3 DEF ForwardTypeOK
<1>8. ContextInv'  BY <1>1, <1>2, <1>3 DEF ContextInv, UpToHeaders
<1>9. WireInv'  BY <1>2, <1>3, <1>4, <1>5 DEF WireInv
<1>10. FateInv'  BY <1>2, <1>3, <1>4, <1>6, OneAnswer DEF FateInv
<1>11. RecordInv'  BY <1>1, <1>2, <1>3 DEF RecordInv
<1>12. QED  BY <1>7, <1>8, <1>9, <1>10, <1>11 DEF ForwardInv

(* The client's own body breaks.                                           *)
LEMMA BrokenKeeps ==
    ASSUME ForwardInv, Forward!Goes("reading", "returned"), fate' = "request broken",
           UNCHANGED <<endpoint, gone, over, timer, response, body, failure, answers, summary, records>>
    PROVE  ForwardInv'
<1>1. ForwardTypeOK /\ ContextInv /\ WireInv /\ FateInv /\ RecordInv  BY DEF ForwardInv
<1>2. serving = "reading" /\ serving' = "returned"  BY DEF Forward!Goes
<1>3. /\ serving \in Unanswered /\ serving' \in Ends
      /\ serving' \notin Unanswered \cup UpToHeaders \cup Uncancelled \cup CatalogEnds
  BY <1>2 DEF Unanswered, Uncancelled, Underway, UpToHeaders, CatalogEnds, PanicEnds, Ends
<1>4. answers = <<>> /\ answers' = <<>>  BY <1>1, <1>3 DEF WireInv
<1>5. ForwardTypeOK' /\ ContextInv'  BY <1>1, <1>2, <1>3 DEF ForwardTypeOK, ContextInv
<1>6. WireInv'  BY <1>2, <1>3, <1>4 DEF WireInv
<1>7. FateInv'  BY <1>2, <1>3, <1>4, OneAnswer DEF FateInv
<1>8. RecordInv'  BY <1>1, <1>2, <1>3 DEF RecordInv, Ends
<1>9. QED  BY <1>5, <1>6, <1>7, <1>8 DEF ForwardInv

(* The steps up to the failures of the body.                               *)
LEMMA WayInKeeps ==
    ForwardInv /\ (Forward!Gate \/ Forward!readBody \/ Forward!RunRequest \/ Forward!Prepare) => ForwardInv'
<1> SUFFICES ASSUME ForwardInv, Forward!Gate \/ Forward!readBody \/ Forward!RunRequest \/ Forward!Prepare
             PROVE  ForwardInv'
  OBVIOUS
<1>1. /\ \A s \in {"gate", "reading", "request hooks", "preparing", "calling"} : s \in UpToHeaders /\ s \in Underway /\ s \in Unanswered
      /\ "returned" \notin UpToHeaders /\ "panicking" \notin UpToHeaders
  BY DEF Unanswered, Underway, UpToHeaders
<1>2. CASE Forward!Gate
  <2>1. \/ Forward!Answer("gate", "unauthorized", "returned")
        \/ Forward!Answer("gate", "notReady", "returned")
        \/ \E to \in {"reading", "preparing"} : Forward!Goes("gate", to) /\ Forward!Quietly
    BY <1>2 DEF Forward!Gate
  <2>2. "gate" \notin CatalogEnds  BY DEF CatalogEnds
  <2>3. QED  BY <1>1, <2>1, <2>2, AnswerKeeps, QuietKeeps
<1>3. CASE Forward!readBody
  <2>1. "reading" \notin CatalogEnds  BY DEF CatalogEnds
  <2>2. CASE Forward!Answer("reading", "payloadTooLarge", "returned")  BY <1>1, <2>1, <2>2, AnswerKeeps
  <2>3. CASE /\ Forward!Goes("reading", "returned") /\ fate' = "request broken"
             /\ UNCHANGED <<Forward!callVars, failure, answers, summary, records>>
    BY <2>3, BrokenKeeps DEF Forward!callVars
  <2>4. CASE Forward!Goes("reading", "request hooks") /\ Forward!Quietly  BY <1>1, <2>4, QuietKeeps
  <2>5. QED  BY <1>3, <2>2, <2>3, <2>4 DEF Forward!readBody
<1>4. CASE Forward!RunRequest
  <2>1. "request hooks" \notin CatalogEnds  BY DEF CatalogEnds
  <2>2. ASSUME NEW kind \in {"invalidRequest", "shimError", "backgroundUnsupported"},
               Forward!Answer("request hooks", kind, "returned")
        PROVE  ForwardInv'
    BY <1>1, <2>1, <2>2, AnswerKeeps
  <2>3. ASSUME NEW to \in {"panicking", "preparing"}, Forward!Goes("request hooks", to), Forward!Quietly
        PROVE  ForwardInv'
    BY <1>1, <2>3, QuietKeeps
  <2>4. QED  BY <1>4, <2>2, <2>3 DEF Forward!RunRequest, Forward!HookFails
<1>5. CASE Forward!Prepare
  <2>1. CASE Forward!Goes("preparing", "calling") /\ Forward!Quietly  BY <1>1, <2>1, QuietKeeps
  <2>2. CASE Forward!Fails("preparing", "unbuildable", "badGateway")  BY <2>2, FailKeeps
  <2>3. ASSUME Forward!Fails("preparing", "no credential", Forward!classifyByContext("notReady"))
        PROVE  ForwardInv'
    <3>1. over # "deadline"
      BY <1>1, <2>3 DEF ForwardInv, ContextInv, Forward!Fails, Forward!Goes
    <3>2. /\ Forward!classifyByContext("notReady") \in {"clientGone", "notReady"}
          /\ Forward!classifyByContext("notReady") = "clientGone" => over = "canceled"
      BY <3>1 DEF Forward!classifyByContext
    <3>3. QED  BY <2>3, <3>2, FailKeeps
  <2>4. QED  BY <1>5, <2>1, <2>2, <2>3 DEF Forward!Prepare
<1>6. QED  BY <1>2, <1>3, <1>4, <1>5

(* What classifyByContext makes of a fallback.                             *)
LEMMA ContextClass ==
    ASSUME NEW fallback \in {"badGateway", "notReady"}
    PROVE  LET kind == Forward!classifyByContext(fallback) IN
             /\ kind = "clientGone" => over = "canceled"
             /\ kind = "gatewayTimeout" => over = "deadline"
  BY DEF Forward!classifyByContext

LEMMA CallKeeps == ForwardInv /\ (Forward!ClientDo \/ Forward!Responded) => ForwardInv'
<1> SUFFICES ASSUME ForwardInv, Forward!ClientDo \/ Forward!Responded PROVE ForwardInv'  OBVIOUS
<1>1. ForwardTypeOK /\ ContextInv /\ WireInv /\ FateInv /\ RecordInv  BY DEF ForwardInv
<1>2. /\ \A s \in {"calling", "responded"} : s \in UpToHeaders /\ s \in Underway /\ s \in Unanswered /\ s \in Uncancelled
      /\ \A s \in {"prelude hooks", "committing", "buffering"} : s \notin UpToHeaders /\ s \in Underway /\ s \in Unanswered
      /\ \A s \in Underway : s \notin CatalogEnds \cup Ends
  BY DEF Unanswered, Underway, UpToHeaders, Uncancelled, CatalogEnds, Ends
<1>3. ASSUME Forward!Goes("calling", "responded"), NEW answer \in Forward!Responses, response' = answer,
             summary' = Forward!Correlate(answer),
             UNCHANGED <<endpoint, gone, over, timer, fate, failure, answers, records>>
      PROVE  ForwardInv'
  <2>1. serving = "calling" /\ serving' = "responded"  BY <1>3 DEF Forward!Goes
  <2>2. /\ summary' \in [context : {"binding", "correlated"}, stream : {"none", "clean", "stall", "client_cancel"}]
        /\ summary'.stream = summary.stream /\ (answer.correlated => summary'.context = "correlated")
    BY <1>1, <1>3 DEF ForwardTypeOK, Forward!Correlate
  <2>3. ForwardTypeOK'  BY <1>1, <1>2, <1>3, <2>1, <2>2 DEF ForwardTypeOK
  <2>4. ContextInv'  BY <1>1, <1>2, <1>3, <2>1 DEF ContextInv
  <2>5. WireInv' /\ FateInv'  BY <1>1, <1>2, <1>3, <2>1 DEF WireInv, FateInv
  <2>6. RecordInv'  BY <1>1, <1>2, <1>3, <2>1, <2>2 DEF RecordInv
  <2>7. QED  BY <2>3, <2>4, <2>5, <2>6 DEF ForwardInv
<1>4. CASE Forward!Fails("calling", "headers late", "gatewayTimeout")  BY <1>4, FailKeeps
<1>5. ASSUME Forward!Fails("calling", "unreachable", Forward!classifyByContext("badGateway"))
      PROVE  ForwardInv'
  BY <1>5, ContextClass, FailKeeps
<1>6. CASE Forward!Responded
  <2>1. /\ serving = "responded"
        /\ serving' \in {"prelude hooks", "committing", "buffering"}
        /\ serving' \in {"prelude hooks", "buffering"} => endpoint # "passthrough"
        /\ timer' \in {"off", "armed"}
        /\ UNCHANGED <<endpoint, gone, over, response, fate, failure, answers, summary, records>>
    BY <1>6 DEF Forward!Responded, Forward!Goes
  <2>2. over # "deadline" /\ (over = "canceled" => gone)  BY <1>1, <1>2, <2>1 DEF ContextInv
  <2>3. ForwardTypeOK'  BY <1>1, <1>2, <2>1 DEF ForwardTypeOK
  <2>4. ContextInv'  BY <1>1, <1>2, <2>1, <2>2 DEF ContextInv
  <2>5. answers = <<>>  BY <1>1, <1>2, <2>1 DEF WireInv
  <2>6. WireInv' /\ FateInv'  BY <1>1, <1>2, <2>1, <2>5, OneAnswer DEF WireInv, FateInv
  <2>7. RecordInv'  BY <1>1, <1>2, <2>1 DEF RecordInv
  <2>8. QED  BY <2>3, <2>4, <2>6, <2>7 DEF ForwardInv
<1>7. QED  BY <1>3, <1>4, <1>5, <1>6 DEF Forward!ClientDo

(* The body is buffered: its cap, its break, or all of it.                 *)
LEMMA ReadKeeps == ForwardInv /\ Forward!ReadBounded => ForwardInv'
<1> SUFFICES ASSUME ForwardInv, Forward!ReadBounded PROVE ForwardInv'  OBVIOUS
<1>1. ForwardTypeOK /\ ContextInv /\ WireInv /\ FateInv /\ RecordInv  BY DEF ForwardInv
<1>2. ASSUME NEW why \in {"over cap", "read broken"}, NEW kind, Forward!ReadFails(why, kind),
             kind = "clientGone" => over = "canceled",
             kind = "gatewayTimeout" => over = "deadline",
             why = "over cap" => kind = "badGateway"
      PROVE  ForwardInv'
  <2>1. CASE Forward!Fails("buffering", why, kind)  BY <1>2, <2>1, FailKeeps
  <2>2. ASSUME /\ Forward!Goes("buffering", "closing catalog") /\ fate' = why /\ failure' = kind
               /\ UNCHANGED <<Forward!callVars, answers, summary, records>>
        PROVE  ForwardInv'
    <3>1. /\ serving = "buffering" /\ serving' = "closing catalog" /\ fate' = why /\ failure' = kind
          /\ UNCHANGED <<endpoint, gone, over, timer, response, answers, summary, records>>
      BY <2>2 DEF Forward!Goes, Forward!callVars
    <3>2. /\ "buffering" \in Unanswered /\ "buffering" \in Uncancelled /\ "buffering" \notin Ends
          /\ "closing catalog" \in Unanswered /\ "closing catalog" \notin Ends /\ "closing catalog" \notin UpToHeaders
          /\ "closing catalog" \in CatalogEnds
      BY DEF Unanswered, Underway, UpToHeaders, Uncancelled, CatalogEnds, Ends
    <3>3. /\ kind = "clientGone" => gone
          /\ kind = "gatewayTimeout" => timer = "fired"
      BY <1>1, <1>2, <3>1, <3>2 DEF ContextInv
    <3>4. answers = <<>>  BY <1>1, <3>1, <3>2 DEF WireInv
    <3>5. ForwardTypeOK' /\ ContextInv'  BY <1>1, <3>1, <3>2 DEF ForwardTypeOK, ContextInv
    <3>6. WireInv'  BY <3>1, <3>2, <3>4 DEF WireInv
    <3>7. FateInv'  BY <1>2, <3>1, <3>2, <3>3, <3>4, OneAnswer DEF FateInv
    <3>8. RecordInv'  BY <1>1, <3>1, <3>2 DEF RecordInv
    <3>9. QED  BY <3>5, <3>6, <3>7, <3>8 DEF ForwardInv
  <2>3. QED  BY <1>2, <2>1, <2>2 DEF Forward!ReadFails
<1>3. CASE Forward!ReadFails("over cap", "badGateway")  BY <1>2, <1>3
<1>4. ASSUME Forward!ReadFails("read broken", Forward!classifyByContext("badGateway"))
      PROVE  ForwardInv'
  BY <1>2, <1>4, ContextClass
<1>5. CASE Forward!ReadWhole
  <2>1. "buffering" \in Underway /\ "body hooks" \in Underway /\ "body hooks" \notin UpToHeaders
        /\ "closing catalog" \notin UpToHeaders
    BY DEF Underway, UpToHeaders
  <2>2. \E to \in {"closing catalog", "body hooks"} : Forward!Goes("buffering", to) /\ Forward!Quietly
    BY <1>5 DEF Forward!ReadWhole
  <2>3. QED  BY <2>1, <2>2, QuietKeeps
<1>6. QED  BY <1>3, <1>4, <1>5 DEF Forward!ReadBounded

(* The hooks and the commitment of the response.                           *)
LEMMA WayOutKeeps ==
    ForwardInv /\ (Forward!RunPrelude \/ Forward!Commit \/ Forward!RunBuffered) => ForwardInv'
<1> SUFFICES ASSUME ForwardInv, Forward!RunPrelude \/ Forward!Commit \/ Forward!RunBuffered PROVE ForwardInv'  OBVIOUS
<1>1. /\ \A s \in {"prelude hooks", "committing", "buffering", "body hooks"} :
             s \in Underway /\ s \in Unanswered /\ s \notin UpToHeaders /\ s \notin CatalogEnds
      /\ "panicking" \notin UpToHeaders
  BY DEF Unanswered, Underway, UpToHeaders, CatalogEnds
<1>2. CASE Forward!Commit  BY <1>1, <1>2, AnswerKeeps DEF Forward!Commit
<1>3. ASSUME NEW from \in {"prelude hooks", "body hooks"}, NEW kind \in {"invalidRequest", "shimError", "badGateway", "upstream"},
             Forward!Answer(from, kind, "cancelling")
      PROVE  ForwardInv'
  BY <1>1, <1>3, AnswerKeeps
<1>4. ASSUME NEW from \in {"prelude hooks", "body hooks"}, Forward!Goes(from, "panicking"), Forward!Quietly
      PROVE  ForwardInv'
  BY <1>1, <1>4, QuietKeeps
<1>5. CASE Forward!RunBuffered  BY <1>3, <1>4, <1>5 DEF Forward!RunBuffered, Forward!HookFails
<1>6. CASE Forward!RunPrelude
  <2>1. ASSUME NEW to \in {"buffering", "committing"}, Forward!Goes("prelude hooks", to), Forward!Quietly
        PROVE  ForwardInv'
    <3>1. endpoint # "passthrough"  BY <2>1 DEF ForwardInv, ContextInv, Forward!Goes
    <3>2. QED  BY <1>1, <2>1, <3>1, QuietKeeps
  <2>2. QED  BY <1>3, <1>4, <1>6, <2>1 DEF Forward!RunPrelude, Forward!HookFails
<1>7. QED  BY <1>2, <1>5, <1>6

(* The copy or the pump ends.                                              *)
LEMMA CopyKeeps == ForwardInv /\ Forward!CopyEnds => ForwardInv'
<1> SUFFICES ASSUME ForwardInv, Forward!CopyEnds PROVE ForwardInv'  OBVIOUS
<1>1. ForwardTypeOK /\ ContextInv /\ WireInv /\ FateInv /\ RecordInv  BY DEF ForwardInv
<1>2. /\ serving = "copying" /\ serving' = "cancelling"
      /\ UNCHANGED <<endpoint, gone, over, timer, response, fate, failure, answers, records>>
  BY DEF Forward!CopyEnds, Forward!Goes, Forward!callVars
<1>3. /\ "copying" \in Uncancelled /\ "cancelling" \in Ends
      /\ "copying" \notin CatalogEnds \cup Ends /\ "cancelling" \notin CatalogEnds \cup Unanswered \cup UpToHeaders
  BY DEF Uncancelled, Underway, UpToHeaders, Ends, CatalogEnds, PanicEnds, Unanswered
<1>4. answers = <<"upstream">>  BY <1>1, <1>2 DEF WireInv
<1>5. /\ summary' \in [context : {"binding", "correlated"}, stream : {"none", "clean", "stall", "client_cancel"}]
      /\ summary'.context = summary.context
      /\ summary'.stream # "none" => response.stream \/ summary.stream # "none"
  BY <1>1 DEF ForwardTypeOK, Forward!CopyEnds
<1>6. ForwardTypeOK' /\ ContextInv'  BY <1>1, <1>2, <1>3, <1>5 DEF ForwardTypeOK, ContextInv
<1>7. WireInv'  BY <1>2, <1>3, <1>4 DEF WireInv
<1>8. FateInv'  BY <1>1, <1>2, <1>3, <1>4, OneAnswer DEF FateInv
<1>9. RecordInv'
  <2>1. summary.stream = "none" /\ records = <<>> /\ (response.correlated => summary.context = "correlated")
    BY <1>1, <1>2, <1>3 DEF RecordInv
  <2>2. QED  BY <1>2, <1>3, <1>4, <1>5, <2>1 DEF RecordInv
<1>10. QED  BY <1>6, <1>7, <1>8, <1>9 DEF ForwardInv

(* The deferred way out of a call, and of a panic.                         *)
LEMMA DeferredKeeps == ForwardInv /\ (Forward!CancelCall \/ Forward!CloseBody) => ForwardInv'
<1> SUFFICES ASSUME ForwardInv, Forward!CancelCall \/ Forward!CloseBody PROVE ForwardInv'  OBVIOUS
<1>1. ForwardTypeOK /\ ContextInv /\ WireInv /\ FateInv /\ RecordInv  BY DEF ForwardInv
<1>2. /\ UNCHANGED <<endpoint, gone, response, fate, failure, answers, summary, records>>
      /\ over' \in {over, "canceled"} /\ timer' = IF timer = "armed" THEN timer' ELSE timer
      /\ timer' \in {timer, "stopped"}
  BY DEF Forward!CancelCall, Forward!CloseBody
<1>3. \/ serving = "cancelling" /\ serving' = "closing"
      \/ serving = "closing" /\ serving' = "returned"
      \/ serving = "panicking" /\ serving' = "unwinding"
      \/ serving = "unwinding" /\ serving' = "panicked"
      \/ serving = "closing catalog" /\ serving' = "closed catalog"
      \/ serving = "closed catalog" /\ serving' = "rendering"
  BY DEF Forward!CancelCall, Forward!CloseBody, Forward!Deferred, Forward!After
<1>4. /\ serving' \notin Uncancelled /\ serving' \notin UpToHeaders /\ serving \notin {"copying", "returned", "recorded"}
      /\ serving' \notin {"copying", "recorded", "buffering", "prelude hooks"}
      /\ (serving' \in CatalogEnds <=> serving \in CatalogEnds)
      /\ (serving' \in Ends <=> serving \in Ends)
      /\ (serving' \in Unanswered <=> serving \in Unanswered)
      /\ serving' \in Unanswered \cup Ends
  BY <1>3 DEF Uncancelled, Underway, UpToHeaders, Ends, CatalogEnds, PanicEnds, Unanswered
<1>5. ForwardTypeOK' /\ ContextInv'  BY <1>1, <1>2, <1>4 DEF ForwardTypeOK, ContextInv
<1>6. WireInv'  BY <1>1, <1>2, <1>4 DEF WireInv
<1>7. FateInv'  BY <1>1, <1>2, <1>4 DEF FateInv
<1>8. RecordInv'  BY <1>1, <1>2, <1>4 DEF RecordInv
<1>9. QED  BY <1>5, <1>6, <1>7, <1>8 DEF ForwardInv

(* The catalog's answer, a panic's, and the access record.                 *)
LEMMA LastKeeps ==
    ForwardInv /\ (Forward!RespondToFailure \/ Forward!RenderCatalog \/ Forward!Recover \/ Forward!AccessLog)
        => ForwardInv'
<1> SUFFICES ASSUME ForwardInv,
                    Forward!RespondToFailure \/ Forward!RenderCatalog \/ Forward!Recover \/ Forward!AccessLog
             PROVE  ForwardInv'
  OBVIOUS
<1>1. ForwardTypeOK /\ ContextInv /\ WireInv /\ FateInv /\ RecordInv  BY DEF ForwardInv
<1>2. /\ "rendering" \in Unanswered /\ "panicked" \in Unanswered /\ "panicked" \notin CatalogEnds
      /\ "rendering" \in CatalogEnds /\ "rendering" \notin Ends
      /\ \A s \in {"returned", "recorded"} : s \in Ends /\ s \notin CatalogEnds /\ s \notin Unanswered
                                                 /\ s \notin Uncancelled /\ s \notin UpToHeaders
  BY DEF Uncancelled, Underway, UpToHeaders, Ends, CatalogEnds, PanicEnds, Unanswered
<1>3. CASE Forward!RespondToFailure
  <2>1. /\ serving = "rendering" /\ serving' = "returned"
        /\ UNCHANGED <<endpoint, gone, over, timer, response, fate, failure, summary, records>>
    BY <1>3 DEF Forward!RespondToFailure, Forward!Goes, Forward!callVars
  <2>2. answers = <<>>  BY <1>1, <1>2, <2>1 DEF WireInv
  <2>3. answers' = IF failure = "clientGone" THEN <<>> ELSE <<failure>>
    BY <1>3, <2>2, OneAnswer DEF Forward!RespondToFailure, Forward!Responding
  <2>4. /\ fate \notin {"no credential", "request broken"} /\ (fate = "over cap" => failure = "badGateway")
        /\ (failure = "clientGone" => gone) /\ (failure = "gatewayTimeout" => timer = "fired")
    BY <1>1, <1>2, <2>1 DEF FateInv
  <2>5. ForwardTypeOK' /\ ContextInv'  BY <1>1, <1>2, <2>1 DEF ForwardTypeOK, ContextInv
  <2>6. WireInv'  BY <1>2, <2>1, <2>3, <2>4 DEF WireInv
  <2>7. FateInv'  BY <1>2, <2>1, <2>3, <2>4, OneAnswer DEF FateInv
  <2>8. RecordInv'
    <3>1. summary.stream = "none" /\ records = <<>> /\ (response.correlated => summary.context = "correlated")
      BY <1>1, <1>2, <2>1 DEF RecordInv
    <3>2. QED  BY <2>1, <3>1 DEF RecordInv
  <2>9. QED  BY <2>5, <2>6, <2>7, <2>8 DEF ForwardInv
<1>4. CASE Forward!RenderCatalog
  <2>1. failure = "none" /\ \E kind \in {"badGateway", "catalog"} : Forward!Answer("rendering", kind, "returned")
    BY <1>4 DEF Forward!RenderCatalog
  <2>2. QED  BY <1>2, <2>1, AnswerKeeps
<1>5. CASE Forward!Recover  BY <1>2, <1>5, AnswerKeeps DEF Forward!Recover
<1>6. CASE Forward!AccessLog
  <2>1. /\ serving = "returned" /\ serving' = "recorded"
        /\ UNCHANGED <<endpoint, gone, over, timer, response, fate, failure, answers, summary>>
    BY <1>6 DEF Forward!AccessLog, Forward!Goes, Forward!callVars
  <2>2. records = <<>>  BY <1>1, <2>1 DEF RecordInv
  <2>3. records' = <<Forward!RecordOf(IF answers = <<>> THEN 200 ELSE Forward!StatusOf(Head(answers)))>>
    BY <1>6, <2>2, OneAnswer DEF Forward!AccessLog
  <2>4. ForwardTypeOK' /\ ContextInv'  BY <1>1, <1>2, <2>1 DEF ForwardTypeOK, ContextInv
  <2>5. WireInv'  BY <1>1, <1>2, <2>1 DEF WireInv
  <2>6. FateInv'  BY <1>1, <1>2, <2>1 DEF FateInv
  <2>7. RecordInv'
    <3>1. Forward!RecordOf(IF answers = <<>> THEN 200 ELSE Forward!StatusOf(Head(answers)))'
            = Forward!RecordOf(IF answers = <<>> THEN 200 ELSE Forward!StatusOf(Head(answers)))
      BY <2>1 DEF Forward!RecordOf, Forward!StatusOf
    <3>2. QED  BY <1>1, <1>2, <2>1, <2>3, <3>1 DEF RecordInv
  <2>8. QED  BY <2>4, <2>5, <2>6, <2>7 DEF ForwardInv
<1>7. QED  BY <1>3, <1>4, <1>5, <1>6

LEMMA ForwardStep == ForwardInv /\ [Forward!Next]_(Forward!vars) => ForwardInv'
<1> SUFFICES ASSUME ForwardInv, [Forward!Next]_(Forward!vars) PROVE ForwardInv'  OBVIOUS
<1>1. CASE UNCHANGED Forward!vars
  <2>1. UNCHANGED <<endpoint, serving, gone, over, timer, response, fate, failure, answers, summary, records>>
    BY <1>1 DEF Forward!vars
  <2>2. ForwardTypeOK'  BY <2>1 DEF ForwardInv, ForwardTypeOK
  <2>3. ContextInv'  BY <2>1 DEF ForwardInv, ContextInv
  <2>4. WireInv'  BY <2>1 DEF ForwardInv, WireInv
  <2>5. FateInv'  BY <2>1 DEF ForwardInv, FateInv
  <2>6. RecordInv'  BY <2>1 DEF ForwardInv, RecordInv, Forward!RecordOf, Forward!StatusOf
  <2>7. QED  BY <2>2, <2>3, <2>4, <2>5, <2>6 DEF ForwardInv
<1>2. CASE Forward!HandlerStep
  BY <1>2, WayInKeeps, CallKeeps, ReadKeeps, WayOutKeeps, DeferredKeeps, LastKeeps DEF Forward!HandlerStep
<1>3. QED  BY <1>1, <1>2, CopyKeeps, OutsideKeeps DEF Forward!Next

(* A client that is still there gets one answer, never two, unless its own *)
(* body broke, and it is the one the access record tells of; a timeout is  *)
(* named only where one has passed, and a body over its cap as such,       *)
(* whatever races it.                                                      *)
THEOREM AnswersAreTrue == Forward!Spec => []AnswerIsTrue
<1>1. ForwardInv => AnswerIsTrue
  <2> SUFFICES ASSUME ForwardInv PROVE Forward!OneTrueAnswer /\ Forward!FailureIsHonest
    BY DEF AnswerIsTrue, Forward!AnswerIsTrue
  <2>1. ForwardTypeOK /\ ContextInv /\ WireInv /\ FateInv /\ RecordInv  BY DEF ForwardInv
  <2>2. \A s \in {"returned", "recorded"} : s \in Ends  BY DEF Ends
  <2>3. answers = <<>> \/ \E kind : answers = <<kind>>
    BY <2>1 DEF ForwardTypeOK, WireInv
  <2>4. Len(answers) <= 1
    <3>1. Len(<<>>) <= 1 /\ \A kind : Len(<<kind>>) <= 1  BY OneAnswer
    <3>2. QED  BY <2>3, <3>1
  <2>5. records = <<>> \/ \E r : records = <<r>>  BY <2>1 DEF RecordInv
  <2>6. Len(records) <= 1
    <3>1. Len(<<>>) <= 1 /\ \A r : Len(<<r>>) <= 1  BY OneAnswer
    <3>2. QED  BY <2>5, <3>1
  <2>7. /\ serving \in {"returned", "recorded"} /\ answers = <<>> => gone \/ fate = "request broken"
        /\ fate = "request broken" => answers = <<>>
    BY <2>1, <2>2, OneAnswer DEF WireInv, FateInv
  <2>8. ASSUME serving = "recorded"
        PROVE  /\ answers # <<>> => records[1].status = Forward!StatusOf(answers[1])
               /\ response.correlated => records[1].context = "correlated"
               /\ records[1].stream # "none" => answers = <<"upstream">> /\ response.stream
    <3> DEFINE status == IF answers = <<>> THEN 200 ELSE Forward!StatusOf(Head(answers))
    <3>1. records = <<Forward!RecordOf(status)>>  BY <2>1, <2>8 DEF RecordInv
    <3>2. answers # <<>> => status = Forward!StatusOf(answers[1])  BY <2>3, OneAnswer
    <3> HIDE DEF status
    <3>3. records[1] = Forward!RecordOf(status)  BY <3>1, OneAnswer
    <3>4. /\ records[1].status = status /\ records[1].context = summary.context
          /\ records[1].stream = summary.stream
      BY <3>3 DEF Forward!RecordOf
    <3>5. QED  BY <2>1, <3>2, <3>4 DEF RecordInv
  <2>9. Forward!OneTrueAnswer  BY <2>4, <2>6, <2>7, <2>8 DEF Forward!OneTrueAnswer
  <2>10. Forward!FailureIsHonest  BY <2>1, <2>2 DEF FateInv, Forward!FailureIsHonest
  <2>11. QED  BY <2>9, <2>10
<1>2. QED  BY <1>1, ForwardInit, ForwardStep, PTL DEF Forward!Spec
-----------------------------------------------------------------------------
(***************************************************************************)
(* The shim chain (ShimChain), for any registry, any settings of it, any   *)
(* rules, payloads and headers, and any number of frames.                  *)
(***************************************************************************)
FrameSet == [origin : {"upstream", "shim", "client", "server"}, from : 1 .. Peer, index : Nat, passed : Seq(Nat)]
Halves == {"new", "request", "called", "prelude", "buffered", "stream", "event", "finalize", "session", "client",
           "server", "done", "failed"}

ChainTypeOK ==
    /\ exchange \in Exchanges /\ chain \subseteq Shims /\ hook \in Halves /\ at \in 0 .. Peer
    /\ "passed" \in DOMAIN envelope /\ envelope.passed \in Seq(Nat)
    /\ passage \in Seq(FrameSet) /\ held \in [Shims -> Seq(FrameSet)] /\ out \in Seq(FrameSet)
    /\ came \in Nat

(* Where each half of the onion starts from.                               *)
HalvesInv ==
    /\ hook = "new" => chain = {}
    /\ hook \in {"new", "request", "called", "prelude"} => came = 0 /\ out = <<>> /\ \A i \in Shims : held[i] = <<>>
    /\ hook \in {"stream", "event", "finalize"} => exchange.transport = "stream" /\ came <= MaxArrivals
    /\ hook = "buffered" => exchange.transport # "stream"
    /\ hook \in {"prelude", "buffered", "event", "finalize", "server"} => at <= Len(Registry)
    /\ hook = "client" => at >= 1

(* The shims that the envelope, and a frame in passage, have been through. *)
Beyond(shims) == {i \in shims : i > at}
EnvelopeInv ==
    /\ hook = "prelude" => Outward(envelope.passed, Beyond(Outside(Peer, "prelude")))
    /\ hook \in {"buffered", "stream", "event", "finalize", "done"} => Outward(envelope.passed, Outside(Peer, "prelude"))

Travelled(f) ==
    CASE f.origin = "client" -> Inward(f.passed, {i \in Outside(f.from, "client") : i < at})
      [] f.origin = "server" -> Outward(f.passed, Beyond(Outside(f.from, "server")))
      [] OTHER -> Outward(f.passed, Beyond(Outside(f.from, FrameKind)))

PassageInv ==
    /\ hook \in {"buffered", "event", "finalize", "client", "server"} => \A k \in DOMAIN passage : Travelled(passage[k])
    /\ hook \in {"buffered", "event", "client", "server"} =>
          \A k \in DOMAIN passage : /\ passage[k].from = Peer /\ passage[k].index = came
                                    /\ passage[k].origin = IF hook \in {"client", "server"} THEN hook ELSE "upstream"
    /\ hook = "finalize" =>
          \A k \in DOMAIN passage : /\ passage[k].origin \in {"upstream", "shim"} /\ passage[k].from > at
                                    /\ passage[k].index <= came \/ passage[k].index = MaxArrivals + 1
    /\ hook \notin {"buffered", "event", "finalize", "client", "server", "failed"} => passage = <<>>
    /\ InOrder(passage)

(* The innermost shim that holds has all that is held.                     *)
MayHold(i, fs) ==
    /\ \A k \in DOMAIN fs :
          /\ fs[k].origin = "upstream" /\ fs[k].from = Peer /\ fs[k].index <= came
          /\ Outward(fs[k].passed, {j \in Outside(Peer, "event") : j >= i})
    /\ InOrder(fs)
    /\ fs # <<>> => Holds(i) /\ \A j \in Shims : j > i => ~Holds(j)
HeldInv == \A i \in Shims : MayHold(i, held[i])

(* Nothing passes a shim that holds, before the end.                       *)
HoldersInv ==
    /\ hook = "event" /\ passage # <<>> => \A i \in Shims : i > at => ~Holds(i)
    /\ hook = "finalize" =>
          \A k \in DOMAIN passage : passage[k].index # MaxArrivals + 1 => \E j \in Shims : j > at /\ Holds(j)
    /\ hook \in {"stream", "event", "finalize"} /\ out # <<>> => \A i \in Shims : ~Holds(i)

OutInv ==
    /\ \A k \in DOMAIN out : Completes(out[k])
    /\ InOrder(out)
    /\ hook # "done" => \A k \in DOMAIN out : out[k].index <= came

OnionInv == ChainTypeOK /\ HalvesInv /\ EnvelopeInv /\ PassageInv /\ HeldInv /\ HoldersInv /\ OutInv

-----------------------------------------------------------------------------
(* Sequences of frames.                                                    *)
LEMMA JoinedFrom ==
    ASSUME NEW S, NEW s \in Seq(S), NEW t \in Seq(S)
    PROVE  /\ s \o t \in Seq(S) /\ (s \o t # <<>> => s # <<>> \/ t # <<>>)
           /\ \A k \in DOMAIN (s \o t) : \/ k \in DOMAIN s /\ (s \o t)[k] = s[k]
                                         \/ \E j \in DOMAIN t : k = Len(s) + j /\ (s \o t)[k] = t[j]
<1>1. s \o t \in Seq(S) /\ Len(s \o t) = Len(s) + Len(t) /\ DOMAIN (s \o t) = 1 .. Len(s) + Len(t)  OBVIOUS
<1>2. DOMAIN s = 1 .. Len(s) /\ DOMAIN t = 1 .. Len(t) /\ Len(s) \in Nat /\ Len(t) \in Nat  OBVIOUS
<1>3. ASSUME NEW k \in 1 .. Len(s) + Len(t)
      PROVE  \/ k \in DOMAIN s /\ (s \o t)[k] = s[k]
             \/ \E j \in DOMAIN t : k = Len(s) + j /\ (s \o t)[k] = t[j]
  <2>1. CASE k <= Len(s)  BY <1>2, <2>1
  <2>2. CASE k > Len(s)
    <3>1. k - Len(s) \in 1 .. Len(t) /\ k = Len(s) + (k - Len(s))  BY <1>2, <1>3, <2>2
    <3>2. (s \o t)[k] = t[k - Len(s)]  BY <1>1, <1>2, <2>2
    <3>3. QED  BY <1>2, <3>1, <3>2
  <2>3. QED  BY <1>2, <2>1, <2>2
<1>4. s \o t # <<>> => s # <<>> \/ t # <<>>  OBVIOUS
<1>5. QED  BY <1>1, <1>3, <1>4

LEMMA JoinedInOrder ==
    ASSUME NEW s \in Seq(FrameSet), NEW t \in Seq(FrameSet), InOrder(s), InOrder(t),
           \A a \in DOMAIN s, b \in DOMAIN t : s[a].index <= t[b].index
    PROVE  InOrder(s \o t)
<1>1. SUFFICES ASSUME NEW j \in DOMAIN (s \o t), NEW k \in DOMAIN (s \o t), j < k
               PROVE  (s \o t)[j].index <= (s \o t)[k].index
  BY DEF InOrder
<1>2. \/ j \in DOMAIN s /\ (s \o t)[j] = s[j]
      \/ \E b \in DOMAIN t : j = Len(s) + b /\ (s \o t)[j] = t[b]
  BY JoinedFrom
<1>3. \/ k \in DOMAIN s /\ (s \o t)[k] = s[k]
      \/ \E b \in DOMAIN t : k = Len(s) + b /\ (s \o t)[k] = t[b]
  BY JoinedFrom
<1>4. Len(s) \in Nat /\ DOMAIN s = 1 .. Len(s) /\ DOMAIN t \subseteq Nat /\ j \in Nat /\ k \in Nat  OBVIOUS
<1>5. CASE j \in DOMAIN s /\ (s \o t)[j] = s[j]
  <2>1. CASE k \in DOMAIN s /\ (s \o t)[k] = s[k]  BY <1>1, <1>5, <2>1 DEF InOrder
  <2>2. CASE \E b \in DOMAIN t : k = Len(s) + b /\ (s \o t)[k] = t[b]  BY <1>5, <2>2
  <2>3. QED  BY <1>3, <2>1, <2>2
<1>6. CASE \E b \in DOMAIN t : j = Len(s) + b /\ (s \o t)[j] = t[b]
  <2>1. PICK b \in DOMAIN t : j = Len(s) + b /\ (s \o t)[j] = t[b]  BY <1>6
  <2>2. k \notin DOMAIN s  BY <1>1, <1>4, <2>1
  <2>3. PICK c \in DOMAIN t : k = Len(s) + c /\ (s \o t)[k] = t[c]  BY <1>3, <2>2
  <2>4. b < c  BY <1>1, <1>4, <2>1, <2>3
  <2>5. QED  BY <2>1, <2>3, <2>4 DEF InOrder
<1>7. QED  BY <1>2, <1>5, <1>6

LEMMA FrameParts ==
    ASSUME NEW f \in FrameSet
    PROVE  f.index \in Nat /\ f.from \in 1 .. Peer /\ f.passed \in Seq(Nat)
BY DEF FrameSet

LEMMA FramesOf ==
    ASSUME NEW s \in Seq(FrameSet)
    PROVE  \A k \in DOMAIN s : s[k] \in FrameSet /\ s[k].index \in Nat /\ s[k].from \in 1 .. Peer
<1>1. \A k \in DOMAIN s : s[k] \in FrameSet  OBVIOUS
<1>2. QED  BY <1>1, FrameParts

(* One hook's work on the frames in passage.                               *)
LEMMA PassedFrame ==
    ASSUME NEW f \in FrameSet, at \in Nat
    PROVE  /\ Passed(f) \in FrameSet /\ Passed(f).passed = Append(f.passed, at)
           /\ Passed(f).origin = f.origin /\ Passed(f).from = f.from /\ Passed(f).index = f.index
<1>1. f.passed \in Seq(Nat) /\ Append(f.passed, at) \in Seq(Nat)  BY DEF FrameSet
<1>2. QED  BY <1>1 DEF FrameSet, Passed

LEMMA AllArePassed ==
    ASSUME NEW fs \in Seq(FrameSet), at \in Nat
    PROVE  /\ AllPassed(fs) \in Seq(FrameSet) /\ DOMAIN AllPassed(fs) = DOMAIN fs
           /\ AllPassed(fs) # <<>> => fs # <<>>
           /\ \A k \in DOMAIN fs : AllPassed(fs)[k] = Passed(fs[k])
           /\ InOrder(fs) => InOrder(AllPassed(fs))
<1>1. DOMAIN fs = 1 .. Len(fs) /\ Len(fs) \in Nat /\ \A k \in 1 .. Len(fs) : fs[k] \in FrameSet  OBVIOUS
<1>2. \A k \in 1 .. Len(fs) : Passed(fs[k]) \in FrameSet /\ Passed(fs[k]).index = fs[k].index
  BY <1>1, PassedFrame
<1>3. /\ AllPassed(fs) \in Seq(FrameSet) /\ DOMAIN AllPassed(fs) = 1 .. Len(fs)
      /\ \A k \in 1 .. Len(fs) : AllPassed(fs)[k] = Passed(fs[k])
  BY <1>1, <1>2 DEF AllPassed
<1>4. AllPassed(fs) # <<>> => fs # <<>>
  <2>1. SUFFICES ASSUME fs = <<>> PROVE AllPassed(fs) = <<>>  OBVIOUS
  <2>2. DOMAIN AllPassed(fs) = {}  BY <1>3, <2>1
  <2>3. QED  BY <1>3, <2>2
<1>5. InOrder(fs) => InOrder(AllPassed(fs))
  <2>1. \A k \in 1 .. Len(fs) : AllPassed(fs)[k].index = fs[k].index  BY <1>2, <1>3
  <2>2. QED  BY <1>1, <1>3, <2>1 DEF InOrder
<1>6. QED  BY <1>1, <1>3, <1>4, <1>5

LEMMA TransformedFrames ==
    ASSUME NEW fs \in Seq(FrameSet), at \in Nat
    PROVE  /\ Transformed(fs) \in Seq(FrameSet) /\ (Transformed(fs) # <<>> => fs # <<>>)
           /\ Holds(at) => Transformed(fs) = <<>>
           /\ \A k \in DOMAIN Transformed(fs) :
                 \E j \in DOMAIN fs : Transformed(fs)[k] = IF Hooked(at, "event") THEN Passed(fs[j]) ELSE fs[j]
           /\ InOrder(fs) => InOrder(Transformed(fs))
<1>1. DOMAIN fs = 1 .. Len(fs) /\ Len(fs) \in Nat /\ \A k \in 1 .. Len(fs) : fs[k] \in FrameSet  OBVIOUS
<1>2. CASE ~Hooked(at, "event")
  <2>1. Transformed(fs) = fs  BY <1>2 DEF Transformed
  <2>2. QED  BY <1>2, <2>1 DEF Holds
<1>3. CASE Hooked(at, "event") /\ Does(at) \in {"drops", "holds"}
  <2>1. Transformed(fs) = <<>>  BY <1>3 DEF Transformed
  <2>2. DOMAIN <<>> = {} /\ <<>> \in Seq(FrameSet)  OBVIOUS
  <2>3. QED  BY <2>1, <2>2 DEF InOrder
<1>4. CASE Hooked(at, "event") /\ Does(at) = "splits"
  <2>1. Transformed(fs) = [k \in 1 .. 2 * Len(fs) |-> Passed(fs[(k + 1) \div 2])]
    BY <1>4 DEF Transformed
  <2>2. \A k \in 1 .. 2 * Len(fs) : (k + 1) \div 2 \in 1 .. Len(fs)  BY <1>1
  <2>3. \A j, k \in 1 .. 2 * Len(fs) : j < k => (j + 1) \div 2 <= (k + 1) \div 2  BY <1>1
  <2>4. \A k \in 1 .. 2 * Len(fs) :
            /\ Passed(fs[(k + 1) \div 2]) \in FrameSet
            /\ Passed(fs[(k + 1) \div 2]).index = fs[(k + 1) \div 2].index
    BY <1>1, <2>2, PassedFrame
  <2>5. 2 * Len(fs) \in Nat  BY <1>1
  <2>6. /\ Transformed(fs) \in Seq(FrameSet) /\ DOMAIN Transformed(fs) = 1 .. 2 * Len(fs)
        /\ \A k \in 1 .. 2 * Len(fs) : Transformed(fs)[k] = Passed(fs[(k + 1) \div 2])
    BY <2>1, <2>4, <2>5
  <2>7. ~Holds(at)  BY <1>4 DEF Holds
  <2>8. Transformed(fs) # <<>> => fs # <<>>
    <3>1. SUFFICES ASSUME fs = <<>> PROVE Transformed(fs) = <<>>  OBVIOUS
    <3>2. DOMAIN Transformed(fs) = {}  BY <2>6, <3>1
    <3>3. QED  BY <2>6, <3>2
  <2>9. InOrder(fs) => InOrder(Transformed(fs))
    <3>1. SUFFICES ASSUME InOrder(fs), NEW j \in 1 .. 2 * Len(fs), NEW k \in 1 .. 2 * Len(fs), j < k
                   PROVE  Transformed(fs)[j].index <= Transformed(fs)[k].index
      BY <2>6 DEF InOrder
    <3>2. PICK a \in 1 .. Len(fs), b \in 1 .. Len(fs) :
              /\ a <= b /\ Transformed(fs)[j].index = fs[a].index /\ Transformed(fs)[k].index = fs[b].index
      BY <2>2, <2>3, <2>4, <2>6, <3>1
    <3>3. fs[a].index <= fs[b].index
      <4>1. fs[a].index \in Nat  BY <1>1 DEF FrameSet
      <4>2. CASE a = b  BY <4>1, <4>2
      <4>3. CASE a < b  BY <1>1, <3>1, <4>3 DEF InOrder
      <4>4. QED  BY <3>2, <4>2, <4>3
    <3>4. QED  BY <3>2, <3>3
  <2>10. QED  BY <1>1, <1>4, <2>2, <2>6, <2>7, <2>8, <2>9
<1>5. CASE Hooked(at, "event") /\ Does(at) \notin {"drops", "holds", "splits"}
  <2>1. Transformed(fs) = AllPassed(fs)  BY <1>5 DEF Transformed
  <2>2. ~Holds(at)  BY <1>5 DEF Holds
  <2>3. QED  BY <1>5, <2>1, <2>2, AllArePassed
<1>6. QED  BY <1>2, <1>3, <1>4, <1>5

(* One more shim that a frame has been through.                            *)
LEMMA OneMore ==
    ASSUME NEW S \in SUBSET Nat, NEW n \in Nat
    PROVE  /\ n \in S => /\ {i \in S : i > n - 1} = {i \in S : i > n} \cup {n}
                         /\ {i \in S : i < n + 1} = {i \in S : i < n} \cup {n}
           /\ n \notin S => /\ {i \in S : i > n - 1} = {i \in S : i > n}
                            /\ {i \in S : i < n + 1} = {i \in S : i < n}
           /\ {i \in S : i >= n} = {i \in S : i > n - 1}
<1>1. ASSUME NEW i \in S
      PROVE  (i > n - 1 <=> i > n \/ i = n) /\ (i < n + 1 <=> i < n \/ i = n) /\ (i >= n <=> i > n - 1)
  <2>1. i \in Nat  OBVIOUS
  <2>2. QED  BY <2>1
<1>2. QED  BY <1>1

LEMMA OutwardNext ==
    ASSUME NEW p \in Seq(Nat), NEW S \in SUBSET Nat, NEW n \in S, Outward(p, {i \in S : i > n})
    PROVE  Outward(Append(p, n), {i \in S : i > n - 1})
<1> DEFINE q == Append(p, n)
<1>1. /\ Len(p) \in Nat /\ DOMAIN p = 1 .. Len(p) /\ DOMAIN q = 1 .. Len(p) + 1
      /\ q[Len(p) + 1] = n /\ \A k \in 1 .. Len(p) : q[k] = p[k]
  OBVIOUS
<1> HIDE DEF q
<1>2. {p[k] : k \in DOMAIN p} = {i \in S : i > n} /\ \A j, k \in DOMAIN p : j < k => p[k] < p[j]
  BY DEF Outward, Through
<1>3. {q[k] : k \in DOMAIN q} = {i \in S : i > n - 1}
  <2>1. {i \in S : i > n - 1} = {i \in S : i > n} \cup {n}  BY OneMore
  <2>2. {q[k] : k \in DOMAIN q} = {p[k] : k \in DOMAIN p} \cup {n}  BY <1>1
  <2>3. QED  BY <1>2, <2>1, <2>2
<1>4. ASSUME NEW j \in DOMAIN q, NEW k \in DOMAIN q, j < k PROVE q[k] < q[j]
  <2>1. j \in 1 .. Len(p) /\ q[j] = p[j]  BY <1>1, <1>4
  <2>2. CASE k \in 1 .. Len(p)  BY <1>1, <1>2, <1>4, <2>1, <2>2
  <2>3. CASE k = Len(p) + 1
    <3>1. p[j] \in {i \in S : i > n}  BY <1>1, <1>2, <2>1
    <3>2. QED  BY <1>1, <2>1, <2>3, <3>1
  <2>4. QED  BY <1>1, <2>2, <2>3
<1>5. QED  BY <1>3, <1>4 DEF Outward, Through, q

LEMMA InwardNext ==
    ASSUME NEW p \in Seq(Nat), NEW S \in SUBSET Nat, NEW n \in S, Inward(p, {i \in S : i < n})
    PROVE  Inward(Append(p, n), {i \in S : i < n + 1})
<1> DEFINE q == Append(p, n)
<1>1. /\ Len(p) \in Nat /\ DOMAIN p = 1 .. Len(p) /\ DOMAIN q = 1 .. Len(p) + 1
      /\ q[Len(p) + 1] = n /\ \A k \in 1 .. Len(p) : q[k] = p[k]
  OBVIOUS
<1> HIDE DEF q
<1>2. {p[k] : k \in DOMAIN p} = {i \in S : i < n} /\ \A j, k \in DOMAIN p : j < k => p[j] < p[k]
  BY DEF Inward, Through
<1>3. {q[k] : k \in DOMAIN q} = {i \in S : i < n + 1}
  <2>1. {i \in S : i < n + 1} = {i \in S : i < n} \cup {n}  BY OneMore
  <2>2. {q[k] : k \in DOMAIN q} = {p[k] : k \in DOMAIN p} \cup {n}  BY <1>1
  <2>3. QED  BY <1>2, <2>1, <2>2
<1>4. ASSUME NEW j \in DOMAIN q, NEW k \in DOMAIN q, j < k PROVE q[j] < q[k]
  <2>1. j \in 1 .. Len(p) /\ q[j] = p[j]  BY <1>1, <1>4
  <2>2. CASE k \in 1 .. Len(p)  BY <1>1, <1>2, <1>4, <2>1, <2>2
  <2>3. CASE k = Len(p) + 1
    <3>1. p[j] \in {i \in S : i < n}  BY <1>1, <1>2, <2>1
    <3>2. QED  BY <1>1, <2>1, <2>3, <3>1
  <2>4. QED  BY <1>1, <2>2, <2>3
<1>5. QED  BY <1>3, <1>4 DEF Inward, Through, q

-----------------------------------------------------------------------------
(* Positions, and what a frame has been through at each.                   *)
LEMMA Positions ==
    /\ Len(Registry) \in Nat /\ Shims = 1 .. Len(Registry) /\ Peer = Len(Registry) + 1 /\ MaxArrivals \in Nat
    /\ Shims \subseteq Nat /\ Peer \in Nat /\ \A i \in Shims : 1 <= i /\ i < Peer
BY ShimChainAssumption DEF Peer

LEMMA NothingPassed ==
    ASSUME NEW S, S = {}
    PROVE  Outward(<<>>, S) /\ Inward(<<>>, S)
<1>1. DOMAIN <<>> = {}  OBVIOUS
<1>2. QED  BY <1>1 DEF Outward, Inward, Through

LEMMA OneInOrder ==
    ASSUME NEW f \in FrameSet
    PROVE  <<f>> \in Seq(FrameSet) /\ DOMAIN <<f>> = {1} /\ InOrder(<<f>>)
BY DEF InOrder

LEMMA NoneInOrder == <<>> \in Seq(FrameSet) /\ DOMAIN <<>> = {} /\ InOrder(<<>>)
BY DEF InOrder

LEMMA ArrivalFrame ==
    ASSUME NEW origin \in {"upstream", "client", "server"}, NEW n \in Nat
    PROVE  /\ Arrival(origin, n) \in FrameSet /\ Arrival(origin, n).origin = origin
           /\ Arrival(origin, n).from = Peer /\ Arrival(origin, n).index = n /\ Arrival(origin, n).passed = <<>>
<1>1. Peer \in 1 .. Peer /\ <<>> \in Seq(Nat)  BY Positions
<1>2. QED  BY <1>1 DEF Arrival, FrameSet

(* The kind of a frame's hooks.                                            *)
KindOf(f) == IF f.origin \in {"client", "server"} THEN f.origin ELSE FrameKind

LEMMA TravelledOutward ==
    ASSUME NEW f, f.origin # "client"
    PROVE  Travelled(f) <=> Outward(f.passed, {i \in Outside(f.from, KindOf(f)) : i > at})
BY DEF Travelled, KindOf, Beyond

LEMMA TravelledOutwardAfter ==
    ASSUME NEW f, f.origin # "client", UNCHANGED <<exchange, chain>>, NEW n, at' = n
    PROVE  Travelled(f)' <=> Outward(f.passed, {i \in Outside(f.from, KindOf(f)) : i > n})
BY DEF Travelled, KindOf, Beyond, Outside, FrameKind

LEMMA FrameTravels ==
    ASSUME chain \subseteq Shims, UNCHANGED <<exchange, chain>>, at \in Shims, at' = at - 1,
           NEW f \in FrameSet, f.origin # "client", f.from > at, Travelled(f),
           NEW g, g = IF Hooked(at, KindOf(f)) THEN Passed(f) ELSE f
    PROVE  Travelled(g)'
<1> DEFINE S == Outside(f.from, KindOf(f))
<1>1. at \in Nat /\ S \subseteq Nat /\ (at \in S <=> Hooked(at, KindOf(f)))
  <2>1. at \in Nat /\ chain \subseteq Nat /\ f.from \in 1 .. Peer  BY Positions, FrameParts
  <2>2. at < f.from  BY <2>1
  <2>3. QED  BY <2>1, <2>2 DEF Outside, Hooked
<1>2. Outward(f.passed, {i \in S : i > at}) /\ f.passed \in Seq(Nat)
  BY TravelledOutward DEF FrameSet
<1>3. g.origin = f.origin /\ g.from = f.from /\ KindOf(g) = KindOf(f) /\ g \in FrameSet
  BY <1>1, PassedFrame DEF KindOf
<1>4. Outward(g.passed, {i \in S : i > at - 1})
  <2> HIDE DEF S
  <2>1. CASE Hooked(at, KindOf(f))
    <3>1. g.passed = Append(f.passed, at)  BY <1>1, <2>1, PassedFrame
    <3>2. QED  BY <1>1, <1>2, <2>1, <3>1, OutwardNext
  <2>2. CASE ~Hooked(at, KindOf(f))
    <3>1. {i \in S : i > at - 1} = {i \in S : i > at}  BY <1>1, <2>2, OneMore
    <3>2. QED  BY <1>2, <2>2, <3>1
  <2>3. QED  BY <2>1, <2>2
<1>5. QED  BY <1>1, <1>3, <1>4, TravelledOutwardAfter

LEMMA MessageTravels ==
    ASSUME chain \subseteq Shims, UNCHANGED <<exchange, chain>>, at \in Shims, at' = at + 1,
           NEW f \in FrameSet, f.origin = "client", f.from > at, Travelled(f),
           NEW g, g = IF Hooked(at, "client") THEN Passed(f) ELSE f
    PROVE  Travelled(g)'
<1> DEFINE S == Outside(f.from, "client")
<1>1. at \in Nat /\ S \subseteq Nat /\ (at \in S <=> Hooked(at, "client"))
  <2>1. at \in Nat /\ chain \subseteq Nat /\ f.from \in 1 .. Peer  BY Positions, FrameParts
  <2>2. at < f.from  BY <2>1
  <2>3. QED  BY <2>1, <2>2 DEF Outside, Hooked
<1>2. Inward(f.passed, {i \in S : i < at}) /\ f.passed \in Seq(Nat)
  BY DEF Travelled, FrameSet
<1>3. g.origin = "client" /\ g.from = f.from
  BY <1>1, PassedFrame
<1>4. Inward(g.passed, {i \in S : i < at + 1})
  <2> HIDE DEF S
  <2>1. CASE Hooked(at, "client")
    <3>1. g.passed = Append(f.passed, at)  BY <1>1, <2>1, PassedFrame
    <3>2. QED  BY <1>1, <1>2, <2>1, <3>1, InwardNext
  <2>2. CASE ~Hooked(at, "client")
    <3>1. {i \in S : i < at + 1} = {i \in S : i < at}  BY <1>1, <2>2, OneMore
    <3>2. QED  BY <1>2, <2>2, <3>1
  <2>3. QED  BY <2>1, <2>2
<1>5. QED  BY <1>3, <1>4 DEF Travelled, Outside

LEMMA FrameArrives ==
    ASSUME NEW f, f.passed = <<>>, f.from = Peer, chain' \subseteq Shims,
           IF f.origin = "client" THEN at' = 1 ELSE at' = Len(Registry)
    PROVE  Travelled(f)'
<1>1. \A k : {i \in Outside(Peer, k)' : i > Len(Registry)} = {} /\ {i \in Outside(Peer, k)' : i < 1} = {}
  <2>1. \A i \in chain' : ~(i > Len(Registry)) /\ ~(i < 1)  BY Positions
  <2>2. QED  BY <2>1 DEF Outside
<1>2. CASE f.origin = "client"
  <2>1. {i \in Outside(f.from, "client")' : i < at'} = {}  BY <1>1, <1>2
  <2>2. Inward(<<>>, {i \in Outside(f.from, "client")' : i < at'})  BY <2>1, NothingPassed
  <2>3. QED  BY <1>2, <2>2 DEF Travelled
<1>3. CASE f.origin # "client"
  <2>1. \A k : {i \in Outside(f.from, k)' : i > at'} = {}  BY <1>1, <1>3
  <2>2. \A k : Outward(<<>>, {i \in Outside(f.from, k)' : i > at'})  BY <2>1, NothingPassed
  <2>3. QED  BY <1>3, <2>2 DEF Travelled, Beyond
<1>4. QED  BY <1>2, <1>3

LEMMA JourneyEnds ==
    ASSUME chain \subseteq Shims, NEW f \in FrameSet, Travelled(f),
           IF f.origin = "client" THEN at = Peer ELSE at = 0
    PROVE  Completes(f)
<1>1. \A p, k : {i \in Outside(p, k) : i > 0} = Outside(p, k) /\ {i \in Outside(p, k) : i < Peer} = Outside(p, k)
  <2>1. \A i \in chain : i > 0 /\ i < Peer  BY Positions
  <2>2. QED  BY <2>1 DEF Outside
<1>2. QED  BY <1>1 DEF Travelled, Completes, Beyond

-----------------------------------------------------------------------------
(* What a step leaves alone.                                               *)
Held == \A i \in Shims : held[i] = <<>>
NothingYet == ChainTypeOK /\ HalvesInv /\ EnvelopeInv /\ passage = <<>> /\ out = <<>> /\ Held

LEMMA NothingYetIsInOrder == NothingYet => OnionInv
<1> SUFFICES ASSUME NothingYet PROVE OnionInv  OBVIOUS
<1>1. passage = <<>> /\ out = <<>> /\ \A i \in Shims : held[i] = <<>>  BY DEF NothingYet, Held
<1>2. DOMAIN <<>> = {} /\ InOrder(<<>>)  BY NoneInOrder
<1>3. PassageInv  BY <1>1, <1>2 DEF PassageInv
<1>4. HeldInv  BY <1>1, <1>2 DEF HeldInv, MayHold
<1>5. HoldersInv  BY <1>1, <1>2 DEF HoldersInv
<1>6. OutInv  BY <1>1, <1>2 DEF OutInv
<1>7. QED  BY <1>3, <1>4, <1>5, <1>6 DEF NothingYet, OnionInv

LEMMA NothingYetAfter == NothingYet' => OnionInv'
BY NothingYetIsInOrder, PTL

LEMMA HeldStays ==
    ASSUME HeldInv, UNCHANGED <<config, chain, held>>, came \in Nat, came' \in Nat, came <= came', ChainTypeOK
    PROVE  HeldInv'
<1>1. ASSUME NEW i \in Shims, NEW k \in DOMAIN held[i]
      PROVE  /\ held[i][k].origin = "upstream" /\ held[i][k].from = Peer /\ held[i][k].index <= came'
             /\ Outward(held[i][k].passed, {j \in Outside(Peer, "event")' : j >= i})
  <2>1. held[i] \in Seq(FrameSet)  BY DEF ChainTypeOK
  <2>2. held[i][k] \in FrameSet  BY <1>1, <2>1
  <2>3. held[i][k].index \in Nat  BY <2>2, FrameParts
  <2>4. Outside(Peer, "event")' = Outside(Peer, "event")  BY DEF Outside
  <2>5. /\ held[i][k].origin = "upstream" /\ held[i][k].from = Peer /\ held[i][k].index <= came
        /\ Outward(held[i][k].passed, {j \in Outside(Peer, "event") : j >= i})
    BY <1>1 DEF HeldInv, MayHold
  <2>6. QED  BY <2>3, <2>4, <2>5
<1>2. \A i \in Shims : InOrder(held[i]) /\ (held[i] # <<>> => Holds(i) /\ \A j \in Shims : j > i => ~Holds(j))
  BY DEF HeldInv, MayHold
<1>3. \A i : Holds(i)' = Holds(i)  BY DEF Holds, Hooked, Does
<1>4. QED  BY <1>1, <1>2, <1>3 DEF HeldInv, MayHold

LEMMA OutStays ==
    ASSUME OutInv, UNCHANGED <<exchange, chain, out>>, came \in Nat, came' \in Nat, came <= came', ChainTypeOK,
           hook # "done"
    PROVE  OutInv'
<1>1. ASSUME NEW k \in DOMAIN out, NEW f, f = out[k] PROVE Completes(f)' /\ f.index <= came'
  <2>1. f \in FrameSet  BY <1>1 DEF ChainTypeOK
  <2>2. Completes(f) /\ f.index <= came  BY <1>1 DEF OutInv
  <2>3. Completes(f)'  BY <2>2 DEF Completes, Outside, FrameKind
  <2>4. QED  BY <2>1, <2>2, <2>3, FrameParts
<1>2. InOrder(out)  BY DEF OutInv
<1>3. QED  BY <1>1, <1>2 DEF OutInv

-----------------------------------------------------------------------------
(* The steps before the answer's body.                                     *)
LEMMA InitInv == ChainInit => OnionInv
<1> SUFFICES ASSUME ChainInit PROVE OnionInv  OBVIOUS
<1>1. ChainTypeOK
  <2>1. <<>> \in Seq(FrameSet) /\ <<>> \in Seq(Nat)  OBVIOUS
  <2>2. held \in [Shims -> Seq(FrameSet)]  BY <2>1 DEF ChainInit
  <2>3. envelope.passed = <<>> /\ "passed" \in DOMAIN envelope  BY DEF ChainInit
  <2>4. 0 \in 0 .. Peer  BY Positions
  <2>5. QED  BY <2>1, <2>2, <2>3, <2>4 DEF ChainInit, ChainTypeOK, Halves
<1>2. HalvesInv  BY DEF ChainInit, HalvesInv
<1>3. EnvelopeInv  BY DEF ChainInit, EnvelopeInv
<1>4. passage = <<>> /\ out = <<>> /\ Held  BY DEF ChainInit, Held
<1>5. QED  BY <1>1, <1>2, <1>3, <1>4, NothingYetIsInOrder DEF NothingYet

LEMMA FailInv ==
    ASSUME OnionInv, Fail, hook # "done"
    PROVE  OnionInv'
<1> USE DEF OnionInv, Fail, answerVars, requestVars
<1>1. ChainTypeOK'  BY DEF ChainTypeOK, Halves
<1>2. HalvesInv'  BY DEF HalvesInv
<1>3. EnvelopeInv'  BY DEF EnvelopeInv
<1>4. PassageInv'  BY DEF PassageInv
<1>5. HeldInv'  BY HeldStays DEF ChainTypeOK
<1>6. HoldersInv'  BY DEF HoldersInv
<1>7. OutInv'  BY OutStays DEF ChainTypeOK
<1>8. QED  BY <1>1, <1>2, <1>3, <1>4, <1>5, <1>6, <1>7

(* Until the answer's body comes, nothing is in passage, held or out.      *)
LEMMA NothingIsYet ==
    ASSUME OnionInv, hook \in {"new", "request", "called", "prelude"}
    PROVE  NothingYet
<1>1. passage = <<>>  BY DEF OnionInv, PassageInv
<1>2. out = <<>> /\ Held  BY DEF OnionInv, HalvesInv, Held
<1>3. QED  BY <1>1, <1>2 DEF OnionInv, NothingYet

LEMMA NewChainInv == OnionInv /\ NewChain => OnionInv'
<1> SUFFICES ASSUME OnionInv, NewChain PROVE OnionInv'  OBVIOUS
<1>1. NothingYet /\ hook' \in {"session", "request"} /\ at' \in {0, 1} /\ chain' \subseteq Shims
  BY NothingIsYet DEF NewChain
<1>2. UNCHANGED <<exchange, envelope, passage, held, came, out>>  BY DEF NewChain, answerVars
<1>3. 0 \in 0 .. Peer /\ 1 \in 0 .. Peer  BY Positions
<1>4. ChainTypeOK'  BY <1>1, <1>2, <1>3 DEF OnionInv, ChainTypeOK, Halves
<1>5. HalvesInv'  BY <1>1, <1>2 DEF OnionInv, HalvesInv, NewChain
<1>6. EnvelopeInv'  BY <1>1 DEF EnvelopeInv
<1>7. QED  BY <1>1, <1>2, <1>4, <1>5, <1>6, NothingYetAfter DEF NothingYet, Held

LEMMA RunRequestInv == OnionInv /\ RunRequest => OnionInv'
<1> SUFFICES ASSUME OnionInv, RunRequest PROVE OnionInv'  OBVIOUS
<1>1. CASE Fail  BY <1>1, FailInv DEF RunRequest
<1>2. CASE at' = at + 1 /\ UNCHANGED <<hook, exchange, config, chain, sent, answerVars>>
  <2>1. NothingYet /\ hook = "request" /\ at + 1 \in 0 .. Peer
    BY NothingIsYet, Positions DEF RunRequest, OnionInv, ChainTypeOK
  <2>2. ChainTypeOK'  BY <1>2, <2>1 DEF OnionInv, ChainTypeOK, answerVars
  <2>3. HalvesInv'  BY <1>2, <2>1 DEF OnionInv, HalvesInv, answerVars
  <2>4. EnvelopeInv'  BY <1>2, <2>1 DEF EnvelopeInv
  <2>5. QED  BY <1>2, <2>1, <2>2, <2>3, <2>4, NothingYetAfter DEF NothingYet, Held, answerVars
<1>3. QED  BY <1>1, <1>2 DEF RunRequest

LEMMA CallUpstreamInv == OnionInv /\ CallUpstream => OnionInv'
<1> SUFFICES ASSUME OnionInv, CallUpstream PROVE OnionInv'  OBVIOUS
<1>1. NothingYet /\ hook = "request" /\ hook' = "called" /\ at' \in 0 .. Peer
  BY NothingIsYet, Positions DEF CallUpstream
<1>2. UNCHANGED <<exchange, chain, envelope, passage, held, came, out>>  BY DEF CallUpstream, answerVars
<1>3. ChainTypeOK'  BY <1>1, <1>2 DEF OnionInv, ChainTypeOK, Halves
<1>4. HalvesInv'  BY <1>1, <1>2 DEF OnionInv, HalvesInv
<1>5. EnvelopeInv'  BY <1>1 DEF EnvelopeInv
<1>6. QED  BY <1>1, <1>2, <1>3, <1>4, <1>5, NothingYetAfter DEF NothingYet, Held

LEMMA AnsweredInv == OnionInv /\ Answered => OnionInv'
<1> SUFFICES ASSUME OnionInv, Answered PROVE OnionInv'  OBVIOUS
<1>1. NothingYet /\ hook = "called" /\ hook' = "prelude" /\ at' = Len(Registry) /\ at' \in 0 .. Peer
  BY NothingIsYet, Positions DEF Answered
<1>2. UNCHANGED <<exchange, chain, passage, held, came, out>>  BY DEF Answered, requestVars
<1>3. envelope'.passed = <<>> /\ "passed" \in DOMAIN envelope' /\ envelope'.passed \in Seq(Nat)  BY DEF Answered
<1>4. ChainTypeOK'  BY <1>1, <1>2, <1>3 DEF OnionInv, ChainTypeOK, Halves
<1>5. HalvesInv'  BY <1>1, <1>2, Positions DEF OnionInv, HalvesInv
<1>6. EnvelopeInv'
  <2>1. {i \in Outside(Peer, "prelude")' : i > at'} = {}
    <3>1. \A i \in chain' : ~(i > at')  BY <1>1, <1>2, Positions DEF OnionInv, ChainTypeOK
    <3>2. QED  BY <3>1 DEF Outside
  <2>2. QED  BY <1>1, <1>3, <2>1, NothingPassed DEF EnvelopeInv, Beyond
<1>7. QED  BY <1>1, <1>2, <1>4, <1>5, <1>6, NothingYetAfter DEF NothingYet, Held

LEMMA RunPreludeInv == OnionInv /\ RunPrelude => OnionInv'
<1> SUFFICES ASSUME OnionInv, RunPrelude PROVE OnionInv'  OBVIOUS
<1>1. CASE Fail  BY <1>1, FailInv DEF RunPrelude
<1>2. CASE /\ at' = at - 1
           /\ envelope' = IF Takes(at) THEN [envelope EXCEPT !.passed = Append(@, at)] ELSE envelope
           /\ UNCHANGED <<hook, exchange, config, requestVars, passage, held, came, out>>
  <2>1. NothingYet /\ hook = "prelude" /\ hook' = "prelude" /\ UNCHANGED <<exchange, chain, passage, held, came, out>>
    BY <1>2, NothingIsYet DEF RunPrelude, requestVars
  <2>2. at \in Shims /\ at' = at - 1 /\ at' \in 0 .. Peer /\ at' <= Len(Registry)
    BY <1>2, <2>1, Positions DEF RunPrelude, OnionInv, ChainTypeOK, HalvesInv
  <2>3. envelope.passed \in Seq(Nat) /\ "passed" \in DOMAIN envelope  BY DEF OnionInv, ChainTypeOK
  <2>4. /\ "passed" \in DOMAIN envelope'
        /\ envelope'.passed = IF Hooked(at, "prelude") THEN Append(envelope.passed, at) ELSE envelope.passed
    BY <1>2, <2>1, <2>3 DEF Takes
  <2> DEFINE S == Outside(Peer, "prelude")
  <2>5. /\ S \subseteq Nat /\ (at \in S <=> Hooked(at, "prelude")) /\ at \in Nat /\ S' = S
        /\ Outward(envelope.passed, {i \in S : i > at})
    BY <2>1, <2>2, Positions DEF OnionInv, ChainTypeOK, EnvelopeInv, Beyond, Outside, Hooked
  <2>6. envelope'.passed \in Seq(Nat) /\ Outward(envelope'.passed, {i \in S : i > at - 1})
    <3> HIDE DEF S
    <3>1. CASE Hooked(at, "prelude")  BY <2>3, <2>4, <2>5, <3>1, OutwardNext
    <3>2. CASE ~Hooked(at, "prelude")
      <4>1. {i \in S : i > at - 1} = {i \in S : i > at}  BY <2>5, <3>2, OneMore
      <4>2. QED  BY <2>3, <2>4, <2>5, <3>2, <4>1
    <3>3. QED  BY <3>1, <3>2
  <2>7. ChainTypeOK'  BY <2>1, <2>2, <2>4, <2>6 DEF OnionInv, ChainTypeOK
  <2>8. HalvesInv'  BY <2>1, <2>2 DEF OnionInv, HalvesInv
  <2>9. EnvelopeInv'  BY <2>1, <2>2, <2>5, <2>6 DEF EnvelopeInv, Beyond
  <2>10. QED  BY <2>1, <2>7, <2>8, <2>9, NothingYetAfter DEF NothingYet, Held
<1>3. QED  BY <1>1, <1>2 DEF RunPrelude

-----------------------------------------------------------------------------
(* The answer's body, whole or in frames.                                  *)
LEMMA EnvelopeStays ==
    ASSUME OnionInv, UNCHANGED <<chain, envelope>>,
           hook \in {"buffered", "stream", "event", "finalize", "done"} \/ (hook = "prelude" /\ at = 0),
           hook' # "prelude"
    PROVE  EnvelopeInv'
<1>1. Outside(Peer, "prelude")' = Outside(Peer, "prelude")  BY DEF Outside
<1>2. Outward(envelope.passed, Outside(Peer, "prelude"))
  <2>1. CASE hook = "prelude" /\ at = 0
    <3>1. {i \in Outside(Peer, "prelude") : i > 0} = Outside(Peer, "prelude")
      <4>1. \A i \in chain : i > 0  BY Positions DEF OnionInv, ChainTypeOK
      <4>2. QED  BY <4>1 DEF Outside
    <3>2. QED  BY <2>1, <3>1 DEF OnionInv, EnvelopeInv, Beyond
  <2>2. CASE hook \in {"buffered", "stream", "event", "finalize", "done"}
    BY <2>2 DEF OnionInv, EnvelopeInv
  <2>3. QED  BY <2>1, <2>2
<1>3. QED  BY <1>1, <1>2 DEF EnvelopeInv

LEMMA CommitInv == OnionInv /\ Commit => OnionInv'
<1> SUFFICES ASSUME OnionInv, Commit PROVE OnionInv'  OBVIOUS
<1> DEFINE f == Arrival("upstream", 1)
<1>1. NothingYet /\ hook = "prelude" /\ at = 0 /\ came = 0
  BY NothingIsYet DEF Commit, OnionInv, HalvesInv
<1>2. UNCHANGED <<exchange, config, chain, envelope, held>>  BY DEF Commit, requestVars
<1>3. /\ f \in FrameSet /\ f.origin = "upstream" /\ f.from = Peer /\ f.index = 1 /\ f.passed = <<>>
      /\ <<f>> \in Seq(FrameSet) /\ DOMAIN <<f>> = {1} /\ InOrder(<<f>>)
  BY ArrivalFrame, OneInOrder
<1>4. passage = <<>> /\ out = <<>> /\ \A i \in Shims : held[i] = <<>>  BY <1>1 DEF NothingYet, Held
<1>5. <<>> \in Seq(FrameSet) /\ DOMAIN <<>> = {} /\ InOrder(<<>>)  BY NoneInOrder
<1> HIDE DEF f
<1>6. CASE exchange.transport = "stream"
  <2>1. hook' = "stream" /\ UNCHANGED <<at, passage, came, out>>  BY <1>6 DEF Commit
  <2>2. ChainTypeOK'  BY <1>2, <2>1 DEF OnionInv, ChainTypeOK, Halves
  <2>3. HalvesInv'  BY <1>1, <1>2, <1>4, <1>6, <2>1, Positions DEF HalvesInv
  <2>4. EnvelopeInv'  BY <1>1, <1>2, <2>1, EnvelopeStays
  <2>5. NothingYet'  BY <1>2, <1>4, <2>1, <2>2, <2>3, <2>4 DEF NothingYet, Held
  <2>6. QED  BY <2>5, NothingYetAfter
<1>7. CASE exchange.transport # "stream" /\ HasBufferedTransformer
  <2>1. hook' = "buffered" /\ at' = Len(Registry) /\ passage' = <<f>> /\ came' = 1 /\ UNCHANGED out
    BY <1>7 DEF Commit, f
  <2>2. ChainTypeOK'
    <3>1. Len(Registry) \in 0 .. Peer  BY Positions
    <3>2. QED  BY <1>2, <1>3, <2>1, <3>1 DEF OnionInv, ChainTypeOK, Halves
  <2>3. HalvesInv'  BY <1>2, <1>7, <2>1, Positions DEF HalvesInv
  <2>4. EnvelopeInv'  BY <1>1, <1>2, <2>1, EnvelopeStays
  <2>5. Travelled(f)'  BY <1>2, <1>3, <2>1, FrameArrives DEF OnionInv, ChainTypeOK
  <2>6. PassageInv'  BY <1>3, <2>1, <2>5 DEF PassageInv
  <2>7. HeldInv'  BY <1>2, <1>4, <1>5 DEF HeldInv, MayHold
  <2>8. HoldersInv'  BY <2>1 DEF HoldersInv
  <2>9. OutInv'  BY <1>4, <1>5, <2>1 DEF OutInv
  <2>10. QED  BY <2>2, <2>3, <2>4, <2>6, <2>7, <2>8, <2>9 DEF OnionInv
<1>8. CASE exchange.transport # "stream" /\ ~HasBufferedTransformer
  <2>1. hook' = "done" /\ UNCHANGED <<at, passage>> /\ came' = 1 /\ out' = <<f>>  BY <1>8 DEF Commit, f
  <2>2. ChainTypeOK'  BY <1>2, <1>3, <2>1 DEF OnionInv, ChainTypeOK, Halves
  <2>3. HalvesInv'  BY <2>1 DEF HalvesInv
  <2>4. EnvelopeInv'  BY <1>1, <1>2, <2>1, EnvelopeStays
  <2>5. PassageInv'  BY <1>4, <1>5, <2>1 DEF PassageInv
  <2>6. HeldInv'  BY <1>2, <1>4, <1>5 DEF HeldInv, MayHold
  <2>7. HoldersInv'  BY <2>1 DEF HoldersInv
  <2>8. Completes(f)'
    <3>1. Outside(Peer, "buffered")' = {}  BY <1>2, <1>8 DEF Outside, HasBufferedTransformer
    <3>2. FrameKind' = "buffered"  BY <1>2, <1>8 DEF FrameKind
    <3>3. QED  BY <1>3, <3>1, <3>2, NothingPassed DEF Completes
  <2>9. OutInv'  BY <1>3, <2>1, <2>8 DEF OutInv
  <2>10. QED  BY <2>2, <2>3, <2>4, <2>5, <2>6, <2>7, <2>9 DEF OnionInv
<1>9. QED  BY <1>6, <1>7, <1>8

LEMMA RunBufferedInv == OnionInv /\ RunBuffered => OnionInv'
<1> SUFFICES ASSUME OnionInv, RunBuffered PROVE OnionInv'  OBVIOUS
<1>1. CASE Fail  BY <1>1, FailInv DEF RunBuffered
<1>2. CASE /\ at' = at - 1
           /\ passage' = IF Takes(at) THEN AllPassed(passage) ELSE passage
           /\ UNCHANGED <<hook, exchange, config, requestVars, envelope, held, came, out>>
  <2>1. hook = "buffered" /\ hook' = "buffered" /\ UNCHANGED <<exchange, config, chain, envelope, held, came, out>>
    BY <1>2 DEF RunBuffered, requestVars
  <2>2. at \in Shims /\ at' = at - 1 /\ at' \in 0 .. Peer /\ at' <= Len(Registry) /\ at \in Nat
    BY <1>2, <2>1, Positions DEF RunBuffered, OnionInv, ChainTypeOK, HalvesInv
  <2>3. passage \in Seq(FrameSet) /\ chain \subseteq Shims /\ came \in Nat /\ InOrder(passage)
    BY DEF OnionInv, ChainTypeOK, PassageInv
  <2>4. \A k \in DOMAIN passage : /\ passage[k] \in FrameSet /\ passage[k].origin = "upstream"
                                  /\ passage[k].from = Peer /\ passage[k].index = came /\ Travelled(passage[k])
    BY <2>1, <2>3 DEF OnionInv, PassageInv
  <2>5. FrameKind = "buffered"  BY <2>1 DEF FrameKind, OnionInv, HalvesInv
  <2>6. /\ passage' \in Seq(FrameSet) /\ DOMAIN passage' = DOMAIN passage /\ InOrder(passage')
        /\ \A k \in DOMAIN passage : passage'[k] = IF Hooked(at, "buffered") THEN Passed(passage[k]) ELSE passage[k]
    BY <1>2, <2>1, <2>2, <2>3, AllArePassed DEF Takes
  <2>7. ASSUME NEW k \in DOMAIN passage', NEW g, g = passage'[k]
        PROVE  Travelled(g)' /\ g.from = Peer /\ g.index = came /\ g.origin = "upstream"
    <3>1. PICK f \in FrameSet : f = passage[k]  BY <2>4, <2>6, <2>7
    <3>2. f.origin = "upstream" /\ f.from = Peer /\ f.from > at /\ f.index = came /\ Travelled(f)
      BY <2>2, <2>4, <2>6, <2>7, <3>1, Positions
    <3>3. g = IF Hooked(at, KindOf(f)) THEN Passed(f) ELSE f
      BY <2>5, <2>6, <2>7, <3>1, <3>2 DEF KindOf
    <3>4. g.from = f.from /\ g.index = f.index /\ g.origin = f.origin  BY <2>2, <3>3, PassedFrame
    <3>5. Travelled(g)'  BY <2>1, <2>2, <2>3, <3>2, <3>3, FrameTravels
    <3>6. QED  BY <3>2, <3>4, <3>5
  <2>8. ChainTypeOK'  BY <2>1, <2>2, <2>6 DEF OnionInv, ChainTypeOK
  <2>9. HalvesInv'  BY <2>1, <2>2 DEF OnionInv, HalvesInv
  <2>10. EnvelopeInv'  BY <2>1, EnvelopeStays
  <2>11. PassageInv'  BY <2>1, <2>6, <2>7 DEF PassageInv
  <2>12. HeldInv'  BY <2>1, <2>3, HeldStays DEF OnionInv
  <2>13. HoldersInv'  BY <2>1 DEF HoldersInv
  <2>14. OutInv'  BY <2>1, <2>3, OutStays DEF OnionInv
  <2>15. QED  BY <2>8, <2>9, <2>10, <2>11, <2>12, <2>13, <2>14 DEF OnionInv
<1>3. QED  BY <1>1, <1>2 DEF RunBuffered

LEMMA FrameComesInv == OnionInv /\ FrameComes => OnionInv'
<1> SUFFICES ASSUME OnionInv, FrameComes PROVE OnionInv'  OBVIOUS
<1> DEFINE f == Arrival("upstream", came + 1)
<1>1. hook = "stream" /\ hook' = "event" /\ came' = came + 1 /\ at' = Len(Registry) /\ passage' = <<f>>
  BY DEF FrameComes
<1>2. UNCHANGED <<exchange, config, chain, envelope, held, out>>  BY DEF FrameComes, requestVars
<1>3. came \in Nat /\ came' \in Nat /\ came <= came' /\ came' <= MaxArrivals /\ at' \in 0 .. Peer
  BY <1>1, Positions DEF FrameComes, OnionInv, ChainTypeOK
<1>4. /\ f \in FrameSet /\ f.origin = "upstream" /\ f.from = Peer /\ f.index = came' /\ f.passed = <<>>
      /\ <<f>> \in Seq(FrameSet) /\ DOMAIN <<f>> = {1} /\ InOrder(<<f>>)
  BY <1>1, <1>3, ArrivalFrame, OneInOrder
<1> HIDE DEF f
<1>5. ChainTypeOK'  BY <1>1, <1>2, <1>3, <1>4 DEF OnionInv, ChainTypeOK, Halves
<1>6. HalvesInv'  BY <1>1, <1>2, <1>3, Positions DEF OnionInv, HalvesInv
<1>7. EnvelopeInv'  BY <1>1, <1>2, EnvelopeStays
<1>8. PassageInv'
  <2>1. ASSUME NEW g, g = f PROVE Travelled(g)'
    BY <1>1, <1>2, <1>4, <2>1, FrameArrives DEF OnionInv, ChainTypeOK
  <2>2. QED  BY <1>1, <1>4, <2>1 DEF PassageInv
<1>9. HeldInv'  BY <1>2, <1>3, HeldStays DEF OnionInv
<1>10. HoldersInv'
  <2>1. \A i \in Shims : ~(i > at')  BY <1>1, Positions
  <2>2. out # <<>> => \A i \in Shims : ~Holds(i)  BY <1>1 DEF OnionInv, HoldersInv
  <2>3. \A i : Holds(i)' = Holds(i)  BY <1>2 DEF Holds, Hooked, Does
  <2>4. QED  BY <1>1, <1>2, <2>1, <2>2, <2>3 DEF HoldersInv
<1>11. OutInv'  BY <1>1, <1>2, <1>3, OutStays DEF OnionInv
<1>12. QED  BY <1>5, <1>6, <1>7, <1>8, <1>9, <1>10, <1>11 DEF OnionInv

LEMMA JoinedNone == \A s \in Seq(FrameSet) : s \o <<>> = s /\ <<>> \o s = s
OBVIOUS

(* What a shim that holds takes up: all the frames in passage, past it.    *)
LEMMA HolderTakesUp ==
    ASSUME OnionInv, hook \in {"event", "finalize"}, at \in Shims, Holds(at)
    PROVE  /\ NewlyHeld(passage) = AllPassed(passage) /\ NewlyHeld(passage) \in Seq(FrameSet)
           /\ InOrder(NewlyHeld(passage)) /\ DOMAIN NewlyHeld(passage) = DOMAIN passage
           /\ \A k \in DOMAIN passage : /\ passage[k] \in FrameSet /\ NewlyHeld(passage)[k] = Passed(passage[k])
                                        /\ NewlyHeld(passage)[k].index = passage[k].index
<1>1. passage \in Seq(FrameSet) /\ InOrder(passage) /\ at \in Nat
  BY Positions DEF OnionInv, ChainTypeOK, PassageInv
<1>2. NewlyHeld(passage) = AllPassed(passage)  BY DEF NewlyHeld
<1>3. \A k \in DOMAIN passage : passage[k] \in FrameSet /\ Passed(passage[k]).index = passage[k].index
  BY <1>1, PassedFrame
<1>4. QED  BY <1>1, <1>2, <1>3, AllArePassed

LEMMA TransformEventInv == OnionInv /\ TransformEvent => OnionInv'
<1> SUFFICES ASSUME OnionInv, TransformEvent PROVE OnionInv'  OBVIOUS
<1>1. hook = "event" /\ hook' = "event" /\ UNCHANGED <<exchange, config, chain, envelope, came, out>>
  BY DEF TransformEvent, requestVars
<1>2. at \in Shims /\ at' = at - 1 /\ at' \in 0 .. Peer /\ at' <= Len(Registry) /\ at \in Nat
  BY <1>1, Positions DEF TransformEvent, OnionInv, ChainTypeOK, HalvesInv
<1>3. passage \in Seq(FrameSet) /\ chain \subseteq Shims /\ came \in Nat /\ InOrder(passage)
  BY DEF OnionInv, ChainTypeOK, PassageInv
<1>4. \A k \in DOMAIN passage : /\ passage[k] \in FrameSet /\ passage[k].origin = "upstream"
                                /\ passage[k].from = Peer /\ passage[k].index = came /\ Travelled(passage[k])
  BY <1>1, <1>3 DEF OnionInv, PassageInv
<1>5. FrameKind = "event"  BY <1>1 DEF FrameKind, OnionInv, HalvesInv
<1>6. /\ passage' = Transformed(passage) /\ passage' \in Seq(FrameSet) /\ InOrder(passage')
      /\ passage' # <<>> => passage # <<>> /\ ~Holds(at)
      /\ \A k \in DOMAIN passage' :
            \E j \in DOMAIN passage : passage'[k] = IF Hooked(at, "event") THEN Passed(passage[j]) ELSE passage[j]
  BY <1>2, <1>3, TransformedFrames DEF TransformEvent
<1>7. ASSUME NEW k \in DOMAIN passage', NEW g, g = passage'[k]
      PROVE  Travelled(g)' /\ g.from = Peer /\ g.index = came /\ g.origin = "upstream"
  <2>1. PICK j \in DOMAIN passage : g = IF Hooked(at, "event") THEN Passed(passage[j]) ELSE passage[j]
    BY <1>6, <1>7
  <2>2. PICK f \in FrameSet : f = passage[j]  BY <1>4
  <2>3. f.origin = "upstream" /\ f.from = Peer /\ f.from > at /\ f.index = came /\ Travelled(f)
    BY <1>2, <1>4, <2>2, Positions
  <2>4. g = IF Hooked(at, KindOf(f)) THEN Passed(f) ELSE f  BY <1>5, <2>1, <2>2, <2>3 DEF KindOf
  <2>5. g.from = f.from /\ g.index = f.index /\ g.origin = f.origin  BY <1>2, <2>4, PassedFrame
  <2>6. Travelled(g)'  BY <1>1, <1>2, <1>3, <2>3, <2>4, FrameTravels
  <2>7. QED  BY <2>3, <2>5, <2>6
<1>8. held \in [Shims -> Seq(FrameSet)]  BY DEF OnionInv, ChainTypeOK
<1>9. ~Holds(at) \/ passage = <<>> => held' = held
  <2>1. SUFFICES ASSUME ~Holds(at) \/ passage = <<>> PROVE held' = held  OBVIOUS
  <2>2. NewlyHeld(passage) = <<>>
    <3>1. CASE ~Holds(at)  BY <3>1 DEF NewlyHeld
    <3>2. CASE Holds(at) /\ passage = <<>>
      <4>1. DOMAIN NewlyHeld(passage) = {} /\ NewlyHeld(passage) \in Seq(FrameSet)
        BY <1>1, <1>2, <3>2, HolderTakesUp
      <4>2. QED  BY <4>1
    <3>3. QED  BY <2>1, <3>1, <3>2
  <2>3. held[at] \o NewlyHeld(passage) = held[at]  BY <1>2, <1>8, <2>2, JoinedNone
  <2>4. QED  BY <1>8, <2>3 DEF TransformEvent
<1>10. ChainTypeOK' /\ HeldInv'
  <2>1. CASE ~Holds(at) \/ passage = <<>>
    <3>1. held' = held  BY <1>9, <2>1
    <3>2. ChainTypeOK'  BY <1>1, <1>2, <1>6, <3>1 DEF OnionInv, ChainTypeOK
    <3>3. HeldInv'  BY <1>1, <1>3, <3>1, HeldStays DEF OnionInv
    <3>4. QED  BY <3>2, <3>3
  <2>2. CASE Holds(at) /\ passage # <<>>
    <3> DEFINE s == held[at]
               t == NewlyHeld(passage)
    <3>1. /\ t \in Seq(FrameSet) /\ InOrder(t) /\ DOMAIN t = DOMAIN passage
          /\ \A k \in DOMAIN t : t[k] = Passed(passage[k]) /\ t[k].index = came
      BY <1>1, <1>2, <1>4, <2>2, HolderTakesUp
    <3>2. s \in Seq(FrameSet) /\ held' = [held EXCEPT ![at] = s \o t] /\ InOrder(s)
      BY <1>2, <1>8 DEF TransformEvent, OnionInv, HeldInv, MayHold
    <3>3. \A k \in DOMAIN s : s[k].index <= came  BY <1>2 DEF OnionInv, HeldInv, MayHold
    <3>4. \A k \in DOMAIN s : /\ s[k].origin = "upstream" /\ s[k].from = Peer
                              /\ Outward(s[k].passed, {j \in Outside(Peer, "event") : j >= at})
      BY <1>2 DEF OnionInv, HeldInv, MayHold
    <3>5. ASSUME NEW k \in DOMAIN t
          PROVE  /\ t[k].origin = "upstream" /\ t[k].from = Peer
                 /\ Outward(t[k].passed, {j \in Outside(Peer, "event") : j >= at})
      <4>1. PICK f \in FrameSet : f = passage[k] /\ t[k] = Passed(f)  BY <1>4, <3>1, <3>5
      <4>2. f.origin = "upstream" /\ f.from = Peer /\ Travelled(f)  BY <1>4, <3>1, <3>5, <4>1
      <4> DEFINE S == Outside(Peer, "event")
      <4>3. S \subseteq Nat /\ at \in S  BY <1>2, <1>3, <2>2, Positions DEF Outside, Holds, Hooked
      <4>4. Outward(f.passed, {j \in S : j > at}) /\ f.passed \in Seq(Nat)
        BY <1>5, <4>2, TravelledOutward DEF KindOf, FrameSet
      <4>5. t[k].passed = Append(f.passed, at) /\ t[k].origin = f.origin /\ t[k].from = f.from
        BY <1>2, <4>1, PassedFrame
      <4>6. Outward(t[k].passed, {j \in S : j > at - 1})
        <5> HIDE DEF S, t
        <5>1. QED  BY <4>3, <4>4, <4>5, OutwardNext
      <4>7. {j \in S : j > at - 1} = {j \in S : j >= at}  BY <1>2, <4>3
      <4>8. QED  BY <4>2, <4>5, <4>6, <4>7
    <3> HIDE DEF s, t
    <3>6. s \o t \in Seq(FrameSet) /\ InOrder(s \o t)  BY <3>1, <3>2, <3>3, JoinedInOrder, JoinedFrom
    <3>7. ASSUME NEW k \in DOMAIN (s \o t)
          PROVE  /\ (s \o t)[k].origin = "upstream" /\ (s \o t)[k].from = Peer /\ (s \o t)[k].index <= came
                 /\ Outward((s \o t)[k].passed, {j \in Outside(Peer, "event") : j >= at})
      <4>1. \/ k \in DOMAIN s /\ (s \o t)[k] = s[k]
            \/ \E j \in DOMAIN t : k = Len(s) + j /\ (s \o t)[k] = t[j]
        BY <3>1, <3>2, <3>7, JoinedFrom
      <4>2. CASE k \in DOMAIN s /\ (s \o t)[k] = s[k]  BY <3>3, <3>4, <4>2
      <4>3. CASE \E j \in DOMAIN t : (s \o t)[k] = t[j]
        <5>1. came <= came  BY <1>3
        <5>2. PICK j \in DOMAIN t : (s \o t)[k] = t[j]  BY <4>3
        <5>3. t[j].index = came  BY <3>1
        <5>4. QED  BY <3>5, <5>1, <5>2, <5>3
      <4>4. QED  BY <4>1, <4>2, <4>3
    <3>8. ChainTypeOK'
      <4>1. held' \in [Shims -> Seq(FrameSet)]  BY <1>8, <3>2, <3>6
      <4>2. QED  BY <1>1, <1>2, <1>6, <4>1 DEF OnionInv, ChainTypeOK
    <3>9. HeldInv'
      <4>1. \A i : Holds(i)' = Holds(i)  BY <1>1 DEF Holds, Hooked, Does
      <4>2. Outside(Peer, "event")' = Outside(Peer, "event")  BY <1>1 DEF Outside
      <4>3. held'[at] = s \o t /\ \A i \in Shims : i # at => held'[i] = held[i]  BY <1>2, <1>8, <3>2
      <4>4. \A j \in Shims : j > at => ~Holds(j)  BY <1>1, <2>2 DEF OnionInv, HoldersInv
      <4>5. \A i \in Shims : MayHold(i, held[i])  BY DEF OnionInv, HeldInv
      <4>6. MayHold(at, s \o t)  BY <2>2, <3>6, <3>7, <4>4 DEF MayHold
      <4>7. ASSUME NEW i \in Shims, NEW h, h = held'[i] PROVE MayHold(i, h)'
        <5>1. MayHold(i, h)  BY <4>3, <4>5, <4>6, <4>7
        <5>2. QED  BY <1>1, <4>1, <4>2, <5>1 DEF MayHold
      <4>8. QED  BY <4>7 DEF HeldInv
    <3>10. QED  BY <3>8, <3>9
  <2>3. QED  BY <2>1, <2>2
<1>11. HalvesInv'  BY <1>1, <1>2 DEF OnionInv, HalvesInv
<1>12. EnvelopeInv'  BY <1>1, EnvelopeStays
<1>13. PassageInv'  BY <1>1, <1>6, <1>7 DEF PassageInv
<1>14. HoldersInv'
  <2>1. \A i : Holds(i)' = Holds(i)  BY <1>1 DEF Holds, Hooked, Does
  <2>2. out # <<>> => \A i \in Shims : ~Holds(i)  BY <1>1 DEF OnionInv, HoldersInv
  <2>3. ASSUME passage' # <<>>, NEW i \in Shims, i > at - 1 PROVE ~Holds(i)
    <3>1. i = at \/ i > at  BY <1>2, <2>3, Positions
    <3>2. QED  BY <1>1, <1>6, <2>3, <3>1 DEF OnionInv, HoldersInv
  <2>4. QED  BY <1>1, <1>2, <2>1, <2>2, <2>3 DEF HoldersInv
<1>15. OutInv'  BY <1>1, <1>3, OutStays DEF OnionInv
<1>16. QED  BY <1>10, <1>11, <1>12, <1>13, <1>14, <1>15 DEF OnionInv

(* What is in passage is written after what has been.                      *)
LEMMA Written ==
    ASSUME OnionInv, NEW half \in {"stream", "done", "session"}, WriteOut(half), hook # "done",
           \A k \in DOMAIN passage : Completes(passage[k]),
           half # "done" => \A k \in DOMAIN passage : passage[k].index <= came,
           \A a \in DOMAIN out, b \in DOMAIN passage : out[a].index <= passage[b].index
    PROVE  ChainTypeOK' /\ PassageInv' /\ HeldInv' /\ OutInv'
<1>1. /\ hook' = half /\ out' = out \o passage /\ passage' = <<>>
      /\ UNCHANGED <<at, exchange, config, chain, envelope, held, came>>
  BY DEF WriteOut, requestVars
<1>2. passage \in Seq(FrameSet) /\ out \in Seq(FrameSet) /\ came \in Nat /\ InOrder(passage) /\ InOrder(out)
  BY DEF OnionInv, ChainTypeOK, PassageInv, OutInv
<1>3. out' \in Seq(FrameSet) /\ InOrder(out')  BY <1>1, <1>2, JoinedInOrder, JoinedFrom
<1>4. ChainTypeOK'  BY <1>1, <1>3, NoneInOrder DEF OnionInv, ChainTypeOK, Halves
<1>5. PassageInv'  BY <1>1, NoneInOrder DEF PassageInv
<1>6. HeldInv'  BY <1>1, <1>2, HeldStays DEF OnionInv
<1>7. OutInv'
  <2>1. ASSUME NEW k \in DOMAIN out', NEW f, f = out'[k]
        PROVE  Completes(f)' /\ (half # "done" => f.index <= came)
    <3>1. \/ k \in DOMAIN out /\ f = out[k]
          \/ \E j \in DOMAIN passage : f = passage[j]
      BY <1>1, <1>2, <2>1, JoinedFrom
    <3>2. Completes(f) /\ (half # "done" => f.index <= came)  BY <3>1 DEF OnionInv, OutInv
    <3>3. Completes(f)'  BY <1>1, <3>2 DEF Completes, Outside, FrameKind
    <3>4. QED  BY <3>2, <3>3
  <2>2. QED  BY <1>1, <1>3, <2>1 DEF OutInv
<1>8. QED  BY <1>4, <1>5, <1>6, <1>7

LEMMA EventWrittenInv == OnionInv /\ EventWritten => OnionInv'
<1> SUFFICES ASSUME OnionInv, EventWritten PROVE OnionInv'  OBVIOUS
<1>1. hook = "event" /\ at = 0 /\ WriteOut("stream")  BY DEF EventWritten
<1>2. /\ hook' = "stream" /\ out' = out \o passage /\ passage' = <<>>
      /\ UNCHANGED <<at, exchange, config, chain, envelope, held, came>>
  BY <1>1 DEF WriteOut, requestVars
<1>3. /\ passage \in Seq(FrameSet) /\ out \in Seq(FrameSet) /\ chain \subseteq Shims
      /\ \A k \in DOMAIN passage : passage[k].origin = "upstream" /\ Travelled(passage[k]) /\ passage[k].index = came
  BY <1>1 DEF OnionInv, ChainTypeOK, PassageInv
<1>4. \A k \in DOMAIN passage : Completes(passage[k])  BY <1>1, <1>3, JourneyEnds
<1>5. \A k \in DOMAIN passage : passage[k].index <= came  BY <1>3, FramesOf
<1>6. \A a \in DOMAIN out, b \in DOMAIN passage : out[a].index <= passage[b].index
  BY <1>1, <1>3 DEF OnionInv, OutInv
<1>7. ChainTypeOK' /\ PassageInv' /\ HeldInv' /\ OutInv'  BY <1>1, <1>4, <1>5, <1>6, Written
<1>8. HalvesInv'  BY <1>1, <1>2 DEF OnionInv, HalvesInv
<1>9. EnvelopeInv'  BY <1>1, <1>2, EnvelopeStays
<1>10. HoldersInv'
  <2>1. \A i : Holds(i)' = Holds(i)  BY <1>2 DEF Holds, Hooked, Does
  <2>2. out # <<>> \/ passage # <<>> => \A i \in Shims : ~Holds(i)
    BY <1>1, Positions DEF OnionInv, HoldersInv
  <2>3. out' # <<>> => out # <<>> \/ passage # <<>>  BY <1>2, <1>3, JoinedFrom
  <2>4. QED  BY <1>2, <2>1, <2>2, <2>3 DEF HoldersInv
<1>11. QED  BY <1>7, <1>8, <1>9, <1>10 DEF OnionInv

LEMMA WholeWrittenInv == OnionInv /\ WholeWritten => OnionInv'
<1> SUFFICES ASSUME OnionInv, WholeWritten PROVE OnionInv'  OBVIOUS
<1>1. hook = "buffered" /\ at = 0 /\ WriteOut("done")  BY DEF WholeWritten
<1>2. hook' = "done" /\ passage' = <<>> /\ UNCHANGED <<at, exchange, config, chain, envelope, held, came>>
  BY <1>1 DEF WriteOut, requestVars
<1>3. /\ passage \in Seq(FrameSet) /\ out \in Seq(FrameSet) /\ chain \subseteq Shims
      /\ \A k \in DOMAIN passage : passage[k].origin = "upstream" /\ Travelled(passage[k]) /\ passage[k].index = came
  BY <1>1 DEF OnionInv, ChainTypeOK, PassageInv
<1>4. \A k \in DOMAIN passage : Completes(passage[k])  BY <1>1, <1>3, JourneyEnds
<1>5. \A a \in DOMAIN out, b \in DOMAIN passage : out[a].index <= passage[b].index
  BY <1>1, <1>3 DEF OnionInv, OutInv
<1>6. ChainTypeOK' /\ PassageInv' /\ HeldInv' /\ OutInv'  BY <1>1, <1>4, <1>5, Written
<1>7. HalvesInv'  BY <1>2 DEF HalvesInv
<1>8. EnvelopeInv'  BY <1>1, <1>2, EnvelopeStays
<1>9. HoldersInv'  BY <1>2 DEF HoldersInv
<1>10. QED  BY <1>6, <1>7, <1>8, <1>9 DEF OnionInv

LEMMA FinalizedInv == OnionInv /\ Finalized => OnionInv'
<1> SUFFICES ASSUME OnionInv, Finalized PROVE OnionInv'  OBVIOUS
<1>1. hook = "finalize" /\ at = 0 /\ WriteOut("done")  BY DEF Finalized
<1>2. hook' = "done" /\ passage' = <<>> /\ UNCHANGED <<at, exchange, config, chain, envelope, held, came>>
  BY <1>1 DEF WriteOut, requestVars
<1>3. /\ passage \in Seq(FrameSet) /\ out \in Seq(FrameSet) /\ chain \subseteq Shims
      /\ \A k \in DOMAIN passage : passage[k].origin \in {"upstream", "shim"} /\ Travelled(passage[k])
  BY <1>1 DEF OnionInv, ChainTypeOK, PassageInv
<1>4. \A k \in DOMAIN passage : Completes(passage[k])  BY <1>1, <1>3, JourneyEnds
<1>5. ASSUME NEW a \in DOMAIN out, NEW b \in DOMAIN passage PROVE out[a].index <= passage[b].index
  <2>1. \A i \in Shims : ~Holds(i)  BY <1>1, <1>5 DEF OnionInv, HoldersInv
  <2>2. passage[b].index = MaxArrivals + 1  BY <1>1, <1>5, <2>1 DEF OnionInv, HoldersInv
  <2>3. out[a].index <= came /\ came <= MaxArrivals /\ came \in Nat  BY <1>1, <1>5 DEF OnionInv, OutInv, HalvesInv, ChainTypeOK
  <2>4. out[a].index \in Nat  BY <1>3, <1>5, FramesOf
  <2>5. QED  BY <2>2, <2>3, <2>4, Positions
<1>6. ChainTypeOK' /\ PassageInv' /\ HeldInv' /\ OutInv'  BY <1>1, <1>4, <1>5, Written
<1>7. HalvesInv'  BY <1>2 DEF HalvesInv
<1>8. EnvelopeInv'  BY <1>1, <1>2, EnvelopeStays
<1>9. HoldersInv'  BY <1>2 DEF HoldersInv
<1>10. QED  BY <1>6, <1>7, <1>8, <1>9 DEF OnionInv

LEMMA UpstreamEndsInv == OnionInv /\ UpstreamEnds => OnionInv'
<1> SUFFICES ASSUME OnionInv, UpstreamEnds PROVE OnionInv'  OBVIOUS
<1>1. /\ hook = "stream" /\ hook' = "finalize" /\ at' = Len(Registry)
      /\ UNCHANGED <<exchange, config, chain, envelope, passage, held, came, out>>
  BY DEF UpstreamEnds, requestVars, answerVars
<1>2. passage = <<>> /\ at' \in 0 .. Peer /\ at' <= Len(Registry) /\ came \in Nat
  BY <1>1, Positions DEF OnionInv, PassageInv, ChainTypeOK
<1>3. ChainTypeOK'  BY <1>1, <1>2 DEF OnionInv, ChainTypeOK, Halves
<1>4. HalvesInv'  BY <1>1, <1>2 DEF OnionInv, HalvesInv
<1>5. EnvelopeInv'  BY <1>1, EnvelopeStays
<1>6. PassageInv'  BY <1>1, <1>2, NoneInOrder DEF PassageInv
<1>7. HeldInv'  BY <1>1, <1>2, HeldStays DEF OnionInv
<1>8. HoldersInv'
  <2>1. \A i : Holds(i)' = Holds(i)  BY <1>1 DEF Holds, Hooked, Does
  <2>2. QED  BY <1>1, <1>2, <2>1, NoneInOrder DEF OnionInv, HoldersInv
<1>9. OutInv'  BY <1>1, <1>2, OutStays DEF OnionInv
<1>10. QED  BY <1>3, <1>4, <1>5, <1>6, <1>7, <1>8, <1>9 DEF OnionInv

-----------------------------------------------------------------------------
(* The end: what each shim gives.  A frame of the upstream's among it      *)
(* tells of a shim that holds, so that nothing has been written before.    *)
Given(f) ==
    /\ f.origin \in {"upstream", "shim"} /\ f.from >= at
    /\ f.index <= came \/ f.index = MaxArrivals + 1
    /\ f.index # MaxArrivals + 1 => \E j \in Shims : j >= at /\ Holds(j)

LEMMA AppendedIsJoined ==
    ASSUME NEW s \in Seq(FrameSet), NEW f \in FrameSet
    PROVE  Append(s, f) = s \o <<f>> /\ Append(s, f) \in Seq(FrameSet)
OBVIOUS

LEMMA FinalizeShimInv == OnionInv /\ FinalizeShim => OnionInv'
<1> SUFFICES ASSUME OnionInv, FinalizeShim PROVE OnionInv'  OBVIOUS
<1>1. hook = "finalize" /\ hook' = "finalize" /\ UNCHANGED <<exchange, config, chain, envelope, came, out>>
  BY DEF FinalizeShim, Finalizes, requestVars
<1>2. at \in Shims /\ at' = at - 1 /\ at' \in 0 .. Peer /\ at' <= Len(Registry) /\ at \in Nat /\ at < Peer
  BY <1>1, Positions DEF FinalizeShim, Finalizes, OnionInv, ChainTypeOK, HalvesInv
<1>3. /\ passage \in Seq(FrameSet) /\ chain \subseteq Shims /\ came \in Nat /\ InOrder(passage)
      /\ held \in [Shims -> Seq(FrameSet)] /\ came <= MaxArrivals /\ MaxArrivals \in Nat
  BY <1>1, Positions DEF OnionInv, ChainTypeOK, PassageInv, HalvesInv
<1>4. FrameKind = "event"  BY <1>1 DEF FrameKind, OnionInv, HalvesInv
<1>5. \A k \in DOMAIN passage :
          /\ passage[k] \in FrameSet /\ passage[k].origin \in {"upstream", "shim"} /\ passage[k].from > at
          /\ passage[k].index <= came \/ passage[k].index = MaxArrivals + 1
          /\ passage[k].index # MaxArrivals + 1 => \E j \in Shims : j > at /\ Holds(j)
          /\ Travelled(passage[k])
  BY <1>1, <1>3 DEF OnionInv, PassageInv, HoldersInv
<1> DEFINE T == Transformed(passage)
           H == held[at] \o NewlyHeld(passage)
           R == Released(H)
<1>6. passage' = T \o R /\ held' = [held EXCEPT ![at] = <<>>]  BY DEF FinalizeShim, Finalizes
<1>7. /\ T \in Seq(FrameSet) /\ InOrder(T) /\ (Holds(at) => T = <<>>)
      /\ \A k \in DOMAIN T :
            \E j \in DOMAIN passage : T[k] = IF Hooked(at, "event") THEN Passed(passage[j]) ELSE passage[j]
  BY <1>2, <1>3, TransformedFrames
<1>8. ASSUME NEW j \in DOMAIN passage, NEW g, g = IF Hooked(at, "event") THEN Passed(passage[j]) ELSE passage[j]
      PROVE  g \in FrameSet /\ g.index = passage[j].index /\ Given(g) /\ Travelled(g)'
  <2>1. PICK f \in FrameSet : f = passage[j]  BY <1>5
  <2>2. /\ f.origin \in {"upstream", "shim"} /\ f.from > at /\ Travelled(f) /\ f.from \in Nat
        /\ f.index <= came \/ f.index = MaxArrivals + 1
        /\ f.index # MaxArrivals + 1 => \E i \in Shims : i > at /\ Holds(i)
    BY <1>5, <2>1 DEF FrameSet
  <2>3. g = IF Hooked(at, KindOf(f)) THEN Passed(f) ELSE f  BY <1>4, <1>8, <2>1, <2>2 DEF KindOf
  <2>4. g \in FrameSet /\ g.from = f.from /\ g.index = f.index /\ g.origin = f.origin  BY <1>2, <2>3, PassedFrame
  <2>5. Travelled(g)'  BY <1>1, <1>2, <1>3, <2>2, <2>3, FrameTravels
  <2>6. f.from >= at /\ \A i \in Shims : i > at => i >= at  BY <1>2, <2>2, Positions
  <2>7. Given(g)  BY <2>2, <2>4, <2>6 DEF Given
  <2>8. QED  BY <2>1, <2>4, <2>5, <2>7
<1>9. ~Holds(at) => H = <<>>
  <2>1. SUFFICES ASSUME ~Holds(at) PROVE H = <<>>  OBVIOUS
  <2>2. held[at] = <<>> /\ NewlyHeld(passage) = <<>>  BY <1>2, <2>1 DEF OnionInv, HeldInv, MayHold, NewlyHeld
  <2>3. QED  BY <2>2, JoinedNone, NoneInOrder
<1>10. ASSUME Holds(at)
       PROVE  /\ H \in Seq(FrameSet) /\ InOrder(H)
              /\ \A k \in DOMAIN H : H[k] \in FrameSet /\ Given(H[k])
  <2> DEFINE s == held[at]
             t == NewlyHeld(passage)
  <2>1. /\ t \in Seq(FrameSet) /\ InOrder(t) /\ DOMAIN t = DOMAIN passage
        /\ \A k \in DOMAIN t : t[k] = Passed(passage[k]) /\ t[k].index = passage[k].index
    BY <1>1, <1>2, <1>10, HolderTakesUp
  <2>2. s \in Seq(FrameSet) /\ InOrder(s)  BY <1>2, <1>3 DEF OnionInv, HeldInv, MayHold
  <2>3. \A k \in DOMAIN s : s[k] \in FrameSet /\ s[k].index <= came /\ s[k].origin = "upstream" /\ s[k].from = Peer
    <3>1. \A k \in DOMAIN s : s[k] \in FrameSet  BY <2>2, FramesOf
    <3>2. \A k \in DOMAIN s : s[k].index <= came /\ s[k].origin = "upstream" /\ s[k].from = Peer
      BY <1>2 DEF OnionInv, HeldInv, MayHold
    <3>3. QED  BY <3>1, <3>2
  <2>4. Hooked(at, "event")  BY <1>10 DEF Holds
  <2>5. \A k \in DOMAIN t : t[k] \in FrameSet /\ Given(t[k])  BY <1>8, <2>1, <2>4
  <2>6. ASSUME NEW a \in DOMAIN s, NEW b \in DOMAIN t PROVE s[a].index <= t[b].index
    <3>1. s # <<>>  BY <2>2, <2>6
    <3>2. \A j \in Shims : j > at => ~Holds(j)  BY <1>2, <3>1 DEF OnionInv, HeldInv, MayHold
    <3>3. t[b].index = MaxArrivals + 1  BY <1>5, <2>1, <2>6, <3>2
    <3>4. s[a].index <= came /\ s[a].index \in Nat  BY <2>3, <2>6 DEF FrameSet
    <3>5. QED  BY <1>3, <3>3, <3>4
  <2>7. \A k \in DOMAIN s : Given(s[k])
    <3>1. Peer >= at /\ at >= at  BY <1>2, Positions
    <3>2. QED  BY <1>2, <1>10, <2>3, <3>1 DEF Given
  <2> HIDE DEF s, t
  <2>8. s \o t \in Seq(FrameSet) /\ InOrder(s \o t)  BY <2>1, <2>2, <2>6, JoinedInOrder, JoinedFrom
  <2>9. ASSUME NEW k \in DOMAIN (s \o t) PROVE (s \o t)[k] \in FrameSet /\ Given((s \o t)[k])
    <3>1. \/ k \in DOMAIN s /\ (s \o t)[k] = s[k]
          \/ \E j \in DOMAIN t : k = Len(s) + j /\ (s \o t)[k] = t[j]
      BY <2>1, <2>2, <2>9, JoinedFrom
    <3>2. CASE k \in DOMAIN s /\ (s \o t)[k] = s[k]  BY <2>3, <2>7, <3>2
    <3>3. CASE \E j \in DOMAIN t : (s \o t)[k] = t[j]  BY <2>5, <3>3
    <3>4. QED  BY <3>1, <3>2, <3>3
  <2>10. H = s \o t  BY DEF s, t
  <2> HIDE DEF H
  <2>11. QED  BY <2>8, <2>9, <2>10
<1>11. ASSUME NEW k \in DOMAIN H, Holds(at), NEW g, g = H[k] PROVE Travelled(g)'
  <2> DEFINE s == held[at]
             t == NewlyHeld(passage)
  <2>1. /\ t \in Seq(FrameSet) /\ DOMAIN t = DOMAIN passage /\ s \in Seq(FrameSet) /\ Hooked(at, "event")
        /\ \A i \in DOMAIN t : t[i] = Passed(passage[i])
    BY <1>1, <1>2, <1>3, <1>11, HolderTakesUp DEF Holds
  <2>2. H = s \o t  OBVIOUS
  <2> HIDE DEF s, t, H
  <2>3. \/ k \in DOMAIN s /\ g = s[k]
        \/ \E j \in DOMAIN t : g = t[j]
    BY <1>11, <2>1, <2>2, JoinedFrom
  <2>4. CASE k \in DOMAIN s /\ g = s[k]
    <3>1. /\ g.origin = "upstream" /\ g.from = Peer /\ chain \subseteq Nat
          /\ Outward(g.passed, {j \in Outside(Peer, "event") : j >= at})
      BY <1>2, <1>3, <2>4, Positions DEF OnionInv, HeldInv, MayHold, s
    <3>2. {j \in Outside(Peer, "event") : j >= at} = {j \in Outside(Peer, "event") : j > at - 1}
      <4>1. Outside(Peer, "event") \in SUBSET Nat  BY <3>1 DEF Outside
      <4>2. QED  BY <1>2, <4>1, OneMore
    <3>3. KindOf(g) = "event"  BY <1>4, <3>1 DEF KindOf
    <3>4. QED  BY <1>1, <1>2, <3>1, <3>2, <3>3, TravelledOutwardAfter
  <2>5. CASE \E j \in DOMAIN t : g = t[j]  BY <1>8, <2>1, <2>5
  <2>6. QED  BY <2>3, <2>4, <2>5
<1>12. ASSUME NEW g, g = Final
       PROVE  g \in FrameSet /\ g.index = MaxArrivals + 1 /\ Given(g) /\ Travelled(g)'
  <2>1. at \in 1 .. Peer /\ MaxArrivals + 1 \in Nat /\ <<>> \in Seq(Nat) /\ at >= at  BY <1>2, Positions
  <2>2. /\ g \in FrameSet /\ g.origin = "shim" /\ g.from = at /\ g.index = MaxArrivals + 1 /\ g.passed = <<>>
    BY <1>12, <2>1 DEF Final, FrameSet
  <2>3. Given(g)  BY <2>1, <2>2 DEF Given
  <2>4. {i \in Outside(at, KindOf(g)) : i > at - 1} = {}
    <3>1. \A i \in chain : i < at => ~(i > at - 1)  BY <1>2, <1>3, Positions
    <3>2. QED  BY <3>1 DEF Outside
  <2>5. Outward(g.passed, {i \in Outside(g.from, KindOf(g)) : i > at - 1})  BY <2>2, <2>4, NothingPassed
  <2>6. Travelled(g)'  BY <1>1, <1>2, <2>2, <2>5, TravelledOutwardAfter
  <2>7. QED  BY <2>2, <2>3, <2>6
<1>13. /\ R \in Seq(FrameSet) /\ InOrder(R)
       /\ \A k \in DOMAIN R : R[k] = Final \/ (Holds(at) /\ \E j \in DOMAIN H : R[k] = H[j])
  <2>1. H \in Seq(FrameSet) /\ InOrder(H) /\ (H # <<>> => Holds(at)) /\ \A k \in DOMAIN H : H[k] \in FrameSet /\ Given(H[k])
    <3>1. CASE Holds(at)  BY <1>10, <3>1
    <3>2. CASE ~Holds(at)
      <4> HIDE DEF H
      <4>1. QED  BY <1>9, <3>2, NoneInOrder
    <3>3. QED  BY <3>1, <3>2
  <2> HIDE DEF H
  <2>2. CASE ~Hooked(at, "finalize")
    <3>1. R = <<>>  BY <2>2 DEF Released
    <3>2. QED  BY <3>1, NoneInOrder
  <2>3. CASE Hooked(at, "finalize")
    <3>1. PICK g : g = Final  OBVIOUS
    <3>2. g \in FrameSet /\ g.index = MaxArrivals + 1  BY <1>12, <3>1
    <3>3. R = H \o <<g>>  BY <2>1, <2>3, <3>1, <3>2, AppendedIsJoined DEF Released
    <3>4. <<g>> \in Seq(FrameSet) /\ DOMAIN <<g>> = {1} /\ InOrder(<<g>>) /\ <<g>>[1] = g  BY <3>2, OneInOrder
    <3>5. \A a \in DOMAIN H : H[a].index <= MaxArrivals + 1
      <4>1. \A a \in DOMAIN H : H[a].index \in Nat /\ Given(H[a])  BY <2>1, FramesOf
      <4>2. QED  BY <1>3, <4>1 DEF Given
    <3>6. \A a \in DOMAIN H, b \in DOMAIN <<g>> : H[a].index <= <<g>>[b].index  BY <3>2, <3>4, <3>5
    <3> DEFINE G == <<g>>
    <3> HIDE DEF G, R
    <3>7. G \in Seq(FrameSet) /\ DOMAIN G = {1} /\ InOrder(G) /\ G[1] = g /\ R = H \o G
          /\ \A a \in DOMAIN H, b \in DOMAIN G : H[a].index <= G[b].index
      BY <3>3, <3>4, <3>6 DEF G
    <3>8. R \in Seq(FrameSet) /\ InOrder(R)  BY <2>1, <3>7, JoinedInOrder, JoinedFrom
    <3>9. ASSUME NEW k \in DOMAIN R PROVE R[k] = g \/ (Holds(at) /\ \E j \in DOMAIN H : R[k] = H[j])
      <4>1. \/ k \in DOMAIN H /\ R[k] = H[k]
            \/ \E j \in DOMAIN G : R[k] = G[j]
        BY <2>1, <3>7, <3>9, JoinedFrom
      <4>2. CASE k \in DOMAIN H /\ R[k] = H[k]
        <5>1. H # <<>>  BY <2>1, <4>2
        <5>2. QED  BY <2>1, <4>2, <5>1
      <4>3. CASE \E j \in DOMAIN G : R[k] = G[j]  BY <3>7, <4>3
      <4>4. QED  BY <4>1, <4>2, <4>3
    <3>10. QED  BY <3>1, <3>8, <3>9
  <2>4. QED  BY <2>2, <2>3
<1> HIDE DEF T, R
<1>14. ASSUME NEW k \in DOMAIN T, NEW g, g = T[k]
       PROVE  g \in FrameSet /\ Given(g) /\ Travelled(g)'
  BY <1>7, <1>8, <1>14
<1>15. ASSUME NEW k \in DOMAIN R, NEW g, g = R[k]
       PROVE  g \in FrameSet /\ Given(g) /\ Travelled(g)' /\ (g.index = MaxArrivals + 1 \/ Holds(at))
  <2>1. CASE g = Final  BY <1>12, <2>1
  <2>2. CASE Holds(at) /\ \E j \in DOMAIN H : g = H[j]
    <3> HIDE DEF H
    <3>1. QED  BY <1>10, <1>11, <2>2
  <2>3. QED  BY <1>13, <1>15, <2>1, <2>2
<1>16. ASSUME NEW a \in DOMAIN T, NEW b \in DOMAIN R PROVE T[a].index <= R[b].index
  <2>1. ~Holds(at)  BY <1>7, <1>16, NoneInOrder
  <2>2. R[b].index = MaxArrivals + 1  BY <1>15, <1>16, <2>1
  <2>3. Given(T[a]) /\ T[a] \in FrameSet  BY <1>14, <1>16
  <2>4. QED  BY <1>3, <2>2, <2>3 DEF Given, FrameSet
<1>17. passage' \in Seq(FrameSet) /\ InOrder(passage')
  BY <1>6, <1>7, <1>13, <1>16, JoinedInOrder, JoinedFrom
<1>18. ASSUME NEW k \in DOMAIN passage', NEW g, g = passage'[k] PROVE Given(g) /\ Travelled(g)'
  <2>1. \/ k \in DOMAIN T /\ g = T[k]
        \/ \E j \in DOMAIN R : g = R[j]
    BY <1>6, <1>7, <1>13, <1>18, JoinedFrom
  <2>2. QED  BY <1>14, <1>15, <2>1
<1>19. ChainTypeOK'
  <2>1. held' \in [Shims -> Seq(FrameSet)]  BY <1>3, <1>6, NoneInOrder
  <2>2. QED  BY <1>1, <1>2, <1>17, <2>1 DEF OnionInv, ChainTypeOK
<1>20. HalvesInv'  BY <1>1, <1>2 DEF OnionInv, HalvesInv
<1>21. EnvelopeInv'  BY <1>1, EnvelopeStays
<1>22. PassageInv'
  <2>1. ASSUME NEW k \in DOMAIN passage', NEW g, g = passage'[k]
        PROVE  /\ Travelled(g)' /\ g.origin \in {"upstream", "shim"} /\ g.from > at'
               /\ g.index <= came \/ g.index = MaxArrivals + 1
    <3>1. g \in FrameSet /\ g.from \in Nat  BY <1>17, <2>1, FramesOf
    <3>2. Given(g) /\ Travelled(g)'  BY <1>18, <2>1
    <3>3. QED  BY <1>2, <3>1, <3>2 DEF Given
  <2>2. QED  BY <1>1, <1>17, <2>1 DEF PassageInv
<1>23. HeldInv'
  <2>1. \A i : Holds(i)' = Holds(i)  BY <1>1 DEF Holds, Hooked, Does
  <2>2. Outside(Peer, "event")' = Outside(Peer, "event")  BY <1>1 DEF Outside
  <2>3. held'[at] = <<>> /\ \A i \in Shims : i # at => held'[i] = held[i]  BY <1>2, <1>3, <1>6
  <2>4. \A i \in Shims : MayHold(i, held[i])  BY DEF OnionInv, HeldInv
  <2>5. \A i : MayHold(i, <<>>)  BY NoneInOrder DEF MayHold
  <2>6. ASSUME NEW i \in Shims, NEW h, h = held'[i] PROVE MayHold(i, h)'
    <3>1. MayHold(i, h)  BY <2>3, <2>4, <2>5, <2>6
    <3>2. QED  BY <1>1, <2>1, <2>2, <3>1 DEF MayHold
  <2>7. QED  BY <2>6 DEF HeldInv
<1>24. HoldersInv'
  <2>1. \A i : Holds(i)' = Holds(i)  BY <1>1 DEF Holds, Hooked, Does
  <2>2. out # <<>> => \A i \in Shims : ~Holds(i)  BY <1>1 DEF OnionInv, HoldersInv
  <2>3. ASSUME NEW k \in DOMAIN passage', passage'[k].index # MaxArrivals + 1
        PROVE  \E j \in Shims : j > at' /\ Holds(j)
    <3>1. PICK j \in Shims : j >= at /\ Holds(j)  BY <1>18, <2>3 DEF Given
    <3>2. j > at'  BY <1>2, <3>1, Positions
    <3>3. QED  BY <3>1, <3>2
  <2>4. QED  BY <1>1, <2>1, <2>2, <2>3 DEF HoldersInv
<1>25. OutInv'  BY <1>1, <1>3, OutStays DEF OnionInv
<1>26. QED  BY <1>19, <1>20, <1>21, <1>22, <1>23, <1>24, <1>25 DEF OnionInv

-----------------------------------------------------------------------------
(* A session's messages.                                                   *)
LEMMA MessageComesInv ==
    ASSUME OnionInv, NEW origin \in {"client", "server"}, NEW first, MessageComes(origin, first),
           first = IF origin = "client" THEN 1 ELSE Len(Registry)
    PROVE  OnionInv'
<1> DEFINE f == Arrival(origin, came + 1)
<1>1. hook = "session" /\ hook' = origin /\ came' = came + 1 /\ at' = first /\ passage' = <<f>>
  BY DEF MessageComes
<1>2. UNCHANGED <<exchange, config, chain, envelope, held, out>>  BY DEF MessageComes
<1>3. /\ came \in Nat /\ came' \in Nat /\ came <= came' /\ at' \in 0 .. Peer
      /\ (origin = "server" => at' <= Len(Registry)) /\ (origin = "client" => at' >= 1)
  BY <1>1, Positions DEF OnionInv, ChainTypeOK
<1>4. /\ f \in FrameSet /\ f.origin = origin /\ f.from = Peer /\ f.index = came' /\ f.passed = <<>>
      /\ <<f>> \in Seq(FrameSet) /\ DOMAIN <<f>> = {1} /\ InOrder(<<f>>)
  BY <1>1, <1>3, ArrivalFrame, OneInOrder
<1> HIDE DEF f
<1>5. ChainTypeOK'  BY <1>1, <1>2, <1>3, <1>4 DEF OnionInv, ChainTypeOK, Halves
<1>6. HalvesInv'  BY <1>1, <1>3 DEF HalvesInv
<1>7. EnvelopeInv'  BY <1>1 DEF EnvelopeInv
<1>8. PassageInv'
  <2>1. ASSUME NEW g, g = f PROVE Travelled(g)'
    BY <1>1, <1>2, <1>4, <2>1, FrameArrives DEF OnionInv, ChainTypeOK
  <2>2. QED  BY <1>1, <1>4, <2>1 DEF PassageInv
<1>9. HeldInv'  BY <1>2, <1>3, HeldStays DEF OnionInv
<1>10. HoldersInv'  BY <1>1 DEF HoldersInv
<1>11. OutInv'  BY <1>1, <1>2, <1>3, OutStays DEF OnionInv
<1>12. QED  BY <1>5, <1>6, <1>7, <1>8, <1>9, <1>10, <1>11 DEF OnionInv

LEMMA MessageHookInv == OnionInv /\ MessageHook => OnionInv'
<1> SUFFICES ASSUME OnionInv, MessageHook PROVE OnionInv'  OBVIOUS
<1>1. /\ hook \in {"client", "server"} /\ at' = IF hook = "client" THEN at + 1 ELSE at - 1
      /\ UNCHANGED <<exchange, config, chain, envelope, held, came, out>>
  BY DEF MessageHook
<1>2. /\ at \in Shims /\ at' \in 0 .. Peer /\ at \in Nat /\ at < Peer
      /\ (hook = "server" => at' <= Len(Registry)) /\ (hook = "client" => at' >= 1)
  <2>1. at \in 0 .. Peer /\ at # 0 /\ at <= Len(Registry)
    <3>1. CASE hook = "server"
      BY <3>1, Positions DEF MessageHook, OnionInv, ChainTypeOK, HalvesInv
    <3>2. CASE hook = "client" /\ at # 0
      BY <3>2, Positions DEF MessageHook, OnionInv, ChainTypeOK
    <3>3. CASE hook = "client" /\ at = 0
      BY <3>3, Positions DEF OnionInv, HalvesInv
    <3>4. QED  BY <1>1, <3>1, <3>2, <3>3
  <2>2. QED  BY <1>1, <2>1, Positions
<1>3. passage \in Seq(FrameSet) /\ chain \subseteq Shims /\ came \in Nat /\ InOrder(passage) /\ came <= came
  BY DEF OnionInv, ChainTypeOK, PassageInv
<1>4. HeldInv'  BY <1>1, <1>3, HeldStays DEF OnionInv
<1>5. OutInv'  BY <1>1, <1>3, OutStays DEF OnionInv
<1>6. CASE hook' = "session" /\ passage' = <<>>
  <2>1. ChainTypeOK'  BY <1>1, <1>2, <1>6, NoneInOrder DEF OnionInv, ChainTypeOK, Halves
  <2>2. HalvesInv'  BY <1>6 DEF HalvesInv
  <2>3. EnvelopeInv'  BY <1>6 DEF EnvelopeInv
  <2>4. PassageInv'  BY <1>6, NoneInOrder DEF PassageInv
  <2>5. HoldersInv'  BY <1>6 DEF HoldersInv
  <2>6. QED  BY <1>4, <1>5, <2>1, <2>2, <2>3, <2>4, <2>5 DEF OnionInv
<1>7. CASE hook' = hook /\ passage' = IF Takes(at) THEN AllPassed(passage) ELSE passage
  <2>1. \A k \in DOMAIN passage : /\ passage[k] \in FrameSet /\ passage[k].origin = hook
                                  /\ passage[k].from = Peer /\ passage[k].index = came /\ Travelled(passage[k])
    BY <1>1, <1>3 DEF OnionInv, PassageInv
  <2>2. /\ passage' \in Seq(FrameSet) /\ DOMAIN passage' = DOMAIN passage /\ InOrder(passage')
        /\ \A k \in DOMAIN passage : passage'[k] = IF Hooked(at, hook) THEN Passed(passage[k]) ELSE passage[k]
    BY <1>2, <1>3, <1>7, AllArePassed DEF Takes
  <2>3. ASSUME NEW k \in DOMAIN passage', NEW g, g = passage'[k]
        PROVE  Travelled(g)' /\ g.from = Peer /\ g.index = came /\ g.origin = hook
    <3>1. PICK f \in FrameSet : f = passage[k]  BY <2>1, <2>2, <2>3
    <3>2. f.origin = hook /\ f.from = Peer /\ f.from > at /\ f.index = came /\ Travelled(f)
      BY <1>2, <2>1, <2>2, <2>3, <3>1, Positions
    <3>3. g = IF Hooked(at, hook) THEN Passed(f) ELSE f  BY <2>2, <2>3, <3>1
    <3>4. g.from = f.from /\ g.index = f.index /\ g.origin = f.origin  BY <1>2, <3>3, PassedFrame
    <3>5. Travelled(g)'
      <4>1. CASE hook = "client"  BY <1>1, <1>2, <1>3, <3>2, <3>3, <4>1, MessageTravels
      <4>2. CASE hook = "server"
        <5>1. KindOf(f) = "server"  BY <3>2, <4>2 DEF KindOf
        <5>2. QED  BY <1>1, <1>2, <1>3, <3>2, <3>3, <4>2, <5>1, FrameTravels
      <4>3. QED  BY <1>1, <4>1, <4>2
    <3>6. QED  BY <3>2, <3>4, <3>5
  <2>4. ChainTypeOK'  BY <1>1, <1>2, <1>7, <2>2 DEF OnionInv, ChainTypeOK
  <2>5. HalvesInv'  BY <1>1, <1>2, <1>7 DEF HalvesInv, OnionInv
  <2>6. EnvelopeInv'  BY <1>1, <1>7 DEF EnvelopeInv
  <2>7. PassageInv'  BY <1>1, <1>7, <2>2, <2>3 DEF PassageInv
  <2>8. HoldersInv'  BY <1>1, <1>7 DEF HoldersInv
  <2>9. QED  BY <1>4, <1>5, <2>4, <2>5, <2>6, <2>7, <2>8 DEF OnionInv
<1>8. QED  BY <1>6, <1>7 DEF MessageHook

LEMMA MessageWrittenInv == OnionInv /\ MessageWritten => OnionInv'
<1> SUFFICES ASSUME OnionInv, MessageWritten PROVE OnionInv'  OBVIOUS
<1>1. ((hook = "client" /\ at = Peer) \/ (hook = "server" /\ at = 0)) /\ WriteOut("session")
  BY DEF MessageWritten
<1>2. hook' = "session" /\ passage' = <<>> /\ UNCHANGED <<at, exchange, config, chain, envelope, held, came>>
  BY <1>1 DEF WriteOut, requestVars
<1>3. /\ passage \in Seq(FrameSet) /\ out \in Seq(FrameSet) /\ chain \subseteq Shims
      /\ \A k \in DOMAIN passage : passage[k].origin = hook /\ Travelled(passage[k]) /\ passage[k].index = came
  BY <1>1 DEF OnionInv, ChainTypeOK, PassageInv
<1>4. \A k \in DOMAIN passage : Completes(passage[k])  BY <1>1, <1>3, JourneyEnds
<1>5. \A k \in DOMAIN passage : passage[k].index <= came  BY <1>3, FramesOf
<1>6. \A a \in DOMAIN out, b \in DOMAIN passage : out[a].index <= passage[b].index
  BY <1>1, <1>3 DEF OnionInv, OutInv
<1>7. ChainTypeOK' /\ PassageInv' /\ HeldInv' /\ OutInv'  BY <1>1, <1>4, <1>5, <1>6, Written
<1>8. HalvesInv'  BY <1>2 DEF HalvesInv
<1>9. EnvelopeInv'  BY <1>2 DEF EnvelopeInv
<1>10. HoldersInv'  BY <1>2 DEF HoldersInv
<1>11. QED  BY <1>7, <1>8, <1>9, <1>10 DEF OnionInv

LEMMA OnionStep == OnionInv /\ [ChainNext]_chainVars => OnionInv'
<1> SUFFICES ASSUME OnionInv, [ChainNext]_chainVars PROVE OnionInv'  OBVIOUS
<1>1. CASE NewChain \/ RunRequest \/ CallUpstream \/ Answered \/ RunPrelude \/ Commit
  BY <1>1, NewChainInv, RunRequestInv, CallUpstreamInv, AnsweredInv, RunPreludeInv, CommitInv
<1>2. CASE RunBuffered \/ FrameComes \/ TransformEvent \/ EventWritten \/ WholeWritten
  BY <1>2, RunBufferedInv, FrameComesInv, TransformEventInv, EventWrittenInv, WholeWrittenInv
<1>3. CASE UpstreamEnds \/ FinalizeShim \/ Finalized
  BY <1>3, UpstreamEndsInv, FinalizeShimInv, FinalizedInv
<1>4. CASE ClientMessage \/ ServerMessage
  BY <1>4, MessageComesInv DEF ClientMessage, ServerMessage
<1>5. CASE MessageHook \/ MessageWritten  BY <1>5, MessageHookInv, MessageWrittenInv
<1>6. CASE UNCHANGED chainVars
  <2> USE <1>6 DEF OnionInv, chainVars, requestVars, answerVars
  <2>1. ChainTypeOK' /\ HalvesInv' /\ EnvelopeInv'
    BY DEF ChainTypeOK, HalvesInv, EnvelopeInv, Outside, Beyond
  <2>2. PassageInv'
    <3>1. ASSUME NEW f PROVE Travelled(f)' <=> Travelled(f)  BY DEF Travelled, Outside, Beyond, FrameKind
    <3>2. QED  BY <3>1 DEF PassageInv
  <2>3. \A i : Holds(i)' = Holds(i)  BY DEF Holds, Hooked, Does
  <2>4. HeldInv' /\ HoldersInv'  BY <2>3 DEF HeldInv, MayHold, HoldersInv, Outside
  <2>5. OutInv'
    <3>1. ASSUME NEW f PROVE Completes(f)' <=> Completes(f)  BY DEF Completes, Outside, FrameKind
    <3>2. QED  BY <3>1 DEF OutInv
  <2>6. QED  BY <2>1, <2>2, <2>4, <2>5
<1>7. QED  BY <1>1, <1>2, <1>3, <1>4, <1>5, <1>6 DEF ChainNext

(* Every frame that the client gets has been through the hook of each shim *)
(* outside its maker, once and in the onion's order, and frames keep their *)
(* order (Chain.Prelude, BufferedResponse and the Event pipeline,          *)
(* internal/shim/chain.go), for any registry of any length, any settings,  *)
(* and any number of frames.                                               *)
THEOREM FramesPassTheOnion == ChainSpec => []EveryFrameCompletesTheOnion
<1>1. OnionInv => EveryFrameCompletesTheOnion
  BY DEF OnionInv, OutInv, EnvelopeInv, EveryFrameCompletesTheOnion
<1>2. QED  BY <1>1, InitInv, OnionStep, PTL DEF ChainSpec

-----------------------------------------------------------------------------
(* The payload and the headers that go upstream.                           *)
Rewritten(q, p) == q = p \/ \E b \in BOOLEAN : q = rewrite(p, b)
Past(name) == \E i \in chain : Named(i, name) /\ i < at
PayloadInv ==
    /\ Rewritten(payload, exchange.payload)
    /\ hook = "new" => payload = exchange.payload /\ requested = Unread
    /\ hook \in {"request", "client"} /\ ~Past("model-override") => payload = exchange.payload
    /\ hook = "request" => requested = IF Past("usage-meter") THEN requestedModelFrom(payload) ELSE Unread
    /\ hook = "called" =>
          /\ sent = authenticatedOutboundHeaders
          /\ requested = IF \E i \in chain : Named(i, "usage-meter") THEN requestedModelFrom(payload) ELSE Unread

AnyPayload == [object : BOOLEAN, members : Seq([name : STRING, kind : {"string", "lossy", "other"}, text : STRING])]

LEMMA OneOccurrence ==
    ASSUME NEW p, IsFiniteSet(DOMAIN p.members), NEW name, Cardinality(Occurrences(p, name)) = 1
    PROVE  \E i \in DOMAIN p.members : Occurrences(p, name) = {i} /\ p.members[i].name = name
<1>1. Occurrences(p, name) \subseteq DOMAIN p.members  BY DEF Occurrences
<1>2. IsFiniteSet(Occurrences(p, name))  BY <1>1, FS_Subset
<1>3. PICK i : Occurrences(p, name) = {i}  BY <1>2, FS_Singleton
<1>4. i \in Occurrences(p, name)  BY <1>3
<1>5. QED  BY <1>3, <1>4 DEF Occurrences

LEMMA PayloadMembers ==
    ASSUME exchange \in Exchanges
    PROVE  exchange.payload \in AnyPayload /\ IsFiniteSet(DOMAIN exchange.payload.members)
<1>1. exchange.payload \in AnyPayload  BY ShimChainAssumption DEF AnyPayload
<1>2. PICK ms : ms = exchange.payload.members  OBVIOUS
<1>3. ms \in Seq([name : STRING, kind : {"string", "lossy", "other"}, text : STRING])  BY <1>1, <1>2 DEF AnyPayload
<1>4. DOMAIN ms = 1 .. Len(ms) /\ Len(ms) \in Nat  BY <1>3
<1>5. IsFiniteSet(1 .. Len(ms))  BY <1>4, FS_Interval
<1>6. QED  BY <1>1, <1>2, <1>4, <1>5

(* The string that a member of a name decodes to is that one's.            *)
LEMMA DecodedIsOnly ==
    ASSUME NEW p, IsFiniteSet(DOMAIN p.members), NEW name, decode(p, name) # {}
    PROVE  \E i \in DOMAIN p.members :
              /\ Occurrences(p, name) = {i} /\ p.members[i].name = name /\ p.members[i].kind = "string"
              /\ decode(p, name) = {p.members[i].text}
<1>1. Cardinality(Occurrences(p, name)) = 1  BY DEF decode
<1>2. PICK i \in DOMAIN p.members : Occurrences(p, name) = {i} /\ p.members[i].name = name
  BY <1>1, OneOccurrence
<1>3. decode(p, name) = {p.members[j].text : j \in {k \in {i} : p.members[k].kind = "string"}}
  BY <1>1, <1>2 DEF decode
<1>4. p.members[i].kind = "string"  BY <1>3
<1>5. decode(p, name) = {p.members[i].text}  BY <1>3, <1>4
<1>6. QED  BY <1>2, <1>4, <1>5

DiffersInModel(q, p) ==
    /\ DOMAIN q.members = DOMAIN p.members
    /\ \A i \in DOMAIN p.members :
          q.members[i] # p.members[i] =>
             /\ p.members[i].name = "model" /\ p.members[i].text \in DOMAIN Rules
             /\ q.members[i] = [p.members[i] EXCEPT !.text = Rules[p.members[i].text]]
             /\ Occurrences(q, "model") = {i} /\ p.members[i].kind = "string"

LEMMA RewritesOneModel ==
    ASSUME NEW p \in AnyPayload, IsFiniteSet(DOMAIN p.members), NEW q, Rewritten(q, p)
    PROVE  DiffersInModel(q, p)
<1> DEFINE ms == [i \in DOMAIN p.members |->
                    IF i \in Occurrences(p, "model") /\ decode(p, "model") \cap DOMAIN Rules # {}
                    THEN [p.members[i] EXCEPT !.text = Rules[p.members[i].text]] ELSE p.members[i]]
<1>1. CASE q = p  BY <1>1 DEF DiffersInModel
<1>2. CASE q = [p EXCEPT !.members = ms]
  <2>1. q.members = ms /\ DOMAIN ms = DOMAIN p.members
    <3>1. \A m : [p EXCEPT !.members = m].members = m  BY DEF AnyPayload
    <3>2. QED  BY <1>2, <3>1
  <2>2. \A i \in DOMAIN p.members :
            ms[i] = IF i \in Occurrences(p, "model") /\ decode(p, "model") \cap DOMAIN Rules # {}
                    THEN [p.members[i] EXCEPT !.text = Rules[p.members[i].text]] ELSE p.members[i]
    OBVIOUS
  <2>3. \A i \in DOMAIN p.members : ms[i].name = p.members[i].name
    <3>1. \A i \in DOMAIN p.members : p.members[i] \in [name : STRING, kind : {"string", "lossy", "other"}, text : STRING]
      <4> DEFINE R == [name : STRING, kind : {"string", "lossy", "other"}, text : STRING]
      <4>1. PICK s : s = p.members  OBVIOUS
      <4>2. s \in Seq(R)  BY <4>1 DEF AnyPayload
      <4> HIDE DEF R
      <4>3. \A i \in DOMAIN s : s[i] \in R  BY <4>2
      <4>4. QED  BY <4>1, <4>3 DEF R
    <3>2. \A i \in DOMAIN p.members : \A v : [p.members[i] EXCEPT !.text = v].name = p.members[i].name  BY <3>1
    <3>3. ASSUME NEW i \in DOMAIN p.members, NEW m, m = ms[i] PROVE m.name = p.members[i].name
      <4>1. m = [p.members[i] EXCEPT !.text = Rules[p.members[i].text]] \/ m = p.members[i]
        <5> HIDE DEF ms
        <5>1. QED  BY <2>2, <3>3
      <4>2. QED  BY <3>2, <4>1
    <3> HIDE DEF ms
    <3>4. QED  BY <3>3
  <2> HIDE DEF ms
  <2>4. Occurrences(q, "model") = Occurrences(p, "model")  BY <2>1, <2>3 DEF Occurrences
  <2>5. ASSUME NEW i \in DOMAIN p.members, q.members[i] # p.members[i]
        PROVE  /\ p.members[i].name = "model" /\ p.members[i].text \in DOMAIN Rules
               /\ q.members[i] = [p.members[i] EXCEPT !.text = Rules[p.members[i].text]]
               /\ Occurrences(q, "model") = {i} /\ p.members[i].kind = "string"
    <3>1. /\ i \in Occurrences(p, "model") /\ decode(p, "model") \cap DOMAIN Rules # {}
          /\ q.members[i] = [p.members[i] EXCEPT !.text = Rules[p.members[i].text]]
      BY <2>1, <2>2, <2>5
    <3>2. PICK k \in DOMAIN p.members :
              /\ Occurrences(p, "model") = {k} /\ p.members[k].name = "model" /\ p.members[k].kind = "string"
              /\ decode(p, "model") = {p.members[k].text}
      BY <3>1, DecodedIsOnly
    <3>3. i = k  BY <3>1, <3>2
    <3>4. QED  BY <2>4, <3>1, <3>2, <3>3
  <2>6. QED  BY <2>1, <2>5 DEF DiffersInModel
<1>3. q = p \/ q = [p EXCEPT !.members = ms]  BY DEF Rewritten, rewrite
<1>4. QED  BY <1>1, <1>2, <1>3

(* The meter reads the one model there is, as encoding/json decodes it.    *)
LEMMA MeterReadsTheModel ==
    ASSUME NEW p, IsFiniteSet(DOMAIN p.members)
    PROVE  /\ requestedModelFrom(p) # Unread =>
                 \E i \in DOMAIN p.members :
                    /\ Occurrences(p, "model") = {i} /\ p.members[i].kind # "other"
                    /\ requestedModelFrom(p) = unmarshal(p.members[i])
           /\ decode(p, "model") # {} /\ p.object => requestedModelFrom(p) \in decode(p, "model")
<1> DEFINE texts == {unmarshal(p.members[i]) : i \in {j \in Occurrences(p, "model") : p.members[j].kind # "other"}}
<1>1. texts # {} => (CHOOSE t \in texts : TRUE) \in texts  OBVIOUS
<1>2. ASSUME requestedModelFrom(p) # Unread
      PROVE  \E i \in DOMAIN p.members :
                    /\ Occurrences(p, "model") = {i} /\ p.members[i].kind # "other"
                    /\ requestedModelFrom(p) = unmarshal(p.members[i])
  <2>1. /\ texts # {} /\ requestedModelFrom(p) = CHOOSE t \in texts : TRUE
        /\ Cardinality(Occurrences(p, "model")) = 1
    BY <1>2 DEF requestedModelFrom
  <2>2. requestedModelFrom(p) \in texts  BY <1>1, <2>1
  <2>3. PICK i \in DOMAIN p.members : Occurrences(p, "model") = {i}  BY <2>1, OneOccurrence
  <2>4. QED  BY <2>2, <2>3
<1>3. ASSUME decode(p, "model") # {}, p.object
      PROVE  requestedModelFrom(p) \in decode(p, "model")
  <2>1. PICK i \in DOMAIN p.members :
            /\ Occurrences(p, "model") = {i} /\ p.members[i].kind = "string" /\ decode(p, "model") = {p.members[i].text}
    BY <1>3, DecodedIsOnly
  <2>2. texts = {p.members[i].text}  BY <2>1 DEF unmarshal
  <2>3. Cardinality(Occurrences(p, "model")) = 1  BY <1>3 DEF decode
  <2>4. requestedModelFrom(p) = CHOOSE t \in texts : TRUE  BY <1>3, <2>2, <2>3 DEF requestedModelFrom
  <2>5. QED  BY <1>1, <2>1, <2>2, <2>4
<1>4. QED  BY <1>2, <1>3

(* The headers that go upstream, for any that the client sends.            *)
LEMMA HeadersAreOwn ==
    ASSUME NEW h, h = authenticatedOutboundHeaders
    PROVE  /\ DOMAIN h \cap (HopByHop \cup (Inbound \ {"authorization"})) = {}
           /\ h["authorization"] = {"bearer"} /\ h["x-request-id"] = {"ours"}
           /\ \A n \in DOMAIN Credentials : h[n] = Credentials[n]
<1> DEFINE client == Without(exchange.header, HopByHop \cup Inbound)
<1>1. DOMAIN client = DOMAIN exchange.header \ (HopByHop \cup Inbound \cup Listed(exchange.header))  BY DEF Without
<1>2. /\ DOMAIN Credentials \cap (HopByHop \cup Inbound \cup Own) = {}
      /\ Own \cap HopByHop = {} /\ Own \cap Inbound = {"authorization"}
      /\ Own = {"x-request-id", "accept-encoding", "authorization"}
  BY ShimChainAssumption DEF Own
<1> HIDE DEF client
<1>3. h = [n \in DOMAIN client \cup DOMAIN Credentials \cup {"x-request-id", "accept-encoding"} \cup {"authorization"} |->
            IF n = "accept-encoding" THEN {"identity"}
            ELSE IF n = "x-request-id" THEN {"ours"}
            ELSE IF n \in DOMAIN Credentials THEN Credentials[n]
            ELSE IF n = "authorization" THEN {"bearer"} ELSE client[n]]
  BY DEF authenticatedOutboundHeaders, client
<1>4. DOMAIN h = DOMAIN client \cup DOMAIN Credentials \cup Own  BY <1>2, <1>3
<1>5. DOMAIN h \cap (HopByHop \cup (Inbound \ {"authorization"})) = {}  BY <1>1, <1>2, <1>4
<1>6. "authorization" \notin DOMAIN Credentials /\ \A n \in DOMAIN Credentials : n # "accept-encoding" /\ n # "x-request-id"
  BY <1>2
<1>7. h["authorization"] = {"bearer"} /\ h["x-request-id"] = {"ours"}  BY <1>3, <1>6
<1>8. \A n \in DOMAIN Credentials : h[n] = Credentials[n]  BY <1>3, <1>6
<1>9. QED  BY <1>5, <1>7, <1>8

-----------------------------------------------------------------------------
(* The steps of the payload.                                               *)
LEMMA PastNext ==
    ASSUME chain \subseteq Shims, at \in Nat, at' = at + 1, UNCHANGED chain, NEW name
    PROVE  Past(name)' <=> Past(name) \/ Named(at, name)
<1>1. \A i \in chain : i < at + 1 <=> i < at \/ i = at  BY Positions
<1>2. QED  BY <1>1 DEF Past, Named

LEMMA PayloadStays ==
    ASSUME PayloadInv, UNCHANGED <<exchange, payload>>, hook' \notin {"new", "request", "client", "called"}
    PROVE  PayloadInv'
BY DEF PayloadInv

LEMMA PayloadInit == ChainInit => PayloadInv
BY DEF ChainInit, PayloadInv, Rewritten

LEMMA PayloadNewChain == OnionInv /\ PayloadInv /\ NewChain => PayloadInv'
<1> SUFFICES ASSUME OnionInv, PayloadInv, NewChain PROVE PayloadInv'  OBVIOUS
<1>1. hook = "new" /\ chain' \subseteq Shims /\ UNCHANGED <<exchange, payload, requested>>  BY DEF NewChain
<1>2. payload = exchange.payload /\ requested = Unread  BY <1>1 DEF PayloadInv
<1>3. CASE hook' = "session"  BY <1>1, <1>3, PayloadStays
<1>4. CASE hook' = "request" /\ at' = 1
  <2>1. \A name : ~Past(name)'  BY <1>1, <1>4, Positions DEF Past, Named
  <2>2. QED  BY <1>1, <1>2, <1>4, <2>1 DEF PayloadInv
<1>5. QED  BY <1>3, <1>4 DEF NewChain

LEMMA PayloadRunRequest == OnionInv /\ PayloadInv /\ RunRequest => PayloadInv'
<1> SUFFICES ASSUME OnionInv, PayloadInv, RunRequest PROVE PayloadInv'  OBVIOUS
<1>1. CASE Fail  BY <1>1, PayloadStays DEF Fail, requestVars
<1>2. CASE /\ at' = at + 1
           /\ payload' = IF Named(at, "model-override") THEN rewrite(payload, FALSE) ELSE payload
           /\ requested' = IF Named(at, "usage-meter") THEN requestedModelFrom(payload) ELSE requested
           /\ UNCHANGED <<hook, exchange, config, chain, sent, answerVars>>
  <2>1. hook = "request" /\ hook' = "request" /\ chain \subseteq Shims /\ at \in Nat
    BY <1>2, Positions DEF RunRequest, OnionInv, ChainTypeOK
  <2>2. \A name : Past(name)' <=> Past(name) \/ Named(at, name)  BY <1>2, <2>1, PastNext
  <2>3. requested = IF Past("usage-meter") THEN requestedModelFrom(payload) ELSE Unread
    BY <2>1 DEF PayloadInv
  <2>4. CASE Named(at, "model-override")
    <3>1. ~Past("model-override") /\ ~Past("usage-meter") /\ ~Named(at, "usage-meter")
      <4>1. at \in Shims  BY <2>1, <2>4 DEF Named
      <4>2. ASSUME NEW i \in chain, i < at PROVE ~Named(i, "model-override") /\ ~Named(i, "usage-meter")
        <5>1. i \in Shims /\ i # at /\ ~(at < i)  BY <2>1, <4>2, Positions
        <5>2. QED  BY <2>4, <4>1, <5>1, ShimChainAssumption DEF Named
      <4>3. ~Named(at, "usage-meter")
        <5>1. "model-override" # "usage-meter"  OBVIOUS
        <5>2. QED  BY <2>4, <5>1 DEF Named
      <4>4. QED  BY <4>2, <4>3 DEF Past
    <3>2. payload = exchange.payload  BY <2>1, <3>1 DEF PayloadInv
    <3>3. payload' = rewrite(exchange.payload, FALSE)  BY <1>2, <2>4, <3>2
    <3>4. requested' = Unread  BY <1>2, <2>3, <3>1
    <3>5. /\ ~Past("usage-meter")' /\ Past("model-override")'  BY <2>2, <2>4, <3>1
    <3>6. Rewritten(payload', exchange'.payload)
      BY <1>2, <3>3 DEF Rewritten
    <3>7. QED  BY <2>1, <3>4, <3>5, <3>6 DEF PayloadInv
  <2>5. CASE ~Named(at, "model-override")
    <3>1. payload' = payload /\ exchange' = exchange  BY <1>2, <2>5
    <3>2. /\ Rewritten(payload, exchange.payload)
          /\ ~Past("model-override") => payload = exchange.payload
      BY <2>1 DEF PayloadInv
    <3>3. requestedModelFrom(payload)' = requestedModelFrom(payload)  BY <3>1
    <3>4. requested' = IF Past("usage-meter")' THEN requestedModelFrom(payload)' ELSE Unread
      BY <1>2, <2>2, <2>3, <3>3
    <3>5. Rewritten(payload', exchange'.payload)
      BY <3>1, <3>2
    <3>6. ~Past("model-override")' => payload' = exchange'.payload  BY <2>2, <3>1, <3>2
    <3>7. QED  BY <2>1, <3>4, <3>5, <3>6 DEF PayloadInv
  <2>6. QED  BY <2>4, <2>5
<1>3. QED  BY <1>1, <1>2 DEF RunRequest

LEMMA PayloadCallUpstream == OnionInv /\ PayloadInv /\ CallUpstream => PayloadInv'
<1> SUFFICES ASSUME OnionInv, PayloadInv, CallUpstream PROVE PayloadInv'  OBVIOUS
<1>1. /\ hook = "request" /\ at = Peer /\ hook' = "called" /\ sent' = authenticatedOutboundHeaders
      /\ UNCHANGED <<exchange, chain, payload, requested>> /\ chain \subseteq Shims
  BY DEF CallUpstream, OnionInv, ChainTypeOK
<1>2. Past("usage-meter") <=> \E i \in chain : Named(i, "usage-meter")
  BY <1>1, Positions DEF Past
<1>3. requested' = IF \E i \in chain' : Named(i, "usage-meter")' THEN requestedModelFrom(payload)' ELSE Unread
  BY <1>1, <1>2 DEF PayloadInv, Named
<1>4. sent' = authenticatedOutboundHeaders'
  BY <1>1 DEF authenticatedOutboundHeaders, Without, Listed
<1>5. Rewritten(payload', exchange'.payload)
  BY <1>1 DEF PayloadInv
<1>6. QED  BY <1>1, <1>3, <1>4, <1>5 DEF PayloadInv

LEMMA PayloadMessages == OnionInv /\ PayloadInv /\ (ClientMessage \/ MessageHook) => PayloadInv'
<1> SUFFICES ASSUME OnionInv, PayloadInv, ClientMessage \/ MessageHook PROVE PayloadInv'  OBVIOUS
<1>1. CASE ClientMessage
  <2>1. hook' = "client" /\ payload' = exchange.payload /\ exchange' = exchange
    BY <1>1 DEF ClientMessage, MessageComes
  <2>2. QED  BY <2>1 DEF PayloadInv, Rewritten
<1>2. CASE MessageHook /\ hook = "server"
  <2>1. hook' \in {"server", "session"} /\ UNCHANGED <<exchange, payload>>  BY <1>2 DEF MessageHook
  <2>2. QED  BY <2>1, PayloadStays
<1>3. CASE MessageHook /\ hook = "client"
  <2>1. /\ at' = at + 1 /\ hook' \in {"client", "session"} /\ UNCHANGED <<exchange, chain>>
        /\ payload' = IF Named(at, "model-override") THEN rewrite(payload, TRUE) ELSE payload
    BY <1>3 DEF MessageHook
  <2>2. chain \subseteq Shims /\ at \in Nat  BY Positions DEF OnionInv, ChainTypeOK
  <2>3. Past("model-override")' <=> Past("model-override") \/ Named(at, "model-override")  BY <2>1, <2>2, PastNext
  <2>4. /\ Rewritten(payload, exchange.payload)
        /\ ~Past("model-override") => payload = exchange.payload
    BY <1>3 DEF PayloadInv
  <2>5. CASE Named(at, "model-override")
    <3>1. ~Past("model-override")
      <4>1. ASSUME NEW i \in chain, i < at PROVE ~Named(i, "model-override")
        <5>1. i \in Shims /\ at \in Shims /\ i # at  BY <2>2, <2>5, <4>1, Positions DEF Named
        <5>2. QED  BY <2>5, <5>1, ShimChainAssumption DEF Named
      <4>2. QED  BY <4>1 DEF Past
    <3>2. payload' = rewrite(exchange.payload, TRUE)  BY <2>1, <2>4, <2>5, <3>1
    <3>3. Rewritten(payload', exchange'.payload)
      BY <2>1, <3>2 DEF Rewritten
    <3>4. QED  BY <2>1, <2>3, <2>5, <3>3 DEF PayloadInv
  <2>6. CASE ~Named(at, "model-override")
    <3>1. payload' = payload  BY <2>1, <2>6
    <3>2. Rewritten(payload', exchange'.payload)
      BY <2>1, <2>4, <3>1
    <3>3. QED  BY <2>1, <2>3, <2>4, <3>1, <3>2 DEF PayloadInv
  <2>7. QED  BY <2>5, <2>6
<1>4. QED  BY <1>1, <1>2, <1>3 DEF MessageHook

LEMMA PayloadStep == OnionInv /\ PayloadInv /\ [ChainNext]_chainVars => PayloadInv'
<1> SUFFICES ASSUME OnionInv, PayloadInv, [ChainNext]_chainVars PROVE PayloadInv'  OBVIOUS
<1>1. CASE NewChain \/ RunRequest \/ CallUpstream \/ ClientMessage \/ MessageHook
  BY <1>1, PayloadNewChain, PayloadRunRequest, PayloadCallUpstream, PayloadMessages
<1>2. CASE Answered \/ RunPrelude \/ Commit \/ RunBuffered
  <2>1. UNCHANGED <<exchange, payload>> /\ hook' \in {"prelude", "failed", "stream", "buffered", "done"}
    BY <1>2 DEF Answered, RunPrelude, Commit, RunBuffered, Fail, requestVars
  <2>2. QED  BY <2>1, PayloadStays
<1>3. CASE FrameComes \/ TransformEvent \/ EventWritten \/ WholeWritten \/ UpstreamEnds \/ FinalizeShim \/ Finalized
  <2>1. UNCHANGED <<exchange, payload>> /\ hook' \in {"event", "stream", "done", "finalize"}
    BY <1>3 DEF FrameComes, TransformEvent, EventWritten, WholeWritten, UpstreamEnds, FinalizeShim, Finalizes,
                Finalized, WriteOut, requestVars
  <2>2. QED  BY <2>1, PayloadStays
<1>4. CASE ServerMessage \/ MessageWritten
  <2>1. UNCHANGED <<exchange, payload>> /\ hook' \in {"server", "session"}
    BY <1>4 DEF ServerMessage, MessageComes, MessageWritten, WriteOut, requestVars
  <2>2. QED  BY <2>1, PayloadStays
<1>5. CASE UNCHANGED chainVars
  <2>1. UNCHANGED <<exchange, chain, hook, at, payload, requested, sent>>
    BY <1>5 DEF chainVars, requestVars
  <2>2. QED
    BY <2>1 DEF PayloadInv, Past, Named, authenticatedOutboundHeaders, Without, Listed
<1>6. QED  BY <1>1, <1>2, <1>3, <1>4, <1>5 DEF ChainNext

(* What goes upstream is the client's request but for the one model that a *)
(* rule names (model_override.go), copilotd's identity whole               *)
(* (header_policy.go), and a model that the meter tells of is the one that *)
(* went, or the replacement of one that no rule rewrote and that decodes   *)
(* with replacement only: for any registry whose override is outside its   *)
(* meter, any rules, payloads, replacements and headers.                   *)
THEOREM RequestStaysAttributed == ChainSpec => []SentIsAttributed
<1>1. ASSUME OnionInv, PayloadInv PROVE SentIsAttributed
  <2> DEFINE p == exchange.payload
  <2>1. p \in AnyPayload /\ IsFiniteSet(DOMAIN p.members)
    BY <1>1, PayloadMembers DEF OnionInv, ChainTypeOK
  <2>2. Rewritten(payload, p)  BY <1>1 DEF PayloadInv, Rewritten
  <2> HIDE DEF p
  <2>3. DiffersInModel(payload, p)  BY <2>1, <2>2, RewritesOneModel
  <2>4. OneModelReplaced  BY <2>3 DEF DiffersInModel, OneModelReplaced, p
  <2>5. ASSUME hook = "called" PROVE OwnIdentity /\ MeterTellsTheModel
    <3>1. sent = authenticatedOutboundHeaders  BY <1>1, <2>5 DEF PayloadInv
    <3>2. OwnIdentity  BY <3>1, HeadersAreOwn DEF OwnIdentity
    <3>3. IsFiniteSet(DOMAIN payload.members)  BY <2>1, <2>3 DEF DiffersInModel
    <3>4. requested = IF \E i \in chain : Named(i, "usage-meter") THEN requestedModelFrom(payload) ELSE Unread
      BY <1>1, <2>5 DEF PayloadInv
    <3>5. ASSUME NEW i \in DOMAIN payload.members
          PROVE  \/ payload.members[i].kind = "string"
                 \/ /\ payload.members[i] = exchange.payload.members[i]
                    /\ payload.members[i].kind \in {"string", "lossy", "other"}
      <4>1. i \in DOMAIN p.members  BY <2>3 DEF DiffersInModel
      <4>2. p.members[i] \in [name : STRING, kind : {"string", "lossy", "other"}, text : STRING]
        <5> DEFINE R == [name : STRING, kind : {"string", "lossy", "other"}, text : STRING]
        <5>1. PICK s : s = p.members  OBVIOUS
        <5>2. s \in Seq(R)  BY <2>1, <5>1 DEF AnyPayload
        <5> HIDE DEF R
        <5>3. \A k \in DOMAIN s : s[k] \in R  BY <5>2
        <5>4. QED  BY <4>1, <5>1, <5>3 DEF R
      <4>3. CASE payload.members[i] = p.members[i]  BY <4>2, <4>3 DEF p
      <4>4. CASE payload.members[i] # p.members[i]
        <5>1. /\ payload.members[i] = [p.members[i] EXCEPT !.text = Rules[p.members[i].text]]
              /\ p.members[i].kind = "string"
          BY <2>3, <4>1, <4>4 DEF DiffersInModel
        <5>2. payload.members[i].kind = p.members[i].kind  BY <4>2, <5>1
        <5>3. QED  BY <5>1, <5>2
      <4>5. QED  BY <4>3, <4>4
    <3>6. ASSUME requested # Unread
          PROVE  \E i \in DOMAIN payload.members :
                    /\ Occurrences(payload, "model") = {i}
                    /\ CASE payload.members[i].kind = "string" -> requested = payload.members[i].text
                         [] payload.members[i].kind = "lossy" -> /\ requested = Replaced[payload.members[i].text]
                                                                 /\ payload.members[i] = exchange.payload.members[i]
                         [] OTHER -> FALSE
      <4>1. requested = requestedModelFrom(payload)  BY <3>4, <3>6
      <4>2. PICK i \in DOMAIN payload.members :
                /\ Occurrences(payload, "model") = {i} /\ payload.members[i].kind # "other"
                /\ requested = unmarshal(payload.members[i])
        BY <3>3, <3>6, <4>1, MeterReadsTheModel
      <4>3. CASE payload.members[i].kind = "string"  BY <4>2, <4>3 DEF unmarshal
      <4>4. CASE payload.members[i].kind # "string"
        <5>1. payload.members[i].kind = "lossy" /\ payload.members[i] = exchange.payload.members[i]
          BY <3>5, <4>2, <4>4
        <5>2. requested = Replaced[payload.members[i].text]  BY <4>2, <5>1 DEF unmarshal
        <5>3. QED  BY <4>2, <5>1, <5>2
      <4>5. QED  BY <4>3, <4>4
    <3>7. decode(payload, "model") # {} /\ payload.object /\ (\E i \in chain : Named(i, "usage-meter")) =>
             requested \in decode(payload, "model")
      BY <3>3, <3>4, MeterReadsTheModel
    <3>8. MeterTellsTheModel  BY <3>6, <3>7 DEF MeterTellsTheModel
    <3>9. QED  BY <3>2, <3>8
  <2>6. QED  BY <2>4, <2>5 DEF SentIsAttributed
<1>2. OnionInv /\ PayloadInv => SentIsAttributed  BY <1>1
<1>3. QED  BY <1>2, InitInv, OnionStep, PayloadInit, PayloadStep, PTL DEF ChainSpec
=============================================================================
