------------------------------ MODULE ItemIDs -------------------------------
(***************************************************************************)
(* The item-id stabilizer of internal/shim/responses_item_id.go: upstream  *)
(* gives one item of a Responses stream a new id with every event, and the *)
(* shim pins the first id of each output_index and rewrites later ones to  *)
(* it, until the turn ends.  On a WebSocket one shim sees many turns.      *)
(*                                                                         *)
(* An event is kept to the ids it carries: a per-item event on two         *)
(* surfaces, item.id and item_id, a snapshot in its output array, where    *)
(* the position is the output_index.  Events come in any order and carry   *)
(* any ids, within the design's premise that a turn ends with a terminal   *)
(* event the shim can read.                                                *)
(***************************************************************************)
EXTENDS Naturals

CONSTANTS
    Indices,    \* output_index
    Ids         \* the ids upstream makes up

Nothing == "nothing"

Surface == Ids \cup {Nothing}

(* What the shim can make out, and what it cannot: a payload that is not   *)
(* an object or has a type that is not a string (opaque), or one whose     *)
(* index, item or ids are malformed (not certain).                         *)
ItemEvents == [kind : {"item"}, terminal : BOOLEAN, certain : BOOLEAN,
               index : Indices, item : Surface, item_id : Surface]
Envelopes  == [kind : {"envelope"}, terminal : BOOLEAN, certain : BOOLEAN, output : [Indices -> Surface]]
Opaque     == [kind : {"opaque"}, terminal : {FALSE}, certain : {FALSE}]
Events     == ItemEvents \cup Envelopes \cup Opaque

VARIABLES
    pinnedByOutputIndex,
    out,        \* the event as the client gets it
    said,       \* the id under which the client knows each item of the turn
    sent,       \* the ids that upstream has given each item of the turn
    ended       \* out was the last event of its turn

vars == <<pinnedByOutputIndex, out, said, sent, ended>>

NoIds == [i \in Indices |-> Nothing]

Init ==
    /\ pinnedByOutputIndex = NoIds
    /\ out \in Opaque
    /\ said = NoIds /\ sent = [i \in Indices |-> {}] /\ ended = FALSE

(* What one surface of item i becomes.                                     *)
Stabilized(id, i) ==
    IF id = Nothing \/ pinnedByOutputIndex[i] = Nothing THEN id ELSE pinnedByOutputIndex[i]

rewritePerItem(e) ==
    [e EXCEPT !.item = Stabilized(e.item, e.index), !.item_id = Stabilized(e.item_id, e.index)]

rewriteEnvelope(e) == [e EXCEPT !.output = [i \in Indices |-> Stabilized(e.output[i], i)]]

rewrite(e) ==
    IF ~e.certain THEN e ELSE IF e.kind = "item" THEN rewritePerItem(e) ELSE rewriteEnvelope(e)

FirstSurface(e) == IF e.item # Nothing THEN e.item ELSE e.item_id

(* The first per-item event of an index pins its id; no snapshot pins.     *)
Pinned(e) ==
    IF e.certain /\ e.kind = "item" /\ pinnedByOutputIndex[e.index] = Nothing
    THEN [pinnedByOutputIndex EXCEPT ![e.index] = FirstSurface(e)]
    ELSE pinnedByOutputIndex

TurnReset(e) == IF e.terminal THEN NoIds ELSE Pinned(e)

IdsAt(e, i) ==
    (IF e.kind = "item" THEN (IF e.index = i THEN {e.item, e.item_id} ELSE {})
     ELSE IF e.kind = "envelope" THEN {e.output[i]} ELSE {}) \ {Nothing}

(* Mutant: the turn is reset before its last snapshot is rewritten.        *)
SnapshotAfterReset(e) ==
    /\ out' = IF e.terminal THEN e ELSE rewrite(e)
    /\ pinnedByOutputIndex' = TurnReset(e)

Transform(e) ==
    /\ out' = rewrite(e)
    /\ pinnedByOutputIndex' = TurnReset(e)

Said == IF ended THEN NoIds ELSE said
Sent == IF ended THEN [i \in Indices |-> {}] ELSE sent

(* TransformEvent or TransformServerMessage, and what becomes known.       *)
Receive(e) ==
    /\ Transform(e)
    /\ said' = IF e.certain /\ e.kind = "item" /\ Said[e.index] = Nothing
               THEN [Said EXCEPT ![e.index] = FirstSurface(out')] ELSE Said
    /\ sent' = [i \in Indices |-> Sent[i] \cup IdsAt(e, i)]
    /\ ended' = e.terminal

Next == \E e \in Events : Receive(e)

Spec == Init /\ [][Next]_vars

-----------------------------------------------------------------------------
TypeOK ==
    /\ pinnedByOutputIndex \in [Indices -> Surface] /\ out \in Events
    /\ said \in [Indices -> Surface] /\ sent \in [Indices -> SUBSET Ids] /\ ended \in BOOLEAN

(* Once the client knows an item under an id, every event of the turn that *)
(* the shim could read names it by that id, the terminal snapshot included *)
(* (responses_item_id.go, rewrite; the promise id-keyed clients rely on).  *)
Stays == out'.certain => \A i \in Indices : Said[i] # Nothing => IdsAt(out', i) \subseteq {Said[i]}
StableIds == [][Stays]_vars

(* No id reaches the client that upstream has not given the same item in   *)
(* the same turn (ADR-0011, "only a genuine first-seen upstream id is ever *)
(* reused").                                                               *)
GenuineIds == \A i \in Indices : IdsAt(out, i) \subseteq sent[i]

(* An item has one id for the client, and one that upstream gave it.       *)
IdsArePinned == StableIds /\ []GenuineIds
=============================================================================
