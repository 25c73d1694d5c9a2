---------------------------- MODULE ModelMatch ------------------------------
(***************************************************************************)
(* From a reported model to a priced identity (internal/usage/modelmatch): *)
(* three indexes filled candidate by candidate within a budget of keys,    *)
(* and the policies that are tried on them, strongest first.               *)
(*                                                                         *)
(* A name is a stem, whether it is spelled otherwise than its normal form, *)
(* and the suffixes after it: "fast" or one of Dates.                      *)
(***************************************************************************)
EXTENDS Integers, Sequences, FiniteSets

CONSTANTS
    Candidates,         \* the identities of a price list, as sets
    ReportedModels,     \* the reported models: a provider or NoScope, and a name
    Dates,
    NoScope,            \* no provider/ prefix
    Budgets             \* the keys there is room for

(* Names of three suffixes and more are left out.                          *)
IsName(name) ==
    /\ name = [stem |-> name.stem, respelled |-> name.respelled, tail |-> name.tail]
    /\ name.respelled \in BOOLEAN
    /\ name.tail \in Seq({"fast"} \cup Dates) /\ Len(name.tail) <= 2

ASSUME ModelMatchAssumption ==
    /\ "fast" \notin Dates
    /\ \A cs \in Candidates : IsFiniteSet(cs) /\ \A c \in cs :
          c = [provider |-> c.provider, name |-> c.name] /\ IsName(c.name)
    /\ \A r \in ReportedModels :
          r = [provider |-> r.provider, name |-> r.name] /\ IsName(r.name)

VARIABLES
    listing,            \* "indexing", "indexed", "full" or "resolved"
    left,               \* the candidates not yet indexed
    listed,             \* those that are
    exact, normalized, datedNormalized, \* the indexes: of a key, a selection
    retained, budget,
    reported, resolution

matchVars == <<listing, left, listed, exact, normalized, datedNormalized, retained, budget,
               reported, resolution>>

Unknown == [status |-> "unknown"]
Unasked == [status |-> "unasked"]

EndsIn(name, suffixes) == name.tail # <<>> /\ name.tail[Len(name.tail)] \in suffixes
Stripped(name) == [name EXCEPT !.tail = SubSeq(@, 1, Len(@) - 1)]

normalize(name) == [name EXCEPT !.respelled = FALSE]
isFast(name) == EndsIn(name, {"fast"})
isDated(name) == EndsIn(name, Dates)
hasDateSuffix(name) == isDated(name) \/ (isFast(name) /\ isDated(Stripped(name)))

Key(provider, name) == <<provider, name>>

MatchInit ==
    /\ left \in Candidates /\ listed = {}
    /\ listing = IF left = {} THEN "indexed" ELSE "indexing"
    /\ exact = <<>> /\ normalized = <<>> /\ datedNormalized = <<>>
    /\ retained = 0 /\ budget \in Budgets
    /\ reported = Unasked /\ resolution = Unasked

(* Mutant: the last identity to share a key has it.                        *)
LastHasIt(index, key, identity) ==
    [k \in DOMAIN index \cup {key} |->
        IF k = key THEN [identity |-> identity, ambiguous |-> FALSE] ELSE index[k]]

(* addSelection, of one key: two identities leave it ambiguous.            *)
addSelection(index, key, identity) ==
    IF key \notin DOMAIN index
    THEN [k \in DOMAIN index \cup {key} |->
              IF k = key THEN [identity |-> identity, ambiguous |-> FALSE] ELSE index[k]]
    ELSE [index EXCEPT ![key].ambiguous = @ \/ index[key].identity # identity]

(* The scoped and the unscoped key of one form of a name.                  *)
Selections(index, name, c) ==
    addSelection(addSelection(index, Key(NoScope, name), c), Key(c.provider, name), c)

Size(index) == Cardinality(DOMAIN index)

(* One turn of New's loop.                                                 *)
AddCandidate ==
    /\ listing = "indexing" /\ left # {}
    /\ \E c \in left :
         LET e == Selections(exact, c.name, c)
             n == Selections(normalized, normalize(c.name), c)
             d == IF isDated(c.name)
                  THEN Selections(datedNormalized, normalize(Stripped(c.name)), c) ELSE datedNormalized
             size == Size(e) + Size(n) + Size(d)
         IN  IF size > budget
             THEN /\ listing' = "full"
                  /\ UNCHANGED <<left, listed, exact, normalized, datedNormalized, retained>>
             ELSE /\ exact' = e /\ normalized' = n /\ datedNormalized' = d /\ retained' = size
                  /\ left' = left \ {c} /\ listed' = listed \cup {c}
                  /\ listing' = IF left = {c} THEN "indexed" ELSE "indexing"
    /\ UNCHANGED <<budget, reported, resolution>>

-----------------------------------------------------------------------------
(* Resolve.                                                                *)

Selected(s, method) ==
    IF s.ambiguous THEN [status |-> "ambiguous"]
    ELSE [status |-> "matched", identity |-> s.identity, method |-> method]

(* One name looked up in the exact and then in the normalized index.       *)
Found(provider, name) ==
    Key(provider, name) \in DOMAIN exact \/ Key(provider, normalize(name)) \in DOMAIN normalized
Lookup(provider, name) ==
    IF Key(provider, name) \in DOMAIN exact THEN exact[Key(provider, name)]
    ELSE normalized[Key(provider, normalize(name))]

(* The names tried after the reported one: without its fast suffix, and    *)
(* then without a date before that; without its date, and then without a   *)
(* fast suffix before that.                                                *)
Alternatives(name) ==
    LET bare == Stripped(name)
    IN  CASE isFast(name) -> IF isDated(bare) THEN <<bare, Stripped(bare)>> ELSE <<bare>>
          [] isDated(name) -> IF isFast(bare) THEN <<bare, Stripped(bare)>> ELSE <<bare>>
          [] OTHER -> <<>>

mergeSelections(s, t) ==
    [s EXCEPT !.ambiguous = @ \/ t.ambiguous \/ s.identity # t.identity]

(* The last policy: an undated name has the one dated identity of its stem,*)
(* with and without the fast suffix.                                       *)
Undated(name) == {name} \cup (IF isFast(name) THEN {Stripped(name)} ELSE {})

Dated(provider, name) ==
    LET keys == {Key(provider, normalize(n)) : n \in Undated(name)}
        hits == keys \cap DOMAIN datedNormalized
    IN  CASE hasDateSuffix(name) \/ hits = {} -> Unknown
          [] OTHER -> LET k == CHOOSE h \in hits : TRUE
                          l == CHOOSE h \in hits : hits = {k, h}
                      IN  Selected(mergeSelections(datedNormalized[k], datedNormalized[l]), "dated")

Resolved(provider, name) ==
    LET others == Alternatives(name)
        hits == {k \in DOMAIN others : Found(provider, others[k])}
        first == CHOOSE k \in hits : \A j \in hits : k <= j
    IN  CASE Key(provider, name) \in DOMAIN exact -> Selected(exact[Key(provider, name)], "exact")
          [] Key(provider, name) \notin DOMAIN exact /\ Found(provider, name) ->
                 Selected(Lookup(provider, name), "normalized")
          [] ~Found(provider, name) /\ hits # {} -> Selected(Lookup(provider, others[first]), "suffix")
          [] OTHER -> Dated(provider, name)

Resolve ==
    /\ listing = "indexed" /\ listing' = "resolved"
    /\ \E r \in ReportedModels :
         /\ reported' = r
         /\ resolution' = Resolved(r.provider, r.name)
    /\ UNCHANGED <<left, listed, exact, normalized, datedNormalized, retained, budget>>

MatchNext == AddCandidate \/ Resolve

MatchSpec == MatchInit /\ [][MatchNext]_matchVars

-----------------------------------------------------------------------------
SameButSpelling(m, n) == normalize(m) = normalize(n)
DateOf(name) == {name.tail[k] : k \in DOMAIN name.tail} \cap Dates
Fast(name) == \E k \in DOMAIN name.tail : name.tail[k] = "fast"

(* No model is priced as another: a match is in the provider that was      *)
(* named, has the stem, is fast only if the model says so and of a date    *)
(* only if the model says that date or none; another identity that says    *)
(* the very same thing leaves it ambiguous, and one that is spelled exactly*)
(* as reported is never passed over, in whatever order they were listed.   *)
NoModelIsPricedAsAnother ==
    listing = "resolved" =>
      LET of == {c \in listed : reported.provider \in {NoScope, c.provider}}
          spelled == {c \in of : c.name = reported.name}
      IN  /\ resolution.status = "matched" =>
               LET is == resolution.identity.name
                   says == reported.name
               IN  /\ resolution.identity \in of
                   /\ is.stem = says.stem
                   /\ Fast(is) => Fast(says)
                   /\ DateOf(says) = {} \/ DateOf(is) \subseteq DateOf(says)
                   /\ \A c \in of \ {resolution.identity} : c.name # is
                   /\ resolution.method \notin {"exact", "suffix"} =>
                        \A c \in of \ {resolution.identity} : ~SameButSpelling(c.name, is)
                   /\ resolution.method = "dated" =>
                        \A c \in of \ {resolution.identity}, n \in Undated(says) :
                            isDated(c.name) => ~SameButSpelling(Stripped(c.name), n)
          /\ spelled # {} => resolution = Selected([identity |-> CHOOSE c \in spelled : TRUE,
                                                    ambiguous |-> Cardinality(spelled) > 1], "exact")
          /\ resolution.status = "unknown" =>
               \A c \in of : ~SameButSpelling(c.name, reported.name)
=============================================================================
