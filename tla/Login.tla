-------------------------------- MODULE Login --------------------------------
(***************************************************************************)
(* copilotd login (internal/identity/deviceflow.go): the device flow, the  *)
(* confirmation of the user, and the token file that WriteTokenFile        *)
(* replaces (tokenfile.go), while serve resolves the token from that file. *)
(* Several logins may run at once; each may be cut anywhere.               *)
(*                                                                         *)
(* GitHub is external: its answers are the ones the code tells apart.      *)
(* Waits are in units of slowDownIncrement, and a file is its contents and *)
(* whether others may read it.                                             *)
(***************************************************************************)
EXTENDS Naturals, FiniteSets

CONSTANTS
    Logins,
    NamedIntervals,     \* the intervals that GitHub may name, in its answers
    MaxInterval         \* bound: no slow_down past it

minPollInterval == 1
slowDownIncrement == 1

NoFile == [token |-> "none", private |-> TRUE]
Half == "half"          \* a prefix of a token

VARIABLES
    step, interval,     \* each login, and its wait between polls
    granted, confirmed, \* the logins with a token, and with its user's name
    temporary,          \* the temporary file of each
    tokenFile,
    serve, resolved     \* ResolveOAuthToken, and the token it returns

loginVars == <<step, interval, granted, confirmed, temporary, tokenFile, serve, resolved>>

Init ==
    /\ step = [l \in Logins |-> "requesting"] /\ interval = [l \in Logins |-> 0]
    /\ granted = {} /\ confirmed = {}
    /\ temporary = [l \in Logins |-> NoFile]
    /\ tokenFile \in {NoFile} \cup [token : {"old", "blank"}, private : BOOLEAN]
    /\ serve \in {"starting", "inline"} /\ resolved = "none"

Larger(a, b) == IF a < b THEN b ELSE a
FlowOnly == UNCHANGED <<temporary, tokenFile, serve, resolved>>
At(l, from, to) == step[l] = from /\ step' = [step EXCEPT ![l] = to]

-----------------------------------------------------------------------------
(* The device flow.                                                        *)

requestDeviceCode(l) ==
    /\ At(l, "requesting", "waiting")
    /\ \E named \in NamedIntervals : interval' = [interval EXCEPT ![l] = Larger(named, minPollInterval)]
    /\ UNCHANGED <<granted, confirmed>> /\ FlowOnly

(* The wait is over.                                                       *)
Sleep(l) ==
    /\ At(l, "waiting", "polling")
    /\ UNCHANGED <<interval, granted, confirmed>> /\ FlowOnly

(* The answers that are not the end.                                       *)
Pending(l) ==
    /\ At(l, "polling", "waiting")
    /\ UNCHANGED <<interval, granted, confirmed>> /\ FlowOnly

SlowDown(l) ==
    /\ At(l, "polling", "waiting")
    /\ \E named \in NamedIntervals :
           interval' = [interval EXCEPT ![l] = Larger(@ + slowDownIncrement, named)]
    /\ interval'[l] <= MaxInterval
    /\ UNCHANGED <<granted, confirmed>> /\ FlowOnly

TokenGranted(l) ==
    /\ At(l, "polling", "confirming")
    /\ granted' = granted \cup {l}
    /\ UNCHANGED <<interval, confirmed>> /\ FlowOnly

fetchUsername(l) ==
    /\ At(l, "confirming", "writing")
    /\ confirmed' = confirmed \cup {l}
    /\ UNCHANGED <<interval, granted>> /\ FlowOnly

(* A request that fails, an answer that is none of these, or a denied,     *)
(* expired or cancelled flow.                                              *)
FlowFails(l) ==
    /\ step[l] \in {"requesting", "waiting", "polling", "confirming", "writing"}
    /\ At(l, step[l], "failed")
    /\ UNCHANGED <<interval, granted, confirmed>> /\ FlowOnly

-----------------------------------------------------------------------------
(* WriteTokenFile.                                                         *)

WriteOnly == UNCHANGED <<interval, granted, confirmed, serve, resolved>>

CreateTemp(l) ==
    /\ At(l, "writing", "created")
    /\ temporary' = [temporary EXCEPT ![l] = [token |-> "empty", private |-> TRUE]]
    /\ UNCHANGED tokenFile /\ WriteOnly

(* WriteString, which a crash or a full disk may cut; Close; Rename.       *)
WriteSome(l) ==
    /\ At(l, "created", "half written")
    /\ temporary' = [temporary EXCEPT ![l].token = Half]
    /\ UNCHANGED tokenFile /\ WriteOnly

WriteRest(l) ==
    /\ At(l, "half written", "written")
    /\ temporary' = [temporary EXCEPT ![l].token = l]
    /\ UNCHANGED tokenFile /\ WriteOnly

(* Mutant: a short write is taken for a whole one.                         *)
RenameShort(l) ==
    /\ step[l] \in {"half written", "written"} /\ At(l, step[l], "done")
    /\ tokenFile' = temporary[l]
    /\ temporary' = [temporary EXCEPT ![l] = NoFile]
    /\ WriteOnly

Rename(l) ==
    /\ At(l, "written", "done")
    /\ tokenFile' = temporary[l]
    /\ temporary' = [temporary EXCEPT ![l] = NoFile]
    /\ WriteOnly

(* The deferred Remove, on every error path.                               *)
WriteFails(l) ==
    /\ step[l] \in {"created", "half written", "written"} /\ At(l, step[l], "failed")
    /\ temporary' = [temporary EXCEPT ![l] = NoFile]
    /\ UNCHANGED tokenFile /\ WriteOnly

(* The process dies and leaves its files as they are.                      *)
Cut(l) ==
    /\ step[l] \notin {"done", "failed"} /\ At(l, step[l], "cut")
    /\ UNCHANGED <<temporary, tokenFile>> /\ WriteOnly

-----------------------------------------------------------------------------
(* ResolveOAuthToken, in a daemon that starts: Stat, then ReadFile.        *)

ServeOnly == UNCHANGED <<step, interval, granted, confirmed, temporary, tokenFile>>

ResolveInline ==
    /\ serve = "inline" /\ serve' = "resolved" /\ resolved' = "inline" /\ ServeOnly

StatTokenFile ==
    /\ serve = "starting"
    /\ serve' = CASE tokenFile = NoFile -> "no token"
                  [] tokenFile # NoFile /\ ~tokenFile.private -> "refused"
                  [] OTHER -> "reading"
    /\ UNCHANGED resolved /\ ServeOnly

(* What is only white space counts as absent; a file that cannot be read   *)
(* is refused.                                                             *)
ReadTokenFile ==
    /\ serve = "reading"
    /\ \/ tokenFile.token = "blank" /\ serve' = "no token" /\ UNCHANGED resolved
       \/ tokenFile.token # "blank" /\ serve' = "resolved" /\ resolved' = tokenFile.token
       \/ serve' = "refused" /\ UNCHANGED resolved
    /\ ServeOnly

-----------------------------------------------------------------------------
Next ==
    \/ \E l \in Logins :
         \/ requestDeviceCode(l) \/ Sleep(l) \/ Pending(l) \/ SlowDown(l)
         \/ TokenGranted(l) \/ fetchUsername(l) \/ FlowFails(l)
         \/ CreateTemp(l) \/ WriteSome(l) \/ WriteRest(l) \/ Rename(l) \/ WriteFails(l)
         \/ Cut(l)
    \/ ResolveInline \/ StatTokenFile \/ ReadTokenFile

Spec == Init /\ [][Next]_loginVars

(* Wherever a login is cut, the token file is what it was or a whole token *)
(* of a confirmed user, readable by its owner alone; and so is any token   *)
(* that a daemon gets while it is replaced (the comment on WriteTokenFile).*)
TokenFileIsWhole ==
    /\ tokenFile.token \in {"none", "old", "blank"} \cup confirmed
    /\ tokenFile.token \in confirmed => tokenFile.private
    /\ resolved \in {"none", "inline", "old"} \cup confirmed
=============================================================================
