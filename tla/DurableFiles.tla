---------------------------- MODULE DurableFiles ----------------------------
(* What outlives a process, one at a time: the usage database, or the      *)
(* token file that logins replace.                                         *)
EXTENDS UsageDatabase

CONSTANTS Logins, NamedIntervals, MaxInterval

(* A login is named by its token, and no token is what an old file or an   *)
(* empty one is called.                                                    *)
ASSUME NamesAreTokens == Logins \cap {"none", "old", "blank"} = {}

VARIABLES subject, step, interval, granted, confirmed, temporary, tokenFile, serve, resolved

fileVars == <<step, interval, granted, confirmed, temporary, tokenFile, serve, resolved>>

TokenFile == INSTANCE Login

FilesInit ==
    /\ subject \in {"database", "login"}
    /\ TokenFile!Init /\ (subject = "database" => tokenFile = TokenFile!NoFile /\ serve = "starting")
    /\ Init /\ (subject = "login" => parent = "open" /\ file = "open" /\ holder = Nobody
                                      /\ database.version = 0)

FilesNext ==
    \/ subject = "database" /\ Next /\ UNCHANGED <<subject, fileVars>>
    \/ subject = "login" /\ TokenFile!Next /\ UNCHANGED <<subject, databaseVars>>

FilesSpec ==
    /\ FilesInit /\ [][FilesNext]_<<subject, databaseVars, fileVars>>
    /\ subject = "database" => Fairness

(* The login's property, under the name it has there.                      *)
TokenFileIsWhole == TokenFile!TokenFileIsWhole
=============================================================================
