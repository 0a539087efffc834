------------------------------ MODULE DataFile ------------------------------
(***************************************************************************)
(* How ControlPlaneStore puts a new data.json in place of the old one, one *)
(* system call at a time, with errors, a killed process and a power loss   *)
(* in between.  The store's RLock lets one save of the process run at a    *)
(* time; other processes (make sync, a backup command) and the operator    *)
(* read and replace the file without it.                                   *)
(*                                                                         *)
(* The content is two sections: the one a save is for (clients, say), and  *)
(* the rest, which the operator edits and a save must carry over.          *)
(***************************************************************************)
CONSTANTS
    Section,      \* values of the section that is saved
    Rest,         \* values of the rest of the file, templates included
    Resolved,     \* what a rest reads as with its environment variables
    Torn,         \* a file cut short: no longer JSON
    Nothing       \* no value

Content == [saved : Section, rest : Rest]
Bytes == Content \cup {Torn}

(* A rest outside the domain of Resolved names a variable that is not set. *)
(* The value of a variable is not itself a template.                       *)
ASSUME ResolvedAssumption ==
    /\ DOMAIN Resolved \subseteq Rest
    /\ \A r \in DOMAIN Resolved :
          Resolved[r] \in DOMAIN Resolved /\ Resolved[Resolved[r]] = Resolved[r]

ASSUME NamesAssumption == Torn \notin Content /\ Nothing \notin Bytes \cup Section

VARIABLES
    pc,        \* where _write_json_atomic is
    base,      \* the content save_clients loaded
    want,      \* the section it was given
    temp,      \* bytes of the temporary file, and of those, which are on disk
    file,      \* data.json: what is read, what is on disk, and what will be
    (* History, read by the properties only *)
    fell,      \* the rename failed and the file was written in place
    killed,    \* the process or the machine stopped
    raced,     \* the operator replaced the file in the middle of a save
    edited,    \* the rest as the operator last left it
    acked,     \* the section whose save last returned, or the operator left
    landed,    \* sections of saves cut short after their rename, since then
    stale      \* section left on disk by a save that returned unsynced

vars == <<pc, base, want, temp, file, fell, killed, raced, edited, acked, landed,
          stale>>

NoTemp == [exists |-> FALSE, read |-> Nothing, disk |-> Nothing]
(* Mutant: the rest is that of some earlier load.                          *)
New_Cached == [saved |-> want, rest |-> CHOOSE r \in Rest : TRUE]

New == [base EXCEPT !.saved = want]

Init ==
    /\ pc = "idle" /\ base = Nothing /\ want = Nothing /\ temp = NoTemp
    /\ \E c \in Content :
          /\ file = [read |-> c, disk |-> c, next |-> Nothing]
          /\ edited = c.rest
          /\ acked = c.saved
    /\ fell = FALSE /\ killed = FALSE /\ raced = FALSE
    /\ landed = {} /\ stale = {}

Goto(p) == pc' = p
Return == pc' = "idle" /\ base' = Nothing /\ want' = Nothing
(* A save that ends after its rename without returning to its caller.      *)
Unacknowledged == landed' = IF pc = "replaced" THEN landed \cup {want} ELSE landed
SameHistory == UNCHANGED <<fell, killed, raced, edited, acked, landed, stale>>

(* resolve_env_templates *)
Loaded(c) == [c EXCEPT !.rest = Resolved[c.rest]]

(* save_clients, save_subscription: load the file as it is now, with its   *)
(* templates resolved; a file that does not parse, or names a variable     *)
(* that is not set, fails the save before anything is written.             *)
Reload(s) ==
    /\ pc = "idle" /\ file.read # Torn
    /\ file.read.rest \in DOMAIN Resolved
    /\ base' = Loaded(file.read)
    /\ want' = s
    /\ Goto("loaded")
    /\ UNCHANGED <<temp, file>> /\ SameHistory

WriteTemp ==
    /\ pc = "loaded"
    /\ temp' = [exists |-> TRUE, read |-> New, disk |-> Torn]
    /\ Goto("written")
    /\ UNCHANGED <<base, want, file>> /\ SameHistory

(* Mutant: the temporary file is not flushed to disk.                      *)
FsyncTemp_Skipped ==
    /\ pc = "written"
    /\ Goto("synced")
    /\ UNCHANGED <<base, want, temp, file>> /\ SameHistory

(* Mutant: delete=True, closing the temporary file removes it.             *)
FsyncTemp_Deletes ==
    /\ pc = "written"
    /\ temp' = NoTemp
    /\ Goto("synced")
    /\ UNCHANGED <<base, want, file>> /\ SameHistory

FsyncTemp ==
    /\ pc = "written"
    /\ temp' = [temp EXCEPT !.disk = temp.read]
    /\ Goto("synced")
    /\ UNCHANGED <<base, want, file>> /\ SameHistory

(* os.replace: readers see the new file at once; the directory entry goes  *)
(* to disk later, and with it whatever the temporary file has on disk.     *)
Replace ==
    /\ pc = "synced"
    /\ file' = [file EXCEPT !.read = temp.read, !.next = temp.disk]
    /\ temp' = NoTemp
    /\ Goto("replaced")
    /\ UNCHANGED <<base, want>> /\ SameHistory

(* os.replace fails: write_text truncates the file, then fills it.         *)
ReplaceFails ==
    /\ pc = "synced"
    /\ file' = [file EXCEPT !.read = Torn, !.next = Torn]
    /\ fell' = TRUE
    /\ Goto("truncated")
    /\ UNCHANGED <<base, want, temp, killed, raced, edited, acked, landed, stale>>

WriteInPlace ==
    /\ pc = "truncated"
    /\ file' = [file EXCEPT !.read = New, !.next = New]
    /\ Goto("replaced")
    /\ UNCHANGED <<base, want, temp>> /\ SameHistory

(* Mutant: the directory is not synced, and the save returns too early.    *)
FsyncDirectory_Skipped ==
    /\ pc = "replaced"
    /\ acked' = want /\ landed' = {}
    /\ Return
    /\ UNCHANGED <<temp, file, fell, killed, raced, edited, stale>>

(* The rename is on disk, and the save returns.  A file written in place   *)
(* is not: nothing syncs its bytes; and its temporary file is forgotten.   *)
FsyncDirectory ==
    /\ pc = "replaced"
    /\ file' = IF temp.exists \/ file.next = Nothing THEN file
               ELSE [file EXCEPT !.disk = file.next, !.next = Nothing]
    /\ acked' = want /\ landed' = {} /\ stale' = {}
    /\ Return
    /\ UNCHANGED <<temp, fell, killed, raced, edited>>

(* The directory cannot be opened (os.O_DIRECTORY missing, or an OSError): *)
(* the save returns all the same, while its rename is still pending.       *)
DirectoryNotOpened ==
    /\ pc = "replaced"
    /\ acked' = want /\ landed' = {}
    /\ stale' = {c.saved : c \in {file.disk} \cap Content}
    /\ Return
    /\ UNCHANGED <<temp, file, fell, killed, raced, edited>>

(* Mutant: an error leaves the temporary file behind.                      *)
Error_KeepsTemp ==
    /\ pc \in {"loaded", "written", "truncated", "replaced"}
    /\ Return
    /\ Unacknowledged
    /\ UNCHANGED <<temp, file, fell, killed, raced, edited, acked, stale>>

(* An OSError (a full disk, say): `finally' unlinks the temporary file.  If *)
(* the sync of the directory fails, the new file is in place all the same. *)
Error ==
    /\ pc \in {"loaded", "written", "truncated", "replaced"}
    /\ temp' = IF pc = "replaced" THEN temp ELSE NoTemp
    /\ Return
    /\ Unacknowledged
    /\ UNCHANGED <<file, fell, killed, raced, edited, acked, stale>>

Save ==
    \/ \E s \in Section : Reload(s)
    \/ WriteTemp \/ FsyncTemp \/ Replace \/ ReplaceFails \/ WriteInPlace
    \/ FsyncDirectory \/ DirectoryNotOpened \/ Error

(* The system writes what is pending to disk when it likes.                *)
WriteBack ==
    /\ file.next # Nothing
    /\ file' = [file EXCEPT !.disk = file.next, !.next = Nothing]
    /\ stale' = {}
    /\ UNCHANGED <<pc, base, want, temp, fell, killed, raced, edited, acked, landed>>

Stop ==
    /\ Return
    /\ killed' = TRUE
    /\ Unacknowledged
    /\ UNCHANGED <<temp, fell, raced, edited, acked, stale>>

(* The process dies; the file stays as the system calls so far left it.    *)
Kill == pc # "idle" /\ UNCHANGED file /\ Stop

(* The machine dies; what was on disk is what there is.                    *)
PowerLoss ==
    /\ file' = [file EXCEPT !.read = file.disk, !.next = Nothing]
    /\ Stop

(* The operator moves an edited copy into place, or restores a backup.     *)
OperatorReplaces(c) ==
    /\ file' = [read |-> c, disk |-> c, next |-> Nothing]
    /\ edited' = c.rest
    /\ acked' = c.saved /\ landed' = {} /\ stale' = {}
    /\ raced' = (pc # "idle")
    /\ UNCHANGED <<pc, base, want, temp, fell, killed>>

Next ==
    \/ Save
    \/ WriteBack
    \/ Kill
    \/ PowerLoss
    \/ \E c \in Content : OperatorReplaces(c)

Spec == Init /\ [][Next]_vars
-----------------------------------------------------------------------------
(* The values the variables range over.                                    *)
TypeOK ==
    /\ pc \in {"idle", "loaded", "written", "synced", "replaced", "truncated"}
    /\ base \in Content \cup {Nothing}
    /\ want \in Section \cup {Nothing}
    /\ temp \in [exists : BOOLEAN, read : Bytes \cup {Nothing},
                 disk : Bytes \cup {Nothing}]
    /\ file \in [read : Bytes, disk : Bytes, next : Bytes \cup {Nothing}]
    /\ fell \in BOOLEAN /\ killed \in BOOLEAN /\ raced \in BOOLEAN
    /\ edited \in Rest
    /\ acked \in Section
    /\ landed \subseteq Section /\ stale \subseteq Section

(* However a save ends, data.json parses: for every reader, in this or     *)
(* another process, and after a power loss (_write_json_atomic).  Only the *)
(* fallback for a failed os.replace can leave a file cut short.            *)
NeverTorn == Torn \in {file.read, file.disk, file.next} => fell

(* What a save that returned has written survives a power loss, until the  *)
(* next save or the operator replaces it.  One that was killed or failed   *)
(* may or may not have taken effect, and nothing older ever comes back.    *)
(* The exception: a save that could not open the directory returns without *)
(* its sync; until its rename reaches the disk, or a later save returns    *)
(* synced, a power loss brings back the section it found there             *)
(* (save_clients, _write_json_atomic, _fsync_directory).                   *)
AckedIsDurable ==
    ~ fell /\ ~ raced =>
        /\ file.disk.saved \in {acked, want} \cup landed \cup stale
        /\ pc # "replaced" =>
              {file.read.saved, file.disk.saved} \subseteq
                  {acked} \cup landed \cup stale

(* A save carries over the operator's edits of the rest of the file, with  *)
(* the templates in it resolved, unless the operator replaced the file     *)
(* between the save's load and its rename (save_clients, _save_state).     *)
EditsKept ==
    ~ fell /\ ~ raced =>
        {file.read.rest, file.disk.rest} \subseteq
            {edited} \cup {Resolved[r] : r \in {edited} \cap DOMAIN Resolved}

(* README and smoke checklist: secrets stay in .env, data.json refers to   *)
(* them with templates, and so an archive of it holds no raw value.        *)
TemplatesKept == ~ fell /\ ~ raced => file.read.rest = edited

(* A temporary file outlives its save only if the process died, or if the  *)
(* fallback forgot it.                                                     *)
NoTempLeft == pc = "idle" /\ temp.exists => killed \/ fell

(* What the store promises: see AtomicFile.  Nothing is promised once the  *)
(* file was written in place, or replaced under a save; and a save that    *)
(* returned unsynced is only sure once the system has written it back.     *)
Broken == fell \/ raced
Atomic == INSTANCE AtomicFile WITH
    Lost <- Nothing,
    read <- IF Broken THEN Nothing ELSE file.read,
    may <- IF Broken THEN {Nothing} ELSE {file.disk, file.next} \ {Nothing},
    acked <- IF Broken THEN Nothing ELSE acked,
    sure <- ~ Broken /\ stale = {}
ImplementsAtomicFile == Atomic!Spec
=============================================================================
