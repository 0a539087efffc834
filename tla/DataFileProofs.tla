--------------------------- MODULE DataFileProofs ---------------------------
(***************************************************************************)
(* The safety properties of DataFile, for every value of its constants,    *)
(* and that it implements AtomicFile.                                      *)
(*                                                                         *)
(* Types are inductive together with what a save in progress has in hand   *)
(* (InHand).  What the file may hold is inductive as Kept: an account, for *)
(* a file that is neither written in place nor replaced in the middle of a *)
(* save, of the three values that can become the file's content - the one  *)
(* read, the one on disk and the one pending.  The refinement needs one    *)
(* thing more (Fresh): what a save has loaded is the file until it renames.*)
(***************************************************************************)
EXTENDS DataFile, TLAPS

(* What the operator's edit may look like in the file. *)
Edits == {edited} \cup {Resolved[r] : r \in {edited} \cap DOMAIN Resolved}
(* The sections a save that is over may have left, to be read or pending,  *)
(* and those that may be on disk.                                          *)
Left == {acked} \cup landed
Over == Left \cup stale

(* A save in progress has a content and a section, and its temporary file  *)
(* holds the new content, on disk once it is synced.                       *)
InHand ==
    /\ pc # "idle" => base \in Content /\ want \in Section
    /\ pc \in {"written", "synced"} => temp.read = New
    /\ pc = "synced" => temp.disk = New
    /\ pc = "truncated" => fell
    /\ temp.exists /\ pc \in {"idle", "loaded"} => killed \/ fell
    /\ temp.exists /\ pc = "replaced" => fell

TypeInv == TypeOK /\ InHand

(* Where the contents of the file come from. *)
Kept ==
    /\ Torn \notin {file.read, file.disk, file.next}
    /\ file.read.rest \in Edits /\ file.disk.rest \in Edits
    /\ file.next # Nothing => file.next.rest \in Edits
    /\ pc # "idle" => base.rest \in Edits
    /\ pc # "replaced" =>
          /\ file.read.saved \in Over /\ file.disk.saved \in Over
          /\ file.next # Nothing => file.next = file.read /\ file.next.saved \in Left
    /\ pc = "replaced" =>
          /\ file.read = New /\ file.disk.saved \in Over \cup {want}
          /\ file.next = New \/ (file.next = Nothing /\ file.disk = New)

FileInv ==
    /\ ~ fell => Torn \notin {file.read, file.disk, file.next}
    /\ ~ fell /\ ~ raced => Kept
-----------------------------------------------------------------------------
(* The content a save is about to write. *)
LEMMA NewContent ==
    ASSUME base \in Content, want \in Section
    PROVE  /\ New \in Content /\ New # Torn /\ New # Nothing
           /\ New.saved = want /\ New.rest = base.rest
BY NamesAssumption DEF New, Content, Bytes

LEMMA TypeInit == Init => TypeInv
<1> SUFFICES ASSUME Init PROVE TypeInv
    OBVIOUS
<1>1. PICK c \in Content : /\ file = [read |-> c, disk |-> c, next |-> Nothing]
                           /\ edited = c.rest /\ acked = c.saved
    BY DEF Init
<1>2. TypeOK
    BY <1>1 DEF Init, TypeOK, NoTemp, Content, Bytes
<1>3. InHand
    BY DEF Init, InHand, NoTemp
<1> QED
    BY <1>2, <1>3 DEF TypeInv

LEMMA TypeStep == TypeInv /\ [Next]_vars => TypeInv'
<1> SUFFICES ASSUME TypeInv, [Next]_vars PROVE TypeInv'
    OBVIOUS
<1> USE DEF TypeInv
<1>h. pc # "idle" => New \in Content
    BY NewContent DEF InHand
<1>n. ~ NoTemp.exists /\ NoTemp \in [exists : BOOLEAN, read : Bytes \cup {Nothing},
                                     disk : Bytes \cup {Nothing}]
    BY DEF NoTemp
<1>1. ASSUME NEW s \in Section, Reload(s) PROVE TypeInv'
    <2>1. base' \in Content
        BY <1>1, ResolvedAssumption DEF Reload, Loaded, TypeOK, Content, Bytes
    <2>2. TypeOK'
        BY <1>1, <2>1 DEF Reload, Loaded, TypeOK, Goto, SameHistory
    <2>3. InHand'
        BY <1>1, <2>1 DEF Reload, Loaded, InHand, Goto, SameHistory
    <2> QED BY <2>2, <2>3
<1>2. CASE WriteTemp
    <2>1. New' = New
        BY <1>2 DEF WriteTemp, New
    <2>2. TypeOK'
        BY <1>2, <1>h DEF WriteTemp, TypeOK, Goto, SameHistory, Bytes
    <2>3. InHand'
        BY <1>2, <2>1 DEF WriteTemp, InHand, Goto, SameHistory
    <2> QED BY <2>2, <2>3
<1>3. CASE FsyncTemp
    <2>1. New' = New
        BY <1>3 DEF FsyncTemp, New
    <2>2. TypeOK'
        BY <1>3 DEF FsyncTemp, TypeOK, Goto, SameHistory
    <2>3. InHand'
        BY <1>3, <2>1 DEF FsyncTemp, InHand, Goto, SameHistory, TypeOK
    <2> QED BY <2>2, <2>3
<1>4. CASE Replace
    <2>1. temp.read = New /\ temp.disk = New /\ New \in Content
        BY <1>4, <1>h DEF Replace, InHand
    <2>2. TypeOK'
        BY <1>4, <1>n, <2>1 DEF Replace, TypeOK, Goto, SameHistory, Bytes
    <2>3. InHand'
        BY <1>4, <1>n DEF Replace, InHand, Goto, SameHistory
    <2> QED BY <2>2, <2>3
<1>5. CASE ReplaceFails
    <2>1. TypeOK'
        BY <1>5 DEF ReplaceFails, TypeOK, Goto, Bytes
    <2>2. InHand'
        BY <1>5 DEF ReplaceFails, InHand, Goto
    <2> QED BY <2>1, <2>2
<1>6. CASE WriteInPlace
    <2>1. TypeOK'
        BY <1>6, <1>h DEF WriteInPlace, TypeOK, Goto, SameHistory, Bytes
    <2>2. InHand'
        BY <1>6 DEF WriteInPlace, InHand, Goto, SameHistory
    <2> QED BY <2>1, <2>2
<1>7. CASE FsyncDirectory
    <2>1. file' \in [read : Bytes, disk : Bytes, next : Bytes \cup {Nothing}]
        BY <1>7 DEF FsyncDirectory, TypeOK
    <2>2. TypeOK'
        BY <1>7, <2>1 DEF FsyncDirectory, Return, TypeOK, InHand
    <2>3. InHand'
        BY <1>7 DEF FsyncDirectory, Return, InHand
    <2> QED BY <2>2, <2>3
<1>13. CASE DirectoryNotOpened
    <2>1. stale' \subseteq Section
        BY <1>13 DEF DirectoryNotOpened, Content
    <2>2. TypeOK'
        BY <1>13, <2>1 DEF DirectoryNotOpened, Return, TypeOK, InHand
    <2>3. InHand'
        BY <1>13 DEF DirectoryNotOpened, Return, InHand
    <2> QED BY <2>2, <2>3
<1>8. CASE Error
    <2>1. landed' \subseteq Section
        BY <1>8 DEF Error, Unacknowledged, TypeOK, InHand
    <2>2. TypeOK'
        BY <1>8, <1>n, <2>1 DEF Error, Return, TypeOK
    <2>3. InHand'
        BY <1>8, <1>n DEF Error, Return, InHand
    <2> QED BY <2>2, <2>3
<1>9. CASE WriteBack
    <2>1. New' = New
        BY <1>9 DEF WriteBack, New
    <2>2. TypeOK'
        BY <1>9 DEF WriteBack, TypeOK, SameHistory
    <2>3. InHand'
        BY <1>9, <2>1 DEF WriteBack, InHand, SameHistory
    <2> QED BY <2>2, <2>3
<1>10. CASE Kill \/ PowerLoss
    <2>1. file' \in [read : Bytes, disk : Bytes, next : Bytes \cup {Nothing}]
        BY <1>10 DEF Kill, PowerLoss, TypeOK
    <2>2. Stop
        BY <1>10 DEF Kill, PowerLoss
    <2>3. landed' \subseteq Section
        BY <2>2 DEF Stop, Unacknowledged, TypeOK, InHand
    <2>4. TypeOK'
        BY <2>1, <2>2, <2>3 DEF Stop, Return, TypeOK
    <2>5. InHand'
        BY <2>2 DEF Stop, Return, InHand
    <2> QED BY <2>4, <2>5
<1>11. ASSUME NEW c \in Content, OperatorReplaces(c) PROVE TypeInv'
    <2>1. New' = New
        BY <1>11 DEF OperatorReplaces, New
    <2>2. TypeOK'
        BY <1>11 DEF OperatorReplaces, TypeOK, Content, Bytes
    <2>3. InHand'
        BY <1>11, <2>1 DEF OperatorReplaces, InHand
    <2> QED BY <2>2, <2>3
<1>12. CASE UNCHANGED vars
    BY <1>12 DEF vars, TypeOK, InHand, New
<1> QED
    BY <1>1, <1>2, <1>3, <1>4, <1>5, <1>6, <1>7, <1>8, <1>9, <1>10, <1>11, <1>12,
       <1>13
    DEF Next, Save

(* A save, its errors and the operator keep every value in its type. *)
THEOREM TypeCorrect == Spec => []TypeOK
<1>1. Spec => []TypeInv
    BY TypeInit, TypeStep, PTL DEF Spec
<1>2. TypeInv => TypeOK
    BY DEF TypeInv
<1> QED
    BY <1>1, <1>2, PTL

(* Temporary files are left behind by killed saves and by the fallback     *)
(* only (_write_json_atomic).                                              *)
THEOREM TempCleaned == Spec => []NoTempLeft
<1>1. Spec => []TypeInv
    BY TypeInit, TypeStep, PTL DEF Spec
<1>2. TypeInv => NoTempLeft
    BY DEF TypeInv, InHand, NoTempLeft
<1> QED
    BY <1>1, <1>2, PTL
-----------------------------------------------------------------------------
LEMMA FileInit == Init => FileInv
<1> SUFFICES ASSUME Init PROVE Kept
    BY DEF FileInv, Kept
<1>1. PICK c \in Content : /\ file = [read |-> c, disk |-> c, next |-> Nothing]
                           /\ edited = c.rest /\ acked = c.saved
    BY DEF Init
<1>2. Torn \notin {c, Nothing}
    BY NamesAssumption DEF Bytes
<1> QED
    BY <1>1, <1>2 DEF Init, Kept, Edits, Over, Left

(* An edit with its templates resolved again is still that edit. *)
LEMMA ResolvedEdit ==
    ASSUME NEW r \in DOMAIN Resolved, r \in Edits
    PROVE  Resolved[r] \in Edits
BY ResolvedAssumption DEF Edits

LEMMA FileStep == TypeInv /\ FileInv /\ [Next]_vars => FileInv'
<1> SUFFICES ASSUME TypeInv, FileInv, [Next]_vars PROVE FileInv'
    OBVIOUS
<1>h. pc # "idle" => /\ New \in Content /\ New # Torn /\ New # Nothing
                     /\ New.saved = want /\ New.rest = base.rest
    BY NewContent DEF TypeInv, InHand
<1>t. /\ file.read \in Bytes /\ file.disk \in Bytes
      /\ file.next \in Bytes \cup {Nothing} /\ Torn # Nothing
      /\ file \in [read : Bytes, disk : Bytes, next : Bytes \cup {Nothing}]
    BY NamesAssumption DEF TypeInv, TypeOK, Bytes
<1>1. ASSUME NEW s \in Section, Reload(s) PROVE FileInv'
    <2>1. ~ fell /\ ~ raced => Resolved[file.read.rest] \in Edits
        BY <1>1, ResolvedEdit DEF Reload, Loaded, FileInv, Kept
    <2>2. base'.rest = Resolved[file.read.rest]
        BY <1>1, <1>t DEF Reload, Loaded, Bytes, Content
    <2>3. Edits' = Edits /\ Over' = Over /\ Left' = Left
        BY <1>1 DEF Reload, Loaded, SameHistory, Edits, Over, Left
    <2>4. ~ fell /\ ~ raced => Kept'
        BY <1>1, <2>1, <2>2, <2>3 DEF Reload, Loaded, FileInv, Kept, Goto
    <2> QED
        BY <1>1, <2>4 DEF Reload, Loaded, FileInv, SameHistory
<1>2. CASE WriteTemp \/ FsyncTemp
    <2>1. /\ UNCHANGED <<base, want, file>> /\ SameHistory
          /\ pc \notin {"idle", "replaced"} /\ pc' \notin {"idle", "replaced"}
        BY <1>2 DEF WriteTemp, FsyncTemp, Goto
    <2>2. Edits' = Edits /\ Over' = Over /\ Left' = Left
        BY <2>1 DEF SameHistory, Edits, Over, Left
    <2>3. Kept => Kept'
        BY <2>1, <2>2 DEF Kept
    <2> QED
        BY <2>1, <2>3 DEF FileInv, SameHistory
<1>4. CASE Replace
    <2>1. temp.read = New /\ temp.disk = New
        BY <1>4 DEF Replace, TypeInv, InHand
    <2>2. file'.read = New /\ file'.next = New /\ file'.disk = file.disk
        BY <1>4, <1>t, <2>1 DEF Replace
    <2>3. New' = New /\ Edits' = Edits /\ Over' = Over /\ want' = want
        BY <1>4 DEF Replace, New, SameHistory, Edits, Over, Left
    <2>4. pc = "synced" /\ pc' = "replaced" /\ base' = base
        BY <1>4 DEF Replace, Goto
    <2>5. Kept => Kept'
        BY <2>2, <2>3, <2>4, <1>h DEF Kept
    <2>6. fell' = fell /\ raced' = raced
        BY <1>4 DEF Replace, SameHistory
    <2>7. ~ fell => Torn \notin {file'.read, file'.disk, file'.next}
        <3>1. New # Torn /\ (~ fell => file.disk # Torn)
            BY <1>h, <2>4 DEF FileInv
        <3> QED
            BY <2>2, <3>1
    <2> QED
        BY <2>5, <2>6, <2>7 DEF FileInv
<1>5. CASE ReplaceFails
    BY <1>5 DEF ReplaceFails, FileInv
<1>6. CASE WriteInPlace
    BY <1>6 DEF WriteInPlace, SameHistory, FileInv, TypeInv, InHand
<1>7. CASE FsyncDirectory
    <2>1. fell' = fell /\ raced' = raced /\ pc = "replaced" /\ pc' = "idle"
        BY <1>7 DEF FsyncDirectory, Return
    <2>2. ~ fell => ~ temp.exists
        BY <2>1 DEF TypeInv, InHand
    <2>3. ~ fell => /\ file'.read = file.read /\ file'.next = Nothing
                    /\ file'.disk = IF file.next = Nothing THEN file.disk
                                    ELSE file.next
        BY <1>7, <1>t, <2>2 DEF FsyncDirectory
    <2>4. Over' = {want} /\ Left' = {want} /\ Edits' = Edits
        BY <1>7 DEF FsyncDirectory, Over, Left, Edits
    <2>5. ~ fell /\ ~ raced => Kept'
        BY <1>h, <1>t, <2>1, <2>3, <2>4 DEF FileInv, Kept
    <2>6. ~ fell => Torn \notin {file'.read, file'.disk, file'.next}
        BY <1>t, <2>3 DEF FileInv
    <2> QED
        BY <2>1, <2>5, <2>6 DEF FileInv
<1>13. CASE DirectoryNotOpened
    <2>1. /\ fell' = fell /\ raced' = raced /\ file' = file
          /\ pc = "replaced" /\ pc' = "idle"
        BY <1>13 DEF DirectoryNotOpened, Return
    <2>2. Left' = {want} /\ Edits' = Edits
        BY <1>13 DEF DirectoryNotOpened, Left, Edits
    <2>3. file.disk # Torn => file.disk.saved \in Over'
        BY <1>13, <1>t DEF DirectoryNotOpened, Over, Bytes
    <2>4. want \in Over'
        BY <2>2 DEF Over
    <2>5. Kept => Kept'
        BY <1>h, <1>t, <2>1, <2>2, <2>3, <2>4 DEF Kept
    <2> QED
        BY <2>1, <2>5 DEF FileInv
<1>8. CASE Error
    <2>1. /\ fell' = fell /\ raced' = raced /\ file' = file /\ pc' = "idle"
          /\ pc # "idle"
        BY <1>8 DEF Error, Return
    <2>2. Edits' = Edits
        BY <1>8 DEF Error, Edits
    <2>3. /\ Over' = IF pc = "replaced" THEN Over \cup {want} ELSE Over
          /\ Left' = IF pc = "replaced" THEN Left \cup {want} ELSE Left
        BY <1>8 DEF Error, Unacknowledged, Over, Left
    <2>4. Kept => Kept'
        BY <1>h, <2>1, <2>2, <2>3 DEF Kept
    <2> QED
        BY <2>1, <2>4 DEF FileInv
<1>9. CASE WriteBack
    <2>1. file'.read = file.read /\ file'.disk = file.next /\ file'.next = Nothing
        BY <1>9, <1>t DEF WriteBack
    <2>2. UNCHANGED <<pc, base, want, fell, raced>> /\ file.next # Nothing
        BY <1>9 DEF WriteBack
    <2>3. New' = New /\ Edits' = Edits /\ Over' = Left
        BY <1>9 DEF WriteBack, New, Edits, Over, Left
    <2>4. Kept => Kept'
        BY <1>h, <1>t, <2>1, <2>2, <2>3 DEF Kept
    <2> QED
        BY <1>t, <2>1, <2>2, <2>4 DEF FileInv
<1>10. CASE Kill \/ PowerLoss
    <2>1. /\ file'.disk = file.disk
          /\ \/ file'.read = file.read /\ file'.next = file.next /\ pc # "idle"
             \/ file'.read = file.disk /\ file'.next = Nothing
        BY <1>10, <1>t DEF Kill, PowerLoss
    <2>2. Stop
        BY <1>10 DEF Kill, PowerLoss
    <2>3. fell' = fell /\ raced' = raced /\ pc' = "idle"
        BY <2>2 DEF Stop, Return
    <2>4. Edits' = Edits
        BY <2>2 DEF Stop, Edits
    <2>5. /\ Over' = IF pc = "replaced" THEN Over \cup {want} ELSE Over
          /\ Left' = IF pc = "replaced" THEN Left \cup {want} ELSE Left
        BY <2>2 DEF Stop, Unacknowledged, Over, Left
    <2>6. Kept => Kept'
        BY <1>h, <1>t, <2>1, <2>3, <2>4, <2>5 DEF Kept
    <2> QED
        BY <1>t, <2>1, <2>3, <2>6 DEF FileInv
<1>11. ASSUME NEW c \in Content, OperatorReplaces(c) PROVE FileInv'
    <2>1. Torn \notin {c, Nothing}
        BY NamesAssumption DEF Bytes
    <2>2. file' = [read |-> c, disk |-> c, next |-> Nothing] /\ pc' = pc
        BY <1>11 DEF OperatorReplaces
    <2>3. ~ raced' => pc = "idle"
        BY <1>11 DEF OperatorReplaces
    <2>4. c.rest \in Edits' /\ c.saved \in Over'
        BY <1>11 DEF OperatorReplaces, Edits, Over, Left
    <2>5. ~ raced' => Kept'
        BY <2>1, <2>2, <2>3, <2>4 DEF Kept
    <2> QED
        BY <2>1, <2>2, <2>5 DEF FileInv
<1>12. CASE UNCHANGED vars
    BY <1>12 DEF vars, FileInv, Kept, New, Edits, Over, Left
<1> QED
    BY <1>1, <1>2, <1>4, <1>5, <1>6, <1>7, <1>8, <1>9, <1>10, <1>11, <1>12,
       <1>13
    DEF Next, Save

LEMMA FileInvariant == Spec => [](TypeInv /\ FileInv)
<1>1. Init => TypeInv /\ FileInv
    BY TypeInit, FileInit
<1>2. TypeInv /\ FileInv /\ [Next]_vars => TypeInv' /\ FileInv'
    BY TypeStep, FileStep
<1> QED
    BY <1>1, <1>2, PTL DEF Spec

(* Unless a rename failed, no reader ever meets a file cut short, not even *)
(* after a power loss (_write_json_atomic).                                *)
THEOREM FileParses == Spec => []NeverTorn
<1>1. FileInv => NeverTorn
    BY DEF FileInv, NeverTorn
<1> QED
    BY <1>1, FileInvariant, PTL

(* A save that returned is on disk, and what was there before it is gone   *)
(* for good, unless it returned unsynced because the directory could not   *)
(* be opened: then a power loss may bring back the one section it found on *)
(* disk (save_clients, _write_json_atomic, _fsync_directory).              *)
THEOREM SavesAreDurable == Spec => []AckedIsDurable
<1>1. TypeInv /\ FileInv => AckedIsDurable
    <2> SUFFICES ASSUME TypeInv, FileInv, ~ fell, ~ raced PROVE AckedIsDurable
        BY DEF AckedIsDurable
    <2> QED
        BY DEF FileInv, Kept, Over, Left, AckedIsDurable
<1> QED
    BY <1>1, FileInvariant, PTL

(* A save never puts an older rest of the file in place of the operator's  *)
(* (save_clients, save_subscription, _save_state).                         *)
THEOREM OperatorEditsKept == Spec => []EditsKept
<1>1. FileInv => EditsKept
    BY DEF FileInv, Kept, Edits, EditsKept
<1> QED
    BY <1>1, FileInvariant, PTL
-----------------------------------------------------------------------------
(* Until it renames, a save in progress has loaded the file as it still    *)
(* is; and what is pending for the disk is what is read.                   *)
Fresh ==
    ~ Broken =>
        /\ pc \in {"loaded", "written", "synced"} =>
              /\ file.read \in Content /\ file.read.rest \in DOMAIN Resolved
              /\ base = Loaded(file.read)
        /\ file.next # Nothing => file.next = file.read

LEMMA FreshInit == Init => Fresh
BY DEF Init, Fresh

LEMMA FreshStep == TypeInv /\ Fresh /\ [Next]_vars => Fresh'
<1> SUFFICES ASSUME TypeInv, Fresh, [Next]_vars, ~ Broken' PROVE Fresh'
    BY DEF Fresh
<1>t. file \in [read : Bytes, disk : Bytes, next : Bytes \cup {Nothing}]
    BY DEF TypeInv, TypeOK
<1>1. ASSUME NEW s \in Section, Reload(s) PROVE Fresh'
    <2>1. ~ Broken
        BY <1>1 DEF Reload, SameHistory, Broken
    <2>2. file.read \in Content
        BY <1>1, <1>t DEF Reload, Bytes
    <2> QED
        BY <1>1, <2>1, <2>2 DEF Reload, Fresh, Goto, Loaded
<1>2. CASE WriteTemp \/ FsyncTemp
    <2>1. UNCHANGED <<base, file>> /\ SameHistory /\ pc \in {"loaded", "written"}
        BY <1>2 DEF WriteTemp, FsyncTemp
    <2> QED
        BY <2>1 DEF Fresh, Loaded, SameHistory, Broken
<1>4. CASE Replace
    <2>1. temp.read = New /\ temp.disk = New
        BY <1>4 DEF Replace, TypeInv, InHand
    <2>2. file'.read = New /\ file'.next = New /\ pc' = "replaced"
        BY <1>4, <1>t, <2>1 DEF Replace, Goto
    <2> QED
        BY <2>2 DEF Fresh
<1>5. CASE ReplaceFails \/ WriteInPlace
    BY <1>5 DEF ReplaceFails, WriteInPlace, SameHistory, TypeInv, InHand, Broken
<1>7. CASE FsyncDirectory \/ DirectoryNotOpened \/ Error
    <2>1. UNCHANGED <<fell, raced>> /\ pc' = "idle"
        BY <1>7 DEF FsyncDirectory, DirectoryNotOpened, Error, Return
    <2>2. file' = file \/ file'.next = Nothing
        BY <1>7, <1>t DEF FsyncDirectory, DirectoryNotOpened, Error
    <2> QED
        BY <2>1, <2>2 DEF Fresh, Broken
<1>9. CASE WriteBack
    <2>1. file'.read = file.read /\ file'.next = Nothing
        BY <1>9, <1>t DEF WriteBack
    <2> QED
        BY <1>9, <2>1 DEF WriteBack, Fresh, Broken, Loaded
<1>10. CASE Kill \/ PowerLoss
    <2>1. UNCHANGED <<fell, raced>> /\ pc' = "idle"
        BY <1>10 DEF Kill, PowerLoss, Stop, Return
    <2>2. file' = file \/ file'.next = Nothing
        BY <1>10, <1>t DEF Kill, PowerLoss
    <2> QED
        BY <2>1, <2>2 DEF Fresh, Broken
<1>11. ASSUME NEW c \in Content, OperatorReplaces(c) PROVE Fresh'
    BY <1>11 DEF OperatorReplaces, Fresh, Broken
<1>12. CASE UNCHANGED vars
    BY <1>12 DEF vars, Fresh, Broken, Loaded
<1> QED
    BY <1>1, <1>2, <1>4, <1>5, <1>7, <1>9, <1>10, <1>11, <1>12 DEF Next, Save

LEMMA AtomicInit == Init => Atomic!Init
<1> SUFFICES ASSUME Init PROVE Atomic!Init
    OBVIOUS
<1>1. PICK c \in Content : /\ file = [read |-> c, disk |-> c, next |-> Nothing]
                           /\ acked = c.saved
    BY DEF Init
<1>2. c # Nothing /\ ~ Broken
    BY NamesAssumption DEF Init, Bytes, Broken
<1>3. (~ Broken /\ stale = {}) = TRUE
    BY DEF Init, Broken
<1>4. {file.disk, file.next} \ {Nothing} = {c}
    BY <1>1, <1>2
<1> QED
    BY <1>1, <1>2, <1>3, <1>4 DEF Atomic!Init, Atomic!Content, Content

(* A rename is the atomic save; the sync of the directory its return.  A   *)
(* save that writes in place, or that is overtaken, breaks the promise;    *)
(* the rest of a save is not seen.                                         *)
LEMMA AtomicStep ==
    TypeInv /\ FileInv /\ Fresh /\ [Next]_vars => [Atomic!Next]_(Atomic!vars)
<1> SUFFICES ASSUME TypeInv, FileInv, Fresh, [Next]_vars
             PROVE  Atomic!Next \/ UNCHANGED Atomic!vars
    OBVIOUS
<1>t. /\ file \in [read : Bytes, disk : Bytes, next : Bytes \cup {Nothing}]
      /\ file.read # Nothing /\ file.disk # Nothing
    BY NamesAssumption DEF TypeInv, TypeOK
<1>h. pc # "idle" => New \in Content /\ New # Nothing /\ New.saved = want
    BY NewContent DEF TypeInv, InHand
<1>b. ASSUME Broken, Broken' PROVE UNCHANGED Atomic!vars
    BY <1>b DEF Atomic!vars
<1>s. (~ Broken /\ stale = {}) \in BOOLEAN
    OBVIOUS
<1>u. ASSUME UNCHANGED <<file, fell, raced, acked, stale>> PROVE UNCHANGED Atomic!vars
    BY <1>u DEF Atomic!vars, Broken
<1>1. CASE \E s \in Section : Reload(s)
    BY <1>1, <1>u DEF Reload, SameHistory
<1>2. CASE WriteTemp \/ FsyncTemp
    BY <1>2, <1>u DEF WriteTemp, FsyncTemp, SameHistory
<1>4. CASE Replace
    <2>1. UNCHANGED <<fell, raced, acked, want, stale>> /\ pc = "synced"
        BY <1>4 DEF Replace, SameHistory
    <2>2. CASE Broken
        BY <1>b, <2>1, <2>2 DEF Broken
    <2>3. CASE ~ Broken
        <3>1. file'.read = New /\ file'.next = New /\ file'.disk = file.disk
            BY <1>4, <1>t DEF Replace, TypeInv, InHand
        <3>2. /\ file.read.rest \in DOMAIN Resolved /\ file.read \in Content
              /\ base = Loaded(file.read) /\ want \in Section
            BY <2>1, <2>3 DEF Fresh, TypeInv, InHand
        <3>3. New = [saved |-> want, rest |-> Resolved[file.read.rest]]
            <4>1. PICK sec \in Section, r \in Rest : file.read = [saved |-> sec, rest |-> r]
                BY <3>2 DEF Content
            <4>2. base = [saved |-> sec, rest |-> Resolved[r]]
                BY <3>2, <4>1 DEF Loaded
            <4> QED
                BY <4>1, <4>2 DEF New
        <3>4. ({file.disk, file.next} \ {Nothing})' = {file.disk} \cup {New}
            BY <1>h, <1>t, <2>1, <3>1
        <3>5. {file.disk} \in SUBSET ({file.disk, file.next} \ {Nothing})
            BY <1>t
        <3>6. ~ Broken'
            BY <2>1, <2>3 DEF Broken
        <3>7. Atomic!Save(want)
            BY <1>t, <2>1, <2>3, <3>1, <3>2, <3>3, <3>4, <3>5, <3>6 DEF Atomic!Save
        <3> QED
            BY <3>2, <3>7 DEF Atomic!Next
    <2> QED BY <2>2, <2>3
<1>5. CASE ReplaceFails
    <2>1. Broken'
        BY <1>5 DEF ReplaceFails, Broken
    <2> QED
        BY <2>1 DEF Atomic!Next, Atomic!Break
<1>6. CASE WriteInPlace
    BY <1>6, <1>b DEF WriteInPlace, SameHistory, TypeInv, InHand, Broken
<1>7. CASE FsyncDirectory
    <2>1. UNCHANGED <<fell, raced>> /\ pc = "replaced" /\ acked' = want /\ stale' = {}
        BY <1>7 DEF FsyncDirectory
    <2>2. CASE Broken
        BY <1>b, <2>1, <2>2 DEF Broken
    <2>3. CASE ~ Broken
        <3>1. ~ temp.exists
            BY <2>1, <2>3 DEF Broken, TypeInv, InHand
        <3>2. /\ file.read = New
              /\ file.next = New \/ (file.next = Nothing /\ file.disk = New)
            BY <2>1, <2>3 DEF Broken, FileInv, Kept
        <3>3. file'.read = New /\ file'.disk = New /\ file'.next = Nothing
            BY <1>h, <1>7, <1>t, <2>1, <3>1, <3>2 DEF FsyncDirectory
        <3>4. ({file.disk, file.next} \ {Nothing})' = {file.read}
            BY <1>t, <3>2, <3>3
        <3>5. ~ Broken'
            BY <2>1, <2>3 DEF Broken
        <3>6. (~ Broken /\ stale = {})' = TRUE
            BY <2>1, <3>5
        <3>7. Atomic!Return
            BY <1>h, <1>t, <2>1, <2>3, <3>2, <3>3, <3>4, <3>5, <3>6 DEF Atomic!Return
        <3> QED
            BY <3>7 DEF Atomic!Next
    <2> QED BY <2>2, <2>3
<1>14. CASE DirectoryNotOpened
    <2>1. UNCHANGED <<fell, raced, file>> /\ pc = "replaced" /\ acked' = want
        BY <1>14 DEF DirectoryNotOpened
    <2>2. CASE Broken
        BY <1>b, <2>1, <2>2 DEF Broken
    <2>3. CASE ~ Broken
        <3>1. file.read = New /\ file.disk \in Content
            BY <1>t, <2>1, <2>3 DEF Broken, FileInv, Kept, Bytes
        <3>2. file.disk.saved \in stale'
            BY <1>14, <3>1 DEF DirectoryNotOpened
        <3>3. (~ Broken /\ stale = {})' = FALSE
            BY <3>2
        <3>4. ~ Broken'
            BY <2>1, <2>3 DEF Broken
        <3>5. ({file.disk, file.next} \ {Nothing})' = {file.disk, file.next} \ {Nothing}
            BY <2>1
        <3>6. Atomic!ReturnUnsettled
            BY <1>h, <1>t, <2>1, <2>3, <3>1, <3>3, <3>4, <3>5
            DEF Atomic!ReturnUnsettled
        <3> QED
            BY <3>6 DEF Atomic!Next
    <2> QED BY <2>2, <2>3
<1>8. CASE Error
    BY <1>8, <1>u DEF Error
<1>9. CASE WriteBack
    <2>1. UNCHANGED <<fell, raced, acked>> /\ stale' = {}
        BY <1>9 DEF WriteBack
    <2>2. CASE Broken
        BY <1>b, <2>1, <2>2 DEF Broken
    <2>3. CASE ~ Broken
        <3>1. /\ file'.read = file.read /\ file'.disk = file.read
              /\ file'.next = Nothing
            BY <1>9, <1>t, <2>3 DEF WriteBack, Fresh
        <3>2. ({file.disk, file.next} \ {Nothing})' = {file.read}
            BY <1>t, <3>1
        <3>3. ~ Broken'
            BY <2>1, <2>3 DEF Broken
        <3>4. (~ Broken /\ stale = {})' = TRUE
            BY <2>1, <3>3
        <3>5. Atomic!Settle
            BY <2>1, <2>3, <3>1, <3>2, <3>3, <3>4 DEF Atomic!Settle
        <3> QED
            BY <3>5 DEF Atomic!Next
    <2> QED BY <2>2, <2>3
<1>10. CASE Kill
    BY <1>10, <1>u DEF Kill, Stop
<1>11. CASE PowerLoss
    <2>1. UNCHANGED <<fell, raced, acked, stale>>
        BY <1>11 DEF PowerLoss, Stop
    <2>2. CASE Broken
        BY <1>b, <2>1, <2>2 DEF Broken
    <2>3. CASE ~ Broken
        <3>1. /\ file'.read = file.disk /\ file'.disk = file.disk
              /\ file'.next = Nothing
            BY <1>11, <1>t DEF PowerLoss
        <3>2. ({file.disk, file.next} \ {Nothing})' = {file.disk}
            BY <1>t, <3>1
        <3>3. file.disk \in {file.disk, file.next} \ {Nothing}
            BY <1>t
        <3>4. ~ Broken'
            BY <2>1, <2>3 DEF Broken
        <3>5. Atomic!PowerLoss
            BY <2>1, <2>3, <3>1, <3>2, <3>3, <3>4 DEF Atomic!PowerLoss
        <3> QED
            BY <3>5 DEF Atomic!Next
    <2> QED BY <2>2, <2>3
<1>12. ASSUME NEW c \in Content, OperatorReplaces(c)
       PROVE  Atomic!Next \/ UNCHANGED Atomic!vars
    <2>1. /\ file' = [read |-> c, disk |-> c, next |-> Nothing] /\ acked' = c.saved
          /\ stale' = {} /\ fell' = fell /\ (raced' <=> pc # "idle")
        BY <1>12 DEF OperatorReplaces
    <2>2. c # Nothing
        BY NamesAssumption DEF Bytes
    <2>3. CASE Broken'
        BY <2>3 DEF Atomic!Next, Atomic!Break
    <2>4. CASE ~ Broken'
        <3>1. ({file.disk, file.next} \ {Nothing})' = {c}
            BY <2>1, <2>2
        <3>2. (~ Broken /\ stale = {})' = TRUE
            BY <2>1, <2>4
        <3>3. Atomic!Becomes(c)
            BY <2>1, <2>4, <3>1, <3>2 DEF Atomic!Becomes
        <3>4. c \in Atomic!Content
            BY DEF Content, Atomic!Content
        <3> QED
            BY <3>3, <3>4 DEF Atomic!Next, Atomic!Replaced
    <2> QED BY <2>3, <2>4
<1>13. CASE UNCHANGED vars
    BY <1>13, <1>u DEF vars
<1> QED
    BY <1>1, <1>2, <1>4, <1>5, <1>6, <1>7, <1>8, <1>9, <1>10, <1>11, <1>12, <1>13,
       <1>14
    DEF Next, Save

(* ControlPlaneStore's saves, one system call at a time, with errors and   *)
(* power losses, are atomic changes of one section of the file, durable    *)
(* once they return synced; when the directory could not be opened for the *)
(* sync, not until the system or a later save has put the change on disk.  *)
(* Nothing is claimed once a rename failed or the operator overtook a save *)
(* (save_clients, save_subscription, _save_state, _write_json_atomic).     *)
THEOREM ImplementsAtomic == Spec => ImplementsAtomicFile
<1>1. Spec => []Fresh
    <2>1. TypeInv /\ Fresh /\ [Next]_vars => Fresh'
        BY FreshStep
    <2>2. Spec => []TypeInv
        BY FileInvariant, PTL
    <2> QED
        BY FreshInit, <2>1, <2>2, PTL DEF Spec
<1> QED
    BY <1>1, AtomicInit, AtomicStep, FileInvariant, PTL
    DEF Spec, ImplementsAtomicFile, Atomic!Spec
=============================================================================
