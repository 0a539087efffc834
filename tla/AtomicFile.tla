----------------------------- MODULE AtomicFile -----------------------------
(***************************************************************************)
(* What ControlPlaneStore promises of data.json: a save changes its        *)
(* section of the file as it is, and nothing else, in one step that every  *)
(* reader sees at once; and when it returns, the change is there to stay.  *)
(* Until then a power loss may undo it.  There are two ways out: a save    *)
(* that returns unsettled, whose change is not sure to stay until the      *)
(* system settles it or a later save does; and a file that was written in  *)
(* place or replaced under a save, of which nothing is promised.           *)
(***************************************************************************)
CONSTANTS Section, Rest, Resolved, Lost

Content == [saved : Section, rest : Rest]

VARIABLES
    read,      \* what a reader finds
    may,       \* what a power loss may leave
    acked,     \* the section of the save that last returned
    sure       \* and it was settled when it did, or has been since

vars == <<read, may, acked, sure>>

Becomes(c) == read' = c /\ may' = {c} /\ acked' = c.saved /\ sure' = TRUE

Init == \E c \in Content :
            read = c /\ may = {c} /\ acked = c.saved /\ sure = TRUE

(* Templates of the rest are resolved on the way.                          *)
Save(s) ==
    /\ read # Lost /\ read.rest \in DOMAIN Resolved
    /\ read' = [saved |-> s, rest |-> Resolved[read.rest]]
    /\ \E old \in SUBSET may : may' = old \cup {read'}
    /\ UNCHANGED <<acked, sure>>

Return ==
    /\ read # Lost
    /\ acked' = read.saved /\ may' = {read} /\ sure' = TRUE
    /\ UNCHANGED read

ReturnUnsettled ==
    /\ read # Lost
    /\ acked' = read.saved /\ sure' = FALSE
    /\ UNCHANGED <<read, may>>

Settle == may' = {read} /\ sure' = TRUE /\ UNCHANGED <<read, acked>>

PowerLoss == \E c \in may : read' = c /\ may' = {c} /\ UNCHANGED <<acked, sure>>

Replaced == \E c \in Content : Becomes(c)

Break == read' = Lost /\ may' = {Lost} /\ acked' = Lost /\ sure' = FALSE

Next ==
    \/ \E s \in Section : Save(s)
    \/ Return \/ ReturnUnsettled \/ Settle \/ PowerLoss \/ Replaced \/ Break

Spec == Init /\ [][Next]_vars
=============================================================================
