--------------------------- MODULE ClientRegistry ---------------------------
(***************************************************************************)
(* What data.json promises about subscription ids: a client is issued one  *)
(* id, that no other client holds, and keeps it.  The one way out is that  *)
(* the record is lost, after which nothing is promised about it.           *)
(***************************************************************************)
CONSTANTS Client, Id, Nothing, Lost

VARIABLE issued

Free(s) == \A c \in Client : issued[c] # s

Init ==
    /\ issued \in [Client -> Id \cup {Nothing}]
    /\ \A c, d \in Client : c # d /\ issued[c] = issued[d] => issued[c] = Nothing

(* A client that has no id is issued a free one.                           *)
Issue(c) ==
    /\ issued[c] = Nothing
    /\ \E s \in Id : Free(s) /\ issued' = [issued EXCEPT ![c] = s]

(* A save loses the records of some clients, and it may be the save that   *)
(* issues an id to another.                                                *)
Lose(lost) ==
    \/ issued' = [c \in Client |-> IF c \in lost THEN Lost ELSE issued[c]]
    \/ \E c \in Client \ lost, s \in Id :
          /\ issued[c] = Nothing /\ Free(s)
          /\ issued' = [d \in Client |-> IF d \in lost THEN Lost
                                         ELSE IF d = c THEN s ELSE issued[d]]

Next ==
    \/ \E c \in Client : Issue(c)
    \/ \E lost \in SUBSET Client : Lose(lost)

Spec == Init /\ [][Next]_issued
=============================================================================
