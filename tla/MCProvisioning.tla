--------------------------- MODULE MCProvisioning ---------------------------
(* Small instances of Provisioning for TLC. *)
EXTENDS Provisioning, TLC

CONSTANTS c1, c2, m1, n1, n2, a1, b1, b2, x1, old

MCTag == {a1, b1, b2, x1}
MCNodeOf == (a1 :> n1) @@ (b1 :> n2) @@ (b2 :> n2) @@ (x1 :> External)
MCDefaultTags == <<b1, x1, a1>>
MCDefaultAbroad == <<b2>>

NobodyIn(cs) == [c \in cs |-> NoRecord]
Empty == [n \in Node |-> [c \in Client |-> Absent]]
Rec(s, l, own, abroad) == [sub |-> s, legacy |-> l, own |-> own, abroad |-> abroad]
Start(recs, p, lv) ==
    [clients |-> recs @@ NobodyIn(Client), panel |-> p, live |-> lv]

(* Nobody yet. *)
Fresh(lv) == Start(<<>>, Empty, lv)
(* c1 has its id and is on the panel of one of its nodes, on one inbound. *)
Returning(lv) ==
    Start(c1 :> Rec(old, None, <<b1, a1>>, <<x1>>),
          [Empty EXCEPT ![n2][c1] = [sub |-> old, on |-> {b2}]], lv)
(* c1 was migrated: its URL is its client id, and so is the panel's subId. *)
Migrated(lv) ==
    Start(c1 :> Rec(None, None, None, <<x1>>),
          [Empty EXCEPT ![n1][c1] = [sub |-> c1, on |-> {a1}]], lv)
(* c1 was migrated from a panel that served it under another id. *)
MigratedLegacy(lv) ==
    Start(c1 :> Rec(None, old, <<a1>>, <<x1>>),
          [Empty EXCEPT ![n1][c1] = [sub |-> old, on |-> {a1}]], lv)
(* c1 uses external inbounds only. *)
ExternalOnly(lv) == Start(c1 :> Rec(None, None, <<x1>>, <<x1>>), Empty, lv)

MCInitialData ==
    {Fresh(MCTag), Returning(MCTag), Migrated(MCTag), ExternalOnly(MCTag),
     MigratedLegacy(MCTag), Returning({b1})}
FreshData == {Fresh(MCTag)}
MigratedData == {Migrated(MCTag)}
=============================================================================
