---------------------------- MODULE MCClientSync ----------------------------
(* Small instances of ClientSync for TLC. *)
EXTENDS ClientSync, TLC

CONSTANTS c1, c2, n1, n2, a1, b1, b2, x1, old, stray

MCTag == {a1, b1, b2, x1}
MCDefaultTags == <<b1, x1, a1>>
MCNodeOf == (a1 :> n1) @@ (b1 :> n2) @@ (b2 :> n2) @@ (x1 :> External)
Rec(s, l, own, abroad) == [sub |-> s, legacy |-> l, own |-> own, abroad |-> abroad]
On(s, tags) == [sub |-> s, on |-> tags]
Nowhere == [n \in Node |-> [c \in Client |-> Absent]]

(* c1 is on one of its panels, under an id that a failed request left there *)
(* and on an inbound it does not use any more; a panel knows c2, data.json  *)
(* does not.                                                                *)
Returning(lv) ==
    [clients |-> (c1 :> Rec(old, None, <<b1, a1>>, <<x1>>)) @@ (c2 :> NoRecord),
     panel   |-> [Nowhere EXCEPT ![n2][c1] = On(stray, {b2}), ![n1][c2] = On(c2, {a1})],
     live    |-> lv]
(* Both were migrated: no subId, or a legacy id that the panel still has.  *)
Migrated ==
    [clients |-> (c1 :> Rec(None, None, None, <<x1>>))
                 @@ (c2 :> Rec(None, old, <<a1>>, <<x1>>)),
     panel   |-> [Nowhere EXCEPT ![n1][c2] = On(old, {a1})],
     live    |-> MCTag]

MCInitialData == {Returning(MCTag), Returning({a1, b2}), Migrated}
=============================================================================
