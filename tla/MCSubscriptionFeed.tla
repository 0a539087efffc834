------------------------- MODULE MCSubscriptionFeed -------------------------
(* Small instances of SubscriptionFeed for TLC. *)
EXTENDS SubscriptionFeed, TLC

CONSTANTS c1, m1, n1, n2, a1, b1, b2, x1, old, sh, p, q

MCTag == {a1, b1, b2, x1}
MCNodeOf == (a1 :> n1) @@ (b1 :> n2) @@ (b2 :> n2) @@ (x1 :> External)
MCDefaultTags == <<b1, x1, a1, b2>>
MCDefaultAbroad == <<b2>>
MCSharedOn == sh :> {a1, b1}
MCFallbackOf == (a1 :> None) @@ (b1 :> sh) @@ (b2 :> sh) @@ (x1 :> None)
MCInitialTitle == (a1 :> p) @@ (b1 :> p) @@ (b2 :> q) @@ (x1 :> Untitled)

Rec(s, l, own, abroad) == [sub |-> s, legacy |-> l, own |-> own, abroad |-> abroad]
Nowhere == [n \in Node |-> [c \in Client |-> Absent]]
Start(rec, p0) ==
    [clients |-> [c \in Client |-> IF c = c1 THEN rec ELSE NoRecord],
     panel   |-> p0, live |-> MCTag]

(* c1 is on one of its two inbounds of n2, and on none of n1.              *)
Returning ==
    Start(Rec(old, None, None, <<x1>>),
          [Nowhere EXCEPT ![n2][c1] = [sub |-> old, on |-> {b2}]])
(* c1 was migrated under another id, and has no subId.                     *)
Migrated ==
    Start(Rec(None, old, <<b1, a1>>, None),
          [Nowhere EXCEPT ![n1][c1] = [sub |-> old, on |-> {a1}]])

MCInitialData == {Start(NoRecord, Nowhere), Returning, Migrated}
=============================================================================
