---------------------- MODULE MCExternalSubscriptions ----------------------
(* Two feeds of two urls.  The first one's entries have two equal labels,  *)
(* and a third whose words are those of a numbered slug.                   *)
EXTENDS ExternalSubscriptions

CONSTANTS f1, f2, u1, u2, dup, other

MCUrlOf == (f1 :> u1) @@ (f2 :> u2)
MCWords == <<<<dup>>, <<dup, 2>>, <<other>>>>
E(uri, label) == [uri |-> uri, label |-> label]
MCBodies ==
    (u1 :> {<<E(1, 1), E(2, 1), E(3, 2)>>, <<E(3, 2), E(2, 1), E(1, 1)>>,
            <<E(2, 1)>>})
    @@ (u2 :> {<<E(2, 3), E(2, 1), E(1, 2)>>})
MCPasses == (f1 :> {1, 2, 3}) @@ (f2 :> {1, 3})
MCInterval == (f1 :> 1) @@ (f2 :> 1)
=============================================================================
