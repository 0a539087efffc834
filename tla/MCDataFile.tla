----------------------------- MODULE MCDataFile -----------------------------
(* Two values of a section are enough for an old and a new content; of the *)
(* rest, one is a template of the other and one names an unset variable.   *)
EXTENDS DataFile, TLC

CONSTANTS plain, edit, template, unset

MCRest == {plain, edit, template, unset}
MCResolved == (plain :> plain) @@ (edit :> edit) @@ (template :> plain)
=============================================================================
