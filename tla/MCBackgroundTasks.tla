-------------------------- MODULE MCBackgroundTasks --------------------------
(* A calendar of two years of two minutes.  One schedule has a match in    *)
(* the first year only, one has none.                                      *)
EXTENDS BackgroundTasks
MCCrons == <<"report", "geofiles">>
MCSettings == {{"report", "geofiles", "external"},
               {"external", "monitoring", "bot"}}
MCSchedules == {{0, 2}, {0, 1, 2, 3}, {1}}
=============================================================================
