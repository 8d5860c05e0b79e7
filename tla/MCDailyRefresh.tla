--------------------------- MODULE MCDailyRefresh ---------------------------
(* Values of DailyRefresh's constants for TLC: three of the registry's     *)
(* jobs, in its order and with the dependencies they have on each other:   *)
(* the last needs the first through the second only.                       *)
EXTENDS DailyRefresh, TLC

CONSTANTS powens, categorization, advisor

SomeJobs == <<powens, categorization, advisor>>
SomeDeps ==
    powens :> <<>> @@ categorization :> <<powens>> @@ advisor :> <<categorization>>

(* ADVISOR_ENABLED may be off; the other two are always on.                *)
SomeEnablings == {Jobs, Jobs \ {advisor}}
=============================================================================
