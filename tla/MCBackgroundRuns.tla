---------------------------- MODULE MCBackgroundRuns ----------------------------
(***************************************************************************)
(* The plans TLC lets a schedule have and be revised to.                   *)
(***************************************************************************)
EXTENDS BackgroundRuns

MCRank == [s \in Schedules |-> IF s = "s1" THEN 1 ELSE 2]

P(kind, first, period, missed, overlap) ==
    [kind |-> kind, first |-> first, period |-> period, zone |-> 0, grace |-> 0,
     missed |-> missed, overlap |-> overlap]
Daily(first, grace) == [P("daily", first, 1, "skip", "allow") EXCEPT !.grace = grace]

(* Times, periods, missed-fire and overlap policies that are revised into  *)
(* one another.                                                            *)
RunPlans ==
    {Daily(0, 1),
     P("interval", 1, 2, "catch_up", "cancel_previous"),
     P("interval", 2, 1, "catch_up", "skip_if_running"),
     P("interval", 2, 1, "skip", "allow")}

(* Schedules that are listed, disabled and revised.                        *)
SlotPlans ==
    {P("interval", 1, 1, "catch_up", "skip_if_running"),
     P("one_shot", 1, 1, "skip", "allow"),
     P("cron", 0, 1, "fire_once_now", "cancel_previous"),
     Daily(0, 0)}

================================================================================
