-------------------------- MODULE MCUpdateTransaction --------------------------
(***************************************************************************)
(* Small installations and the updates TLC lets a worker be asked for.     *)
(***************************************************************************)
EXTENDS UpdateTransaction

J(kind, native, ui, shell, health, release) ==
    [kind |-> kind, native |-> native, ui |-> ui, shell |-> shell, health |-> health,
     release |-> release]

(* One job of each kind, and one for each half of a component set.         *)
MCJobs ==
    {J("selected", {"core"}, "none", FALSE, FALSE, "r1"),
     J("staged", {}, "none", FALSE, TRUE, "r2"),
     J("set", {"listener"}, "none", FALSE, TRUE, "r1"),
     J("set", {"core", "exe"}, "u2", FALSE, TRUE, "r1"),
     J("set", {}, "u1", TRUE, TRUE, "r2"),
     J("ui", {}, "u1", FALSE, TRUE, "r1")}

UiOnlyJobs == {J("set", {}, "u1", FALSE, FALSE, "r1")}

ListenerJobs == {J("set", {"listener"}, "none", FALSE, FALSE, "r1")}

================================================================================
