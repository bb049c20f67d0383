----------------------------- MODULE OnceOnlyWork -----------------------------
(***************************************************************************)
(* What the durable run effects promise: the work of a run is started once  *)
(* at most; its outcome is recorded once and for good; work a restart found *)
(* open is of unknown outcome and is never started again; and where the     *)
(* world shows whether the work was done, the record agrees with the world. *)
(*                                                                          *)
(* There is no lease here, no worker, no crash and no startup pass: those   *)
(* are how RunEffects keeps the promise.                                    *)
(***************************************************************************)
EXTENDS Naturals

CONSTANTS
    Runs,
    Checkable    \* runs whose work leaves a mark that can be looked at

VARIABLES
    phase,       \* the recorded outcome of a run
    starts,      \* how often its work was started
    done         \* the checkable runs whose work was carried out in full

Outcomes == {"success", "failure"}
Phases == {"waiting", "open", "unknown"} \cup Outcomes

Init ==
    /\ phase = [r \in Runs |-> "waiting"]
    /\ starts = [r \in Runs |-> 0]
    /\ done = {}

StartWork(r) ==
    /\ phase[r] = "waiting"
    /\ phase' = [phase EXCEPT ![r] = "open"]
    /\ starts' = [starts EXCEPT ![r] = @ + 1]
    /\ UNCHANGED done

CarryOut(r) ==
    /\ phase[r] = "open" /\ r \in Checkable
    /\ done' = done \cup {r}
    /\ UNCHANGED <<phase, starts>>

\* The outcome is recorded by the one who did the work ...
Record(r, outcome) ==
    /\ phase[r] = "open"
    /\ r \in Checkable => (outcome = "success" <=> r \in done)
    /\ phase' = [phase EXCEPT ![r] = outcome]
    /\ UNCHANGED <<starts, done>>

\* ... or nobody can tell any more, for all the work that was open,
LoseTrack ==
    /\ phase' = [r \in Runs |-> IF phase[r] = "open" THEN "unknown" ELSE phase[r]]
    /\ UNCHANGED <<starts, done>>

\* until it is shown to have succeeded.
Confirm(r) ==
    /\ phase[r] = "unknown"
    /\ r \in Checkable => r \in done
    /\ phase' = [phase EXCEPT ![r] = "success"]
    /\ UNCHANGED <<starts, done>>

Next ==
    \/ \E r \in Runs : StartWork(r) \/ CarryOut(r) \/ Confirm(r)
    \/ \E r \in Runs, outcome \in Outcomes : Record(r, outcome)
    \/ LoseTrack

Spec == Init /\ [][Next]_<<phase, starts, done>>

===============================================================================
