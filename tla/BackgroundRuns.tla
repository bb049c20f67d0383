----------------------------- MODULE BackgroundRuns -----------------------------
(***************************************************************************)
(* Durable automation runs: the schedules and the two pollers that fire    *)
(* them (ipc_bridge_automation.rs for daily schedules,                     *)
(* durable_background_execution_runtime.rs for the others), the commands   *)
(* that create, delay and cancel runs and save schedules, and the tables   *)
(* they share (automation_store.rs, durable_background_execution_store.rs).*)
(*                                                                         *)
(* One mutex guards the database.  A command, and the handling of one      *)
(* schedule, hold it from beginning to end, so the steps of "op" are never *)
(* interleaved with those of another; but each store call commits on its   *)
(* own, so a crash may fall between any two of them.  A poller lists its   *)
(* schedules under the mutex and releases it: what it handles afterwards   *)
(* is a snapshot, of rows whose plan may have been revised since.          *)
(***************************************************************************)
EXTENDS Integers, FiniteSets

CONSTANTS
    Schedules,
    Rank,         \* the order of their ids
    Plans,        \* what a schedule may be, see PlanRecords
    Zones,        \* offsets from UTC
    Day,          \* the length of a day
    SkipAfter,    \* how late a one-shot or cron slot may be under "skip" (60 s)
    Clients,      \* idempotency keys of create_run
    Triggers,     \* idempotency keys of dispatch_trigger_automation
    MaxQueued,    \* max_queued of the queue
    Overflow,     \* its overflow policy: "drop" or "reject" (every policy without effect)
    CatchUp,      \* MAX_CATCH_UP
    WaitLimit,    \* rows list_waits returns
    ListLimit,    \* rows list_background_schedules returns
    MaxTime, MaxPeriod, MaxRevision, MaxCommands, MaxCrashes  \* bounds

(* A daily schedule has no background_spec_json; the first slot of a daily *)
(* or cron schedule is its local time of day.                              *)
PlanRecords == [kind : {"interval", "one_shot", "cron", "daily"}, first : Nat,
                period : Nat \ {0}, zone : Zones, grace : Nat,
                missed : {"skip", "fire_once_now", "catch_up"},
                overlap : {"allow", "skip_if_running", "cancel_previous"}]

ASSUME BackgroundAssumption ==
    /\ Day \in Nat \ {0} /\ Zones \subseteq Int /\ 0 \in Zones /\ SkipAfter \in Nat
    /\ Plans \subseteq PlanRecords
    /\ MaxTime \in Nat /\ MaxTime >= Day /\ MaxPeriod \in Nat
    /\ \A p \in Plans :
           /\ p.kind \in {"interval", "one_shot"} => p.first > 0
           /\ p.kind = "interval" => p.period <= MaxPeriod
           /\ p.kind \in {"cron", "daily"} => p.first < Day
    /\ "none" \notin Schedules /\ Rank \in [Schedules -> Nat]
    /\ Schedules \cap Clients = {} /\ Schedules \cap Triggers = {} /\ Clients \cap Triggers = {}
    /\ MaxQueued \in Nat /\ Overflow \in {"drop", "reject"}
    /\ CatchUp \in Nat \ {0} /\ WaitLimit \in Nat \ {0} /\ ListLimit \in Nat \ {0}
    /\ MaxRevision \in Nat \ {0} /\ MaxCommands \in Nat /\ MaxCrashes \in Nat

Times == 0..MaxTime
Slots == 1..(MaxTime + MaxPeriod)
Revisions == 1..MaxRevision

(* What last_slot and the keys of runs say of a slot: NULL, the number of  *)
(* a background poll, or the date of a daily poll, which has the offset.   *)
SlotNames == [form : {"ms", "rfc3339"}, zone : Zones, at : Slots]
NoSlot == [form |-> "null", zone |-> 0, at |-> 0]
Ms(x) == [form |-> "ms", zone |-> 0, at |-> x]
Rfc(p, x) == [form |-> "rfc3339", zone |-> p.zone, at |-> x]

(* A background poll reads only numbers.                                   *)
Parsed(c) == IF c.form = "ms" THEN c.at ELSE 0

(* The key of a run: of a client's request, schedule_fire_key, or the key  *)
(* of a daily slot.  A key names at most one run, so it stands for it too. *)
RunKeys == ((Clients \cup Triggers) \X {0} \X {NoSlot}) \cup (Schedules \X Revisions \X SlotNames)
States == {"none", "admitted", "queued", "cancelled", "dead_lettered"}
Active == {"admitted", "queued"}
Pollers == {"background", "daily"}
NoKey == <<"none", 0, NoSlot>>

VARIABLES
    sched,     \* automation_schedules: revision (0: no row), enabled, last_slot, plan
    runs,      \* automation_runs: state, whether the background columns are set, updated_at
    waits,     \* automation_waits: revision (0: no row), wake_at, open
    poll,      \* each poller: what it does, the schedules still to handle, its snapshot
    op,        \* the holder of the mutex
    now, crashes, commands,
    since,     \* history: daily slots fired since the time of the schedule was last changed
    lax        \* history: schedules whose policy allowed several runs at some time

vars == <<sched, runs, waits, poll, op, now, crashes, commands, since, lax>>

NoPlan == [kind |-> "daily", first |-> 0, period |-> 1, zone |-> 0, grace |-> 0,
           missed |-> "skip", overlap |-> "allow"]
Rows == [rev : 0..MaxRevision, enabled : BOOLEAN, last : SlotNames \cup {NoSlot},
         plan : PlanRecords]
Idle == [pc |-> "idle", who |-> "none", key |-> NoKey, time |-> 0, s |-> "none", plan |-> NoPlan,
         cursor |-> NoSlot, slots |-> {}, passed |-> {}, rev |-> 0, waits |-> {}]
Ops == [pc : {"idle", "save", "admit", "meta", "wait", "queue", "overlap", "advance", "disable",
              "resume", "complete"},
        who : {"none", "client", "trigger", "background", "daily"},
        key : RunKeys \cup {NoKey}, time : Times, s : Schedules \cup {"none"}, plan : PlanRecords,
        cursor : SlotNames \cup {NoSlot}, slots : SUBSET Slots, passed : SUBSET Slots,
        rev : 0..MaxRevision, waits : SUBSET RunKeys]
NoRow == [rev |-> 0, enabled |-> FALSE, last |-> NoSlot, plan |-> NoPlan]
Resting == [pc |-> "rest", todo |-> {}, snap |-> [s \in Schedules |-> NoRow], at |-> 0]

TypeOK ==
    /\ sched \in [Schedules -> Rows]
    /\ runs \in [RunKeys -> [state : States, meta : BOOLEAN, at : Times]]
    /\ waits \in [RunKeys -> [rev : 0..MaxRevision, wake : Times, open : BOOLEAN]]
    /\ poll \in [Pollers -> [pc : {"rest", "work"}, todo : SUBSET Schedules,
                             snap : [Schedules -> Rows], at : Times]]
    /\ op \in Ops
    /\ now \in Day..MaxTime /\ crashes \in 0..MaxCrashes /\ commands \in 0..MaxCommands
    /\ since \in [Schedules -> SUBSET (SlotNames \X Revisions)]
    /\ lax \subseteq Schedules

Init ==
    /\ sched = [s \in Schedules |-> NoRow]
    /\ runs = [k \in RunKeys |-> [state |-> "none", meta |-> FALSE, at |-> 0]]
    /\ waits = [k \in RunKeys |-> [rev |-> 0, wake |-> 0, open |-> FALSE]]
    /\ poll = [p \in Pollers |-> Resting]
    /\ op = Idle /\ now = Day /\ crashes = 0 /\ commands = 0
    /\ since = [s \in Schedules |-> {}] /\ lax = {}

Tick ==
    /\ now < MaxTime /\ now' = now + 1
    /\ UNCHANGED <<sched, runs, waits, poll, op, crashes, commands, since, lax>>

--------------------------------------------------------------------------------
(***************************************************************************)
(* The store: automation_store.rs and durable_background_execution_store.  *)
(***************************************************************************)

SetState(k, st) == runs' = [runs EXCEPT ![k].state = st, ![k].at = now]

(* advance_schedule_slot: compare and swap of last_slot.                   *)
Advance(s, expected, slot) ==
    sched' = IF sched[s].last = expected THEN [sched EXCEPT ![s].last = slot] ELSE sched

(* The row of a schedule is replaced; when its time changes, the history   *)
(* of its daily slots begins again.                                        *)
TimeOf(p) == <<p.kind, p.first, p.zone>>
Replan(s, row) ==
    /\ sched' = [sched EXCEPT ![s] = row]
    /\ since' = [since EXCEPT ![s] = IF TimeOf(row.plan) = TimeOf(sched[s].plan) THEN @ ELSE {}]

(* upsert_schedule, for a newer revision: last_slot stays, and so does the *)
(* background spec of a row that has one.                                  *)
Upserted(s, rev, on, p) ==
    [rev |-> rev, enabled |-> on, last |-> sched[s].last,
     plan |-> IF sched[s].plan.kind = "daily" THEN p ELSE sched[s].plan]

(* find_active_by_concurrency_key, oldest first: the key of a scheduled    *)
(* run is its schedule, once save_run_metadata has set it.                 *)
ActiveOf(s) == {k \in RunKeys : k[1] = s /\ runs[k].meta /\ runs[k].state \in Active}
Oldest(K) == {k \in K : \A j \in K : runs[k].at <= runs[j].at}

(* queue_load and drop_oldest_queued look at the rows of the queue.        *)
Queued == {k \in RunKeys : runs[k].meta /\ runs[k].state = "queued"}

(* list_waits: open waits by wake-up time, WaitLimit rows.                 *)
OpenWaits == {k \in RunKeys : waits[k].open}
ListWaits ==
    {W \in SUBSET OpenWaits :
        /\ Cardinality(W) <= WaitLimit
        /\ W # OpenWaits => Cardinality(W) = WaitLimit
        /\ \A k \in W, j \in OpenWaits \ W : waits[k].wake <= waits[j].wake}

(* put_wait: only a newer revision replaces a wait.                        *)
PutWait(k, rev, wake) ==
    waits' = IF rev > waits[k].rev
             THEN [waits EXCEPT ![k] = [rev |-> rev, wake |-> wake, open |-> TRUE]] ELSE waits

--------------------------------------------------------------------------------
(***************************************************************************)
(* Commands.                                                               *)
(***************************************************************************)

Begin(o) == op' = [Idle EXCEPT !.pc = o.pc, !.who = o.who, !.key = o.key, !.time = o.wake]

(* A command takes the mutex.                                              *)
Commanded == op.pc = "idle" /\ commands < MaxCommands /\ commands' = commands + 1

(* create_run: the load of the queue is read and, under the drop policy,   *)
(* its oldest run dead-lettered, before the idempotency key is looked up.  *)
CreateRun(c, wake) ==
    /\ Commanded
    /\ \/ Cardinality(Queued) < MaxQueued /\ UNCHANGED runs
       \/ /\ Cardinality(Queued) >= MaxQueued /\ Overflow = "drop"
          /\ \E k \in Oldest(Queued) : SetState(k, "dead_lettered")
    /\ Begin([pc |-> "admit", who |-> "client", key |-> <<c, 0, NoSlot>>, wake |-> wake])
    /\ UNCHANGED <<sched, waits, poll, now, crashes, since, lax>>

TriggerRun(t) ==
    /\ Commanded
    /\ Begin([pc |-> "admit", who |-> "trigger", key |-> <<t, 0, NoSlot>>, wake |-> 0])
    /\ UNCHANGED <<sched, runs, waits, poll, now, crashes, since, lax>>

(* "wait": a run of any state gets a wait; its state stays as it is.       *)
Wait(k, rev, wake) ==
    /\ Commanded /\ runs[k].state # "none"
    /\ PutWait(k, rev, wake)
    /\ UNCHANGED <<sched, runs, poll, op, now, crashes, since, lax>>

CancelRun(k) ==
    /\ Commanded /\ runs[k].state \in Active
    /\ SetState(k, "cancelled")
    /\ UNCHANGED <<sched, waits, poll, op, now, crashes, since, lax>>

(* dispatch_save_automation_schedule: a daily schedule, in one statement.  *)
SaveDaily(s, rev, on, p) ==
    /\ Commanded /\ rev > sched[s].rev /\ p.kind = "daily"
    /\ Replan(s, Upserted(s, rev, on, p))
    /\ UNCHANGED <<runs, waits, poll, op, now, crashes, lax>>

(* create_schedule and revise_schedule: save_background_schedule upserts   *)
(* the row, then sets spec and policies where the revision is this one.  A *)
(* row without a spec is a daily one until then.                           *)
HalfSaved(p) == [p EXCEPT !.kind = "daily", !.grace = 0,
                          !.first = IF p.kind = "cron" THEN @ ELSE 0,
                          !.zone = IF p.kind = "cron" THEN @ ELSE 0]

SaveBackground(s, rev, on, p) ==
    /\ Commanded /\ rev >= sched[s].rev /\ p.kind # "daily"
    /\ IF rev > sched[s].rev THEN Replan(s, Upserted(s, rev, on, HalfSaved(p)))
       ELSE UNCHANGED <<sched, since>>
    /\ op' = [Idle EXCEPT !.pc = "save", !.who = "client", !.s = s, !.rev = rev, !.plan = p]
    /\ UNCHANGED <<runs, waits, poll, now, crashes, lax>>

SetEnabled(s, on) ==
    /\ Commanded /\ sched[s].rev # 0 /\ sched[s].enabled # on
    /\ sched' = [sched EXCEPT ![s].enabled = on]
    /\ UNCHANGED <<runs, waits, poll, op, now, crashes, since, lax>>

SaveSpec ==
    /\ op.pc = "save"
    /\ IF sched[op.s].rev = op.rev
       THEN /\ Replan(op.s, [sched[op.s] EXCEPT !.plan = op.plan])
            /\ lax' = IF op.plan.overlap = "allow" THEN lax \cup {op.s} ELSE lax
       ELSE UNCHANGED <<sched, since, lax>>
    /\ op' = Idle
    /\ UNCHANGED <<runs, waits, poll, now, crashes, commands>>

--------------------------------------------------------------------------------
(***************************************************************************)
(* A run comes into being: admit_run, save_run_metadata, then put_wait or  *)
(* the transition to queued.                                               *)
(***************************************************************************)

After(pc) == op' = IF pc = "idle" THEN Idle ELSE [op EXCEPT !.pc = pc]

AdmitRun ==
    /\ op.pc = "admit" /\ runs[op.key].state = "none"
    /\ runs' = [runs EXCEPT ![op.key] = [state |-> "admitted", meta |-> FALSE, at |-> now]]
    /\ After(IF op.who \in {"trigger", "daily"} THEN "queue" ELSE "meta")
    /\ since' = IF op.key[3].form = "rfc3339"
                THEN [since EXCEPT ![op.s] = @ \cup {<<op.key[3], op.key[2]>>}] ELSE since
    /\ UNCHANGED <<sched, waits, poll, now, crashes, commands, lax>>

(* Mutant: an existing run ends the handling of the schedule.              *)
AdmitExistingStops ==
    /\ op.pc = "admit" /\ runs[op.key].state # "none"
    /\ After("idle")
    /\ UNCHANGED <<sched, runs, waits, poll, now, crashes, commands, since, lax>>

(* The key exists: a command changes nothing more, and the scheduler,      *)
(* whose fire key always stands for the same request, goes on to its       *)
(* cursor.                                                                 *)
AdmitExisting ==
    /\ op.pc = "admit" /\ runs[op.key].state # "none"
    /\ After(IF op.who = "background" THEN "advance" ELSE "idle")
    /\ UNCHANGED <<sched, runs, waits, poll, now, crashes, commands, since, lax>>

SaveMetadata ==
    /\ op.pc = "meta"
    /\ runs' = [runs EXCEPT ![op.key].meta = TRUE, ![op.key].at = now]
    /\ After(IF op.time # 0 THEN "wait" ELSE "queue")
    /\ UNCHANGED <<sched, waits, poll, now, crashes, commands, since, lax>>

ScheduleWait ==
    /\ op.pc = "wait"
    /\ PutWait(op.key, 1, op.time)
    /\ After("idle")
    /\ UNCHANGED <<sched, runs, poll, now, crashes, commands, since, lax>>

QueueRun ==
    /\ op.pc = "queue"
    /\ IF runs[op.key].state = "admitted" THEN SetState(op.key, "queued") ELSE UNCHANGED runs
    /\ After(IF op.who = "background" THEN "advance" ELSE "idle")
    /\ UNCHANGED <<sched, waits, poll, now, crashes, commands, since, lax>>

--------------------------------------------------------------------------------
(***************************************************************************)
(* The pollers.                                                            *)
(***************************************************************************)

(* The local day of a time has one slot of a daily or cron schedule.       *)
TodaySlot(p, t) == t - ((t + p.zone) % Day) + p.first

(* The last slot of a background schedule at or before a time, 0 if none.  *)
Latest(p, t) ==
    CASE p.kind = "one_shot" -> IF t >= p.first THEN p.first ELSE 0
      [] p.kind = "interval" ->
             IF t >= p.first THEN p.first + ((t - p.first) \div p.period) * p.period ELSE 0
      [] OTHER -> IF TodaySlot(p, t) > t THEN TodaySlot(p, t) - Day ELSE TodaySlot(p, t)

(* background_schedule_slots: an interval goes on from the cursor, wherever *)
(* an earlier plan left it, and always finds one slot at least.            *)
NextAfter(p, last) == IF last = 0 THEN p.first ELSE last + p.period
Count(p, last, t) ==
    IF NextAfter(p, last) > Latest(p, t) THEN 1
    ELSE (Latest(p, t) - NextAfter(p, last)) \div p.period + 1
CatchUpSlots(p, last, t) ==
    LET count == Count(p, last, t)
        start == IF count > CatchUp THEN count - CatchUp ELSE 0
    IN {NextAfter(p, last) + i * p.period : i \in start..(count - 1)}
Late(p, last, t) ==
    IF p.kind = "interval" THEN Count(p, last, t) > 1 ELSE t - Latest(p, t) > SkipAfter
CatchesUp(p) == p.kind = "interval" /\ p.missed = "catch_up"
ToFire(p, last, t) ==
    CASE CatchesUp(p) -> CatchUpSlots(p, last, t)
      [] p.missed = "skip" /\ Late(p, last, t) -> {}
      [] OTHER -> {Latest(p, t)}

(* The slots of a plan, those between a cursor and the latest, and the     *)
(* ones among them the policy gives up: all but CatchUp, or all but one.   *)
IsSlot(p, x) ==
    CASE p.kind = "one_shot" -> x = p.first
      [] p.kind = "interval" -> \E k \in 0..x : x = p.first + k * p.period
      [] OTHER -> x = TodaySlot(p, x)
Due(p, last, t) == {x \in Slots : last < x /\ x <= Latest(p, t) /\ IsSlot(p, x)}
GivenUp(p, last, t) ==
    IF CatchesUp(p) THEN {x \in Due(p, last, t) : x + CatchUp * p.period <= Latest(p, t)}
    ELSE Due(p, last, t) \ ToFire(p, last, t)

(* A poller lists the schedules of its kind and lets the mutex go.  The    *)
(* background poll reads the first ListLimit rows, disabled ones included, *)
(* and passes over those.  A daily poll with nothing to do changes         *)
(* nothing.                                                                *)
Background == {s \in Schedules : sched[s].rev # 0 /\ sched[s].plan.kind # "daily"}
FirstPage == {s \in Background : Cardinality({r \in Background : Rank[r] < Rank[s]}) < ListLimit}
Listed(p) ==
    IF p = "background" THEN {s \in FirstPage : sched[s].enabled}
    ELSE {s \in Schedules : sched[s].rev # 0 /\ sched[s].enabled /\ sched[s].plan.kind = "daily"}

ListSchedules(p) ==
    /\ op.pc = "idle" /\ poll[p].pc = "rest"
    /\ p = "daily" => Listed(p) # {}
    /\ poll' = [poll EXCEPT ![p] =
            [pc |-> "work", todo |-> Listed(p), at |-> now,
             snap |-> [s \in Schedules |-> IF s \in Listed(p) THEN sched[s] ELSE NoRow]]]
    /\ UNCHANGED <<sched, runs, waits, op, now, crashes, commands, since, lax>>

Done(p, s) == poll' = [poll EXCEPT ![p].todo = @ \ {s}, ![p].snap[s] = NoRow]

(* One background schedule of the snapshot: its slots are computed, or the *)
(* cursor goes past them all.                                              *)
TakeSchedule(s) ==
    LET p == poll["background"]
        row == p.snap[s]
        last == Parsed(row.last)
        latest == Latest(row.plan, p.at)
        slots == ToFire(row.plan, last, p.at)
    IN  /\ op.pc = "idle" /\ p.pc = "work" /\ s \in p.todo
        /\ Done("background", s)
        /\ \/ last >= latest /\ UNCHANGED <<sched, op>>
           \/ /\ last < latest /\ slots = {}
              /\ Advance(s, row.last, Ms(latest))
              /\ op' = IF row.plan.kind = "one_shot"
                       THEN [Idle EXCEPT !.pc = "disable", !.who = "background", !.s = s] ELSE op
           \/ /\ last < latest /\ slots # {}
              /\ op' = [Idle EXCEPT !.pc = "overlap", !.who = "background", !.s = s,
                                    !.plan = row.plan, !.cursor = row.last, !.rev = row.rev,
                                    !.slots = slots, !.passed = GivenUp(row.plan, last, p.at)]
              /\ UNCHANGED sched
        /\ UNCHANGED <<runs, waits, now, crashes, commands, since, lax>>

NextSlot == CHOOSE x \in op.slots : \A y \in op.slots : x <= y

(* The cursor follows when the compare and swap succeeds.                  *)
Follow(slot) == IF sched[op.s].last = op.cursor THEN slot ELSE op.cursor

(* The overlap policy, for the next slot: skip it, cancel the oldest run   *)
(* that is active, or just fire.                                           *)
Skips == op.plan.overlap = "skip_if_running" /\ ActiveOf(op.s) # {}

SkipOverlap ==
    /\ op.pc = "overlap" /\ op.slots # {} /\ Skips
    /\ Advance(op.s, op.cursor, Ms(NextSlot))
    /\ op' = [op EXCEPT !.slots = @ \ {NextSlot}, !.cursor = Follow(Ms(NextSlot))]
    /\ UNCHANGED <<runs, waits, poll, now, crashes, commands, since, lax>>

(* Mutant: the policy cancel_previous cancels nothing.                     *)
FireSlotKeeping ==
    /\ op.pc = "overlap" /\ op.slots # {} /\ ~Skips
    /\ op' = [op EXCEPT !.pc = "admit", !.key = <<op.s, op.rev, Ms(NextSlot)>>]
    /\ UNCHANGED <<sched, runs, waits, poll, now, crashes, commands, since, lax>>

(* Mutant: the cursor is moved before the run is admitted.                 *)
FireSlotCursorFirst ==
    /\ op.pc = "overlap" /\ op.slots # {} /\ ~Skips
    /\ Advance(op.s, op.cursor, Ms(NextSlot))
    /\ op' = [op EXCEPT !.pc = "admit", !.key = <<op.s, op.rev, Ms(NextSlot)>>]
    /\ UNCHANGED <<runs, waits, poll, now, crashes, commands, since, lax>>

FireSlot ==
    /\ op.pc = "overlap" /\ op.slots # {} /\ ~Skips
    /\ IF op.plan.overlap = "cancel_previous" /\ ActiveOf(op.s) # {}
       THEN \E k \in Oldest(ActiveOf(op.s)) : SetState(k, "cancelled")
       ELSE UNCHANGED runs
    /\ op' = [op EXCEPT !.pc = "admit", !.key = <<op.s, op.rev, Ms(NextSlot)>>]
    /\ UNCHANGED <<sched, waits, poll, now, crashes, commands, since, lax>>

AdvanceCursor ==
    /\ op.pc = "advance"
    /\ Advance(op.s, op.cursor, op.key[3])
    /\ op' = [op EXCEPT !.pc = "overlap", !.slots = @ \ {op.key[3].at},
                        !.cursor = Follow(op.key[3])]
    /\ UNCHANGED <<runs, waits, poll, now, crashes, commands, since, lax>>

LastSlotDone ==
    /\ op.pc = "overlap" /\ op.slots = {}
    /\ After(IF op.plan.kind = "one_shot" THEN "disable" ELSE "idle")
    /\ UNCHANGED <<sched, runs, waits, poll, now, crashes, commands, since, lax>>

DisableOneShot ==
    /\ op.pc = "disable"
    /\ sched' = [sched EXCEPT ![op.s].enabled = FALSE]
    /\ After("idle")
    /\ UNCHANGED <<runs, waits, poll, now, crashes, commands, since, lax>>

(* DailySchedule::decide: the slot of today, unless the cursor stands on   *)
(* it or its time is still to come.                                        *)
DailyDue(row, t) ==
    /\ row.last # Rfc(row.plan, TodaySlot(row.plan, t))
    /\ t >= TodaySlot(row.plan, t)
Missed(row, t) == t - TodaySlot(row.plan, t) > row.plan.grace

(* Mutant: the run is admitted first and the cursor moved afterwards.      *)
TakeDailyAdmitFirst(s) ==
    LET p == poll["daily"]
        row == p.snap[s]
        slot == Rfc(row.plan, TodaySlot(row.plan, p.at))
    IN  /\ op.pc = "idle" /\ p.pc = "work" /\ s \in p.todo
        /\ Done("daily", s)
        /\ op' = IF DailyDue(row, p.at) /\ ~Missed(row, p.at)
                 THEN [Idle EXCEPT !.pc = "admit", !.who = "background", !.s = s,
                                   !.cursor = row.last, !.key = <<s, row.rev, slot>>]
                 ELSE op
        /\ UNCHANGED <<sched, runs, waits, now, crashes, commands, since, lax>>

(* One daily schedule of the snapshot: the cursor goes first, and the run  *)
(* is admitted only by the poll that moved it, unless the slot is missed.  *)
TakeDaily(s) ==
    LET p == poll["daily"]
        row == p.snap[s]
        slot == Rfc(row.plan, TodaySlot(row.plan, p.at))
    IN  /\ op.pc = "idle" /\ p.pc = "work" /\ s \in p.todo
        /\ Done("daily", s)
        /\ IF DailyDue(row, p.at)
           THEN /\ Advance(s, row.last, slot)
                /\ op' = IF sched[s].last = row.last /\ ~Missed(row, p.at)
                         THEN [Idle EXCEPT !.pc = "admit", !.who = "daily", !.s = s,
                                           !.key = <<s, row.rev, slot>>]
                         ELSE op
           ELSE UNCHANGED <<sched, op>>
        /\ UNCHANGED <<runs, waits, now, crashes, commands, since, lax>>

(* The background poll goes on to the waits, the daily one sleeps.         *)
SchedulesDone(p) ==
    /\ op.pc = "idle" /\ poll[p].pc = "work" /\ poll[p].todo = {}
    /\ \/ p = "daily" /\ poll' = [poll EXCEPT ![p] = Resting] /\ UNCHANGED op
       \/ /\ p = "background"
          /\ \E W \in ListWaits :
                op' = [Idle EXCEPT !.pc = "resume", !.who = "background", !.waits = W,
                                   !.time = poll[p].at]
          /\ poll' = [poll EXCEPT ![p] = Resting]
    /\ UNCHANGED <<sched, runs, waits, now, crashes, commands, since, lax>>

(* Mutant: a due wait queues its run whatever the run has become.          *)
ResumeAnyRun(k) ==
    /\ op.pc = "resume" /\ k \in op.waits
    /\ IF waits[k].wake <= op.time
       THEN /\ SetState(k, "queued")
            /\ op' = [op EXCEPT !.pc = "complete", !.key = k, !.waits = @ \ {k}]
       ELSE UNCHANGED runs /\ op' = [op EXCEPT !.waits = @ \ {k}]
    /\ UNCHANGED <<sched, waits, poll, now, crashes, commands, since, lax>>

(* The wait of a run that is due: the run is queued, then the wait closed; *)
(* a run that is not waiting or admitted any more keeps its wait open.     *)
ResumeRun(k) ==
    /\ op.pc = "resume" /\ k \in op.waits
    /\ IF waits[k].wake <= op.time /\ runs[k].state = "admitted"
       THEN /\ SetState(k, "queued")
            /\ op' = [op EXCEPT !.pc = "complete", !.key = k, !.waits = @ \ {k}]
       ELSE UNCHANGED runs /\ op' = [op EXCEPT !.waits = @ \ {k}]
    /\ UNCHANGED <<sched, waits, poll, now, crashes, commands, since, lax>>

CompleteWait ==
    /\ op.pc = "complete"
    /\ waits' = [waits EXCEPT ![op.key].open = FALSE]
    /\ After("resume")
    /\ UNCHANGED <<sched, runs, poll, now, crashes, commands, since, lax>>

WaitsDone ==
    /\ op.pc = "resume" /\ op.waits = {} /\ After("idle")
    /\ UNCHANGED <<sched, runs, waits, poll, now, crashes, commands, since, lax>>

(* Core stops and starts again.  recover_durable_background_execution      *)
(* looks at attempts only, and no attempt is ever running.                 *)
Crash ==
    /\ crashes < MaxCrashes /\ crashes' = crashes + 1
    /\ op' = Idle /\ poll' = [p \in Pollers |-> Resting]
    /\ UNCHANGED <<sched, runs, waits, now, commands, since, lax>>

--------------------------------------------------------------------------------

OpStep ==
    \/ SaveSpec \/ AdmitRun \/ AdmitExisting \/ SaveMetadata \/ ScheduleWait \/ QueueRun
    \/ SkipOverlap \/ FireSlot \/ AdvanceCursor \/ LastSlotDone \/ DisableOneShot
    \/ \E k \in RunKeys : ResumeRun(k)
    \/ CompleteWait \/ WaitsDone

PollStep(p) ==
    \/ ListSchedules(p) \/ SchedulesDone(p)
    \/ p = "background" /\ \E s \in Schedules : TakeSchedule(s)
    \/ p = "daily" /\ \E s \in Schedules : TakeDaily(s)

Command ==
    \/ \E c \in Clients, w \in Times : CreateRun(c, w)
    \/ \E t \in Triggers : TriggerRun(t)
    \/ \E k \in RunKeys, r \in Revisions, w \in Times \ {0} : Wait(k, r, w)
    \/ \E k \in RunKeys : CancelRun(k)
    \/ \E s \in Schedules, r \in Revisions, on \in BOOLEAN, p \in Plans :
           SaveDaily(s, r, on, p) \/ SaveBackground(s, r, on, p)
    \/ \E s \in Schedules, on \in BOOLEAN : SetEnabled(s, on)

Next == Tick \/ OpStep \/ (\E p \in Pollers : PollStep(p)) \/ Command \/ Crash

Spec == Init /\ [][Next]_vars

(* The holder of the mutex goes on, both poll loops run for ever (main.rs) *)
(* and the mutex is fair.                                                  *)
FairSpec == Spec /\ WF_vars(OpStep) /\ \A p \in Pollers : SF_vars(PollStep(p))

--------------------------------------------------------------------------------
(***************************************************************************)
(* Properties.                                                             *)
(***************************************************************************)

(* A time is a whole number of periods away from the first slot.           *)
OnGrid(p, x) == IsSlot(p, x) \/ \E k \in 0..p.first : x + k * p.period = p.first

(* The plan a background poll moves a cursor by, and the slots its policy  *)
(* gave up when it began.                                                  *)
Mover(s) ==
    LET row == poll["background"].snap[s]
    IN IF op.pc # "idle" THEN [plan |-> op.plan, passed |-> op.passed]
       ELSE [plan |-> row.plan,
             passed |-> GivenUp(row.plan, Parsed(row.last), poll["background"].at)]

(* A poll that moves the cursor of a background schedule passes no slot of *)
(* its plan that has no run, was not given up by the missed-fire policy    *)
(* and is not skipped for an active run: whatever revisions come between   *)
(* the listing and the move, and crashes between the admission of the run  *)
(* and the move (poll_background_schedules).  Excepted is catch_up from a  *)
(* cursor that an earlier plan left between the slots of this one.         *)
NoSlotLost ==
    [][\A s \in Schedules :
        LET p == Mover(s).plan
            from == Parsed(sched[s].last)
            to == sched'[s].last
        IN  to # sched[s].last /\ to.form = "ms"
              /\ ~(CatchesUp(p) /\ from # 0 /\ ~OnGrid(p, from))
            => \A x \in Slots : from < x /\ x <= to.at /\ IsSlot(p, x) =>
                   \/ x \in Mover(s).passed
                   \/ \E r \in Revisions : runs'[<<s, r, Ms(x)>>].state # "none"
                   \/ x = to.at /\ op.pc = "overlap" /\ Skips]_vars

(* A daily slot is fired once at most while the time of the schedule       *)
(* stays, across other revisions of the schedule, polls that began under   *)
(* an earlier time, commands between the listing and the firing, and       *)
(* crashes: the cursor moves first (poll_automation_schedules).            *)
DailySlotAtMostOnce ==
    \A s \in Schedules : \A f, g \in since[s] : f[1] = g[1] => f = g

(* The run a schedule queues is the only one of the schedule the overlap   *)
(* policy knows of, whatever the policy was before: always for             *)
(* skip_if_running, and for cancel_previous, which cancels one run, unless *)
(* some revision of the schedule allowed several.                          *)
ExclusiveWhenQueued ==
    [][\A k \in RunKeys :
        (/\ op.pc = "queue" /\ op.who = "background" /\ k = op.key /\ runs'[k].state = "queued"
         /\ \/ op.plan.overlap = "skip_if_running"
            \/ op.plan.overlap = "cancel_previous" /\ op.s \notin lax)
        => {j \in RunKeys : j[1] = op.s /\ runs'[j].meta /\ runs'[j].state \in Active} = {k}]_vars

(* A run that was cancelled or dead-lettered stays so: no late wake-up, no *)
(* retried slot or request brings it back (transition_run compares the     *)
(* state).                                                                 *)
EndedRunsStay ==
    [][\A k \in RunKeys :
        runs[k].state \in {"cancelled", "dead_lettered"} => runs'[k].state = runs[k].state]_vars

(* A slot that is due is passed by the cursor in the end, unless the       *)
(* schedule is disabled (a one-shot disables itself) or revised to a plan  *)
(* without the slot, is not among the first rows a background poll lists,  *)
(* or, for a daily slot, its day ends first.                               *)
Waiting(s, x) ==
    /\ sched[s].rev # 0 /\ sched[s].enabled /\ x <= now
    /\ IF sched[s].plan.kind = "daily" THEN x = TodaySlot(sched[s].plan, now)
       ELSE IsSlot(sched[s].plan, x) /\ s \in FirstPage
Reached(s, x) ==
    IF sched[s].plan.kind = "daily" THEN sched[s].last = Rfc(sched[s].plan, x)
    ELSE Parsed(sched[s].last) >= x
DueSlotsAreHandled ==
    \A s \in Schedules, x \in 1..MaxTime : Waiting(s, x) ~> (Reached(s, x) \/ ~Waiting(s, x))

----------------------------------------------------------------------------
(* Statements that the code does not keep.  No run checks them; the README *)
(* lists them as known deviations.                                         *)

(* durable_background_execution_runtime.rs: the poll "resumes runs whose   *)
(* wait conditions are satisfied".                                         *)
DueWaitsResume ==
    \A k \in RunKeys :
        (runs[k].state = "admitted" /\ waits[k].open /\ waits[k].wake <= now) ~>
            runs[k].state # "admitted"

(* durable_background_execution.rs: "Cancel the existing run before        *)
(* starting the new one" -- the run a poll cancels for a slot is that of   *)
(* another slot.                                                           *)
NoSlotCancelsItself ==
    [][\A k \in RunKeys :
        (op.pc = "overlap" /\ runs[k].state \in Active /\ runs'[k].state = "cancelled")
        => k[3] # Ms(NextSlot)]_vars

================================================================================
