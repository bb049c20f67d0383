------------------------- MODULE BackgroundRunsProofs -------------------------
(***************************************************************************)
(* Proofs about BackgroundRuns: no slot is lost, a daily slot fires once,  *)
(* the overlap policies hold and ended runs stay ended, for any number of  *)
(* schedules, plans, revisions, clients, commands and crashes.             *)
(***************************************************************************)
EXTENDS BackgroundRuns, TLAPS, WellFoundedInduction

--------------------------------------------------------------------------------
(* The inductive invariant.                                                *)

(* The first of a set of slots.                                            *)
Earliest(S) == CHOOSE x \in S : \A y \in S : x <= y

(* What the assumption says of a plan, and what a half-saved one keeps.    *)
Fits(p) ==
    /\ p \in PlanRecords
    /\ p.kind \in {"interval", "one_shot"} => p.first > 0
    /\ p.kind = "interval" => p.period <= MaxPeriod
    /\ p.kind \in {"cron", "daily"} => p.first < Day

(* The background poll is at work on a slot of a schedule, and has chosen  *)
(* the key of its run.                                                     *)
Firing == op.who = "background" /\ op.pc \in {"overlap", "admit", "meta", "queue", "advance"}
Keyed == op.who = "background" /\ op.pc \in {"admit", "meta", "queue", "advance"}

(* What a poller still has to handle was listed for it, after it began.  A *)
(* schedule with a background spec keeps one.                              *)
Snapped(p, s) ==
    /\ poll[p].snap[s].rev # 0 /\ Fits(poll[p].snap[s].plan)
    /\ p = "daily" => poll[p].snap[s].plan.kind = "daily"
    /\ p = "background" => poll[p].snap[s].plan.kind # "daily" /\ sched[s].plan.kind # "daily"
PollOK ==
    /\ \A s \in Schedules : Fits(sched[s].plan)
    /\ \A p \in Pollers :
        /\ poll[p].pc = "work" => poll[p].at \in Day..now
        /\ \A s \in poll[p].todo : Snapped(p, s)

(* What the holder of the mutex has in hand.                               *)
OpOK ==
    /\ op.pc \in {"admit", "meta", "wait", "queue", "advance", "complete"} => op.key \in RunKeys
    /\ op.pc \in {"overlap", "advance", "disable"} => op.s \in Schedules /\ op.who = "background"
    /\ op.pc \in {"resume", "complete"} => op.who = "background"
    /\ Firing => /\ op.s \in Schedules /\ op.rev # 0 /\ op.time = 0 /\ Fits(op.plan)
                 /\ op.plan.kind # "daily" /\ sched[op.s].plan.kind # "daily"
    /\ Keyed => op.slots # {} /\ op.key = <<op.s, op.rev, Ms(Earliest(op.slots))>>
    /\ op.who = "daily" =>
           /\ op.pc \in {"admit", "queue"} /\ op.s \in Schedules
           /\ \E r \in Revisions, n \in SlotNames : n.form = "rfc3339" /\ op.key = <<op.s, r, n>>
    /\ op.pc = "save" => /\ op.who = "client" /\ op.s \in Schedules /\ op.rev \in Revisions
                         /\ op.plan \in Plans /\ op.plan.kind # "daily"
    /\ op.who \in {"client", "trigger"} /\ op.pc # "save" =>
           op.s = "none" /\ op.key \in (Clients \cup Triggers) \X {0} \X {NoSlot}
    /\ op.pc \in {"admit", "meta", "queue"} => op.who # "none"
    /\ op.who = "none" => op.s = "none" /\ op.pc = "idle"
    /\ op.pc = "idle" => op.who = "none"

BaseInv == TypeOK /\ PollOK /\ OpOK

(* The slots in hand: whatever lies between the cursor and one of them was *)
(* given up or is in hand too, unless catch_up began off the grid and all  *)
(* it has in hand is off the grid.                                         *)
Covers(p, last, slots, passed) ==
    \A y \in slots, x \in Slots : IsSlot(p, x) /\ last < x /\ x <= y => x \in passed \cup slots
Off(p, x) == CatchesUp(p) /\ x # 0 /\ ~OnGrid(p, x)
InHand ==
    \/ Off(op.plan, Parsed(op.cursor)) /\ \A y \in op.slots : Off(op.plan, y)
    \/ Covers(op.plan, Parsed(op.cursor), op.slots, op.passed)
SlotInv ==
    /\ Firing => \A y \in op.slots : Parsed(op.cursor) < y
    /\ Firing /\ sched[op.s].last = op.cursor => InHand
    /\ op.who = "background" /\ op.pc \in {"meta", "queue", "advance"} =>
           runs[op.key].state # "none"

(* A name stands for a slot of a daily plan.                               *)
Aligned(p, n) == n.form = "rfc3339" /\ n.zone = p.zone /\ TodaySlot(p, n.at) = n.at

(* What was fired under the plan lies before a cursor of the plan.         *)
Before(F, p, cursor) ==
    \A f \in F : Aligned(p, f[1]) => Aligned(p, cursor) /\ f[1].at <= cursor.at
DailyInv ==
    /\ \A s \in Schedules :
        /\ sched[s].last.form = "rfc3339" => sched[s].last.at <= now
        /\ sched[s].plan.kind = "daily" => Before(since[s], sched[s].plan, sched[s].last)
    /\ \A s \in poll["daily"].todo :
        LET row == poll["daily"].snap[s]
        IN  /\ row.last.form = "rfc3339" => row.last.at <= poll["daily"].at
            /\ \/ since[s] = {}
               \/ TimeOf(row.plan) = TimeOf(sched[s].plan) /\ Before(since[s], row.plan, row.last)
    /\ op.who = "daily" => op.s \notin poll["daily"].todo
    /\ op.who = "daily" /\ op.pc = "admit" =>
           op.key[3] = sched[op.s].last /\ \A f \in since[op.s] : f[1] # op.key[3]
    /\ DailySlotAtMostOnce

(* A schedule whose policy never allowed several runs has one at most the  *)
(* policy knows of, and none while the next is made.                       *)
Strict(p, s) == p.overlap = "skip_if_running" \/ (p.overlap = "cancel_previous" /\ s \notin lax)
Allows(p) == p.kind # "daily" /\ p.overlap = "allow"
ExclusiveInv ==
    /\ \A s \in Schedules : Allows(sched[s].plan) => s \in lax
    /\ \A s \in poll["background"].todo : Allows(poll["background"].snap[s].plan) => s \in lax
    /\ Firing /\ Allows(op.plan) => op.s \in lax
    /\ \A s \in Schedules : s \notin lax => \A j, k \in ActiveOf(s) : j = k
    /\ op.who = "background" /\ op.pc = "queue" =>
           runs[op.key].state = "admitted" /\ runs[op.key].meta
    /\ op.who = "background" /\ op.pc = "meta" => runs[op.key].state = "admitted"
    /\ op.who = "background" /\ op.pc \in {"admit", "meta"} /\ Strict(op.plan, op.s) =>
           ActiveOf(op.s) = {}
    /\ op.who = "background" /\ op.pc = "queue" /\ Strict(op.plan, op.s) =>
           ActiveOf(op.s) \subseteq {op.key}

RunsInv == BaseInv /\ SlotInv /\ DailyInv /\ ExclusiveInv

--------------------------------------------------------------------------------
(* Slots.                                                                  *)

LEMMA Bounds ==
    /\ Day \in Nat \ {0} /\ MaxTime \in Nat /\ MaxTime >= Day /\ MaxPeriod \in Nat
    /\ CatchUp \in Nat \ {0} /\ MaxRevision \in Nat \ {0} /\ MaxCommands \in Nat
    /\ MaxCrashes \in Nat /\ SkipAfter \in Nat
BY BackgroundAssumption

LEMMA ZoneTypes == 0 \in Zones /\ \A z \in Zones : z \in Int
BY BackgroundAssumption

LEMMA PlansFit == \A p \in Plans : Fits(p)
BY BackgroundAssumption DEF Fits

LEMMA FitTypes ==
    ASSUME NEW p, Fits(p)
    PROVE  /\ p.kind \in {"interval", "one_shot", "cron", "daily"}
           /\ p.first \in Nat /\ p.period \in Nat \ {0} /\ p.zone \in Zones /\ p.zone \in Int
           /\ p.kind \in {"interval", "one_shot"} => p.first > 0
           /\ p.kind = "interval" => p.period <= MaxPeriod
           /\ p.kind \in {"cron", "daily"} => p.first < Day
BY ZoneTypes DEF Fits, PlanRecords

LEMMA EarliestIsFirst ==
    ASSUME NEW S, S \subseteq Slots, S # {}
    PROVE  Earliest(S) \in S /\ \A y \in S : Earliest(S) <= y
<1>1. S \subseteq Nat
  BY Bounds DEF Slots
<1>2. PICK x \in S : \A y \in S : ~(<<y, x>> \in OpToRel(<, Nat))
  BY <1>1, WFMin, NatLessThanWellFounded
<1>3. \A m, n \in Nat : m < n => <<m, n>> \in OpToRel(<, Nat)
  BY DEF OpToRel
<1>4. \A y \in S : ~(y < x)
  BY <1>1, <1>2, <1>3
<1>5. \A y \in S : x <= y
  BY <1>1, <1>4
<1> QED  BY <1>5 DEF Earliest

LEMMA NextSlotIsEarliest == NextSlot = Earliest(op.slots)
BY DEF NextSlot, Earliest

LEMMA ModMonotone ==
    ASSUME NEW a \in Int, NEW b \in Int, a <= b, NEW q \in Nat \ {0}
    PROVE  a - (a % q) <= b - (b % q)
OBVIOUS

LEMMA ModRange ==
    ASSUME NEW a \in Int, NEW q \in Nat \ {0}
    PROVE  a % q \in Nat /\ a % q < q
OBVIOUS

LEMMA ModOfSum ==
    ASSUME NEW a \in Int, NEW q \in Nat \ {0}, NEW f \in 0..(q - 1)
    PROVE  (a - (a % q) + f) % q = f
OBVIOUS

(* The slot of a day: it belongs to its own day, and later times have      *)
(* later slots.                                                            *)
LEMMA TodayType ==
    ASSUME NEW p, Fits(p), NEW t \in Day..MaxTime
    PROVE  TodaySlot(p, t) \in Int /\ TodaySlot(p, t) >= 1
<1> USE Bounds
<1>1. t \in Nat /\ p.zone \in Int /\ p.first \in Nat /\ t >= Day /\ Day \in Nat \ {0}
  BY FitTypes
<1>2. (t + p.zone) % Day \in Nat /\ (t + p.zone) % Day < Day
  BY <1>1, ModRange
<1> QED  BY <1>1, <1>2 DEF TodaySlot

LEMMA TodayMonotone ==
    ASSUME NEW p, Fits(p), NEW t \in Int, NEW u \in Int, t <= u
    PROVE  TodaySlot(p, t) <= TodaySlot(p, u)
<1> USE Bounds
<1>1. p.zone \in Int /\ p.first \in Nat /\ Day \in Nat \ {0}
  BY FitTypes
<1>4. t + p.zone \in Int /\ u + p.zone \in Int /\ t + p.zone <= u + p.zone
  BY <1>1
<1>2. (t + p.zone) - ((t + p.zone) % Day) <= (u + p.zone) - ((u + p.zone) % Day)
  BY <1>1, <1>4, ModMonotone
<1>3. (t + p.zone) % Day \in Nat /\ (u + p.zone) % Day \in Nat
  BY <1>1, ModRange
<1> QED  BY <1>1, <1>2, <1>3 DEF TodaySlot

LEMMA TodayOfToday ==
    ASSUME NEW p, Fits(p), p.kind \in {"cron", "daily"}, NEW t \in Int
    PROVE  TodaySlot(p, TodaySlot(p, t)) = TodaySlot(p, t)
<1> USE Bounds
<1> DEFINE a == t + p.zone
           x == TodaySlot(p, t)
<1>1. p.zone \in Int /\ p.first \in 0..(Day - 1) /\ Day \in Nat \ {0} /\ a \in Int
  BY FitTypes
<1>2. a % Day \in Nat /\ (a - (a % Day) + p.first) % Day = p.first
  BY <1>1, ModRange, ModOfSum
<1>3. x \in Int /\ x + p.zone = a - (a % Day) + p.first
  BY <1>1, <1>2 DEF TodaySlot
<1>4. TodaySlot(p, x) = x - ((x + p.zone) % Day) + p.first
  BY DEF TodaySlot
<1> HIDE DEF x, a
<1>5. (x + p.zone) % Day = p.first
  BY <1>2, <1>3
<1>6. TodaySlot(p, x) = x - p.first + p.first
  BY <1>4, <1>5
<1>7. TodaySlot(p, x) = x
  BY <1>1, <1>3, <1>6
<1> QED  BY <1>7 DEF x

(* The latest slot is none, or lies between the first time and the time    *)
(* asked for.                                                              *)
LEMMA LatestType ==
    ASSUME NEW p, Fits(p), p.kind # "daily", NEW t \in Day..MaxTime
    PROVE  Latest(p, t) \in 0..t
<1> USE Bounds
<1>1. t \in Nat /\ t >= Day /\ t >= 1 /\ p.first \in Nat /\ p.period \in Nat \ {0}
  BY FitTypes
<1>2. CASE p.kind = "one_shot"
  BY <1>1, <1>2 DEF Latest
<1>3. CASE p.kind = "interval"
  <2>1. CASE t >= p.first
    <3>1. t - p.first \in Nat
      BY <1>1, <2>1
    <3>2. \A a \in Nat, e \in Nat \ {0} : (a \div e) * e \in 0..a
      OBVIOUS
    <3>3. ((t - p.first) \div p.period) * p.period \in 0..(t - p.first)
      BY <3>1, <3>2, <1>1
    <3> QED  BY <3>3, <2>1, <1>1, <1>3 DEF Latest
  <2>2. CASE ~(t >= p.first)
    BY <2>2, <1>1, <1>3 DEF Latest
  <2> QED  BY <2>1, <2>2
<1>4. CASE p.kind = "cron"
  <2>1. TodaySlot(p, t) \in Int /\ TodaySlot(p, t) >= 1
    BY TodayType
  <2>2. TodaySlot(p, t) <= t + Day
    <3>1. (t + p.zone) % Day \in Nat /\ p.first < Day
      BY <1>1, <1>4, FitTypes, ModRange
    <3> QED  BY <3>1, <1>1 DEF TodaySlot
  <2> QED  BY <2>1, <2>2, <1>1, <1>4 DEF Latest
<1> QED  BY <1>2, <1>3, <1>4, FitTypes

(* Products.                                                               *)
LEMMA Factors ==
    ASSUME NEW e \in Nat \ {0}, NEW m \in Int, NEW n \in Int
    PROVE  /\ m * e \in Int /\ (m - n) * e = m * e - n * e
           /\ m * e < n * e => m < n
           /\ m < n => m * e < n * e
           /\ m >= 0 => m <= m * e
OBVIOUS

(* A slot on the grid of an interval is a whole number of periods from the *)
(* first, and conversely.                                                  *)
LEMMA GridStep ==
    ASSUME NEW p, Fits(p), p.kind = "interval", NEW x \in Slots
    PROVE  OnGrid(p, x) <=> \E k \in Int : x = p.first + k * p.period
<1> DEFINE f == p.first
           e == p.period
<1>1. x \in Nat /\ f \in Nat /\ e \in Nat \ {0}
  BY FitTypes, Bounds DEF Slots
<1>2. OnGrid(p, x) <=> (\E k \in 0..x : x = f + k * e) \/ (\E k \in 0..f : x + k * e = f)
  BY DEF OnGrid, IsSlot
<1> HIDE DEF f, e
<1>3. ASSUME NEW k \in 0..f, x + k * e = f
      PROVE  \E j \in Int : x = f + j * e
  <2>1. k \in Int /\ k * e \in Int /\ (0 - k) * e = 0 * e - k * e /\ 0 * e = 0
    BY <1>1, Factors
  <2>2. x = f + (0 - k) * e /\ 0 - k \in Int
    BY <2>1, <1>1, <1>3
  <2> QED  BY <2>2
<1>4. ASSUME NEW k \in Int, x = f + k * e
      PROVE  (\E j \in 0..x : x = f + j * e) \/ (\E j \in 0..f : x + j * e = f)
  <2>1. CASE k >= 0
    <3>1. k <= k * e /\ k * e \in Int
      BY <2>1, <1>1, Factors
    <3>2. k \in 0..x
      BY <3>1, <2>1, <1>1, <1>4
    <3> QED  BY <3>2, <1>4
  <2>2. CASE k < 0
    <3>1. 0 - k \in Int /\ 0 - k >= 0 /\ (0 - k) * e = 0 * e - k * e /\ 0 * e = 0 /\ k * e \in Int
      BY <2>2, <1>1, Factors
    <3>2. 0 - k <= (0 - k) * e
      BY <3>1, <1>1, Factors
    <3>3. 0 - k \in 0..f /\ x + (0 - k) * e = f
      BY <3>1, <3>2, <1>1, <1>4
    <3> QED  BY <3>3
  <2> QED  BY <2>1, <2>2
<1>5. \A k \in 0..x : k \in Int
  BY <1>1
<1>6. (\E k \in Int : x = f + k * e) <=>
          (\E k \in 0..x : x = f + k * e) \/ (\E k \in 0..f : x + k * e = f)
  BY <1>3, <1>4, <1>5
<1> QED  BY <1>2, <1>6 DEF f, e

LEMMA Quotients ==
    ASSUME NEW a \in Nat, NEW e \in Nat \ {0}
    PROVE  a \div e \in Nat /\ (a \div e) * e <= a
OBVIOUS

LEMMA QuotientOfProduct ==
    ASSUME NEW m \in Nat, NEW e \in Nat \ {0}
    PROVE  (m * e) \div e = m
OBVIOUS

(* The latest slot of an interval is on its grid.                          *)
LEMMA LatestInterval ==
    ASSUME NEW p, Fits(p), p.kind = "interval", NEW t \in Day..MaxTime, Latest(p, t) > 0
    PROVE  /\ Latest(p, t) \in Nat /\ p.first <= Latest(p, t)
           /\ \E m \in Nat : Latest(p, t) = p.first + m * p.period
<1>1. t \in Nat /\ p.first \in Nat /\ p.period \in Nat \ {0}
  BY FitTypes, Bounds
<1>2. t >= p.first /\ Latest(p, t) = p.first + ((t - p.first) \div p.period) * p.period
  BY DEF Latest
<1>3. t - p.first \in Nat
  BY <1>1, <1>2
<1>4. (t - p.first) \div p.period \in Nat
  BY <1>1, <1>3, Quotients
<1>5. ((t - p.first) \div p.period) * p.period \in Nat
  BY <1>1, <1>4
<1> QED  BY <1>1, <1>2, <1>4, <1>5

(* What catch_up fires goes on from the cursor in steps of the period.     *)
LEMMA CatchUpType ==
    ASSUME NEW p, Fits(p), CatchesUp(p), NEW t \in Day..MaxTime, NEW last \in Nat,
           last < Latest(p, t)
    PROVE  /\ CatchUpSlots(p, last, t) # {}
           /\ \A y \in CatchUpSlots(p, last, t) :
                  /\ y \in Slots
                  /\ y > Latest(p, t) => last # 0 /\ y = last + p.period
                  /\ \E i \in Nat : y = NextAfter(p, last) + i * p.period
<1> DEFINE L == Latest(p, t)
           N == NextAfter(p, last)
           c == Count(p, last, t)
           e == p.period
<1>1. /\ e \in Nat \ {0} /\ e <= MaxPeriod /\ p.first \in Nat /\ p.first > 0
      /\ p.kind = "interval" /\ CatchUp \in Nat \ {0}
      /\ MaxTime \in Nat /\ MaxPeriod \in Nat
  BY FitTypes, Bounds DEF CatchesUp
<1>2. L \in Nat /\ L <= MaxTime /\ L > 0 /\ p.first <= L
  <2>1. L \in 0..t /\ t \in Nat /\ t <= MaxTime
    BY <1>1, LatestType, Bounds
  <2>2. L > 0
    BY <2>1
  <2> QED  BY <2>1, <2>2, <1>1, LatestInterval
<1>3. N \in Nat /\ N > 0 /\ (N > L => last # 0 /\ N = last + e) /\ (last # 0 => N = last + e)
  BY <1>1, <1>2 DEF NextAfter
<1>4. c = IF N > L THEN 1 ELSE (L - N) \div e + 1
  BY DEF Count
<1>5. CatchUpSlots(p, last, t) =
        {N + i * e : i \in (IF c > CatchUp THEN c - CatchUp ELSE 0)..(c - 1)}
  BY DEF CatchUpSlots
<1>L. last < L
  OBVIOUS
<1> HIDE DEF L, N, c, e
<1>6. c \in Nat /\ c >= 1 /\ (N <= L => (c - 1) * e <= L - N)
  <2>1. CASE N > L
    BY <2>1, <1>2, <1>3, <1>4
  <2>2. CASE N <= L
    <3>1. L - N \in Nat
      BY <2>2, <1>2, <1>3
    <3>2. (L - N) \div e \in Nat /\ ((L - N) \div e) * e <= L - N
      BY <3>1, <1>1, Quotients
    <3>3. c = (L - N) \div e + 1
      BY <2>2, <1>2, <1>3, <1>4
    <3>4. c \in Nat /\ c >= 1 /\ c - 1 = (L - N) \div e
      BY <3>2, <3>3
    <3> QED  BY <3>2, <3>4
  <2> QED  BY <2>1, <2>2, <1>2, <1>3
<1> DEFINE start == IF c > CatchUp THEN c - CatchUp ELSE 0
<1>7. start \in 0..(c - 1)
  BY <1>1, <1>6
<1> HIDE DEF start
<1>8. ASSUME NEW i \in start..(c - 1)
      PROVE  N + i * e \in Slots /\ (N + i * e > L => last # 0 /\ N + i * e = last + e) /\ i \in Nat
  <2>1. i \in Nat /\ i <= c - 1 /\ i * e \in Nat
    BY <1>1, <1>6, <1>7
  <2>2. CASE N <= L
    <3>1. i * e <= (c - 1) * e
      BY <2>1, <1>1, <1>6, Factors
    <3>2. i * e <= L - N
      BY <3>1, <2>1, <2>2, <1>1, <1>2, <1>3, <1>6, Factors
    <3> QED  BY <3>2, <2>1, <1>1, <1>2, <1>3 DEF Slots
  <2>3. CASE N > L
    <3>1. i = 0
      BY <2>1, <2>3, <1>4, <1>2, <1>3
    <3>2. i * e = 0
      BY <3>1, <1>1
    <3>3. N \in Slots
      BY <2>3, <1>1, <1>2, <1>3, <1>L DEF Slots
    <3> QED  BY <3>2, <3>3, <2>1, <2>3, <1>3
  <2> QED  BY <2>2, <2>3, <1>2, <1>3
<1>9. CatchUpSlots(p, last, t) = {N + i * e : i \in start..(c - 1)}
  BY <1>5 DEF start
<1>10. CatchUpSlots(p, last, t) # {}
  BY <1>7, <1>9
<1>11. \A y \in CatchUpSlots(p, last, t) :
           y \in Slots /\ (y > L => last # 0 /\ y = last + e) /\ \E i \in Nat : y = N + i * e
  BY <1>8, <1>9
<1> QED  BY <1>10, <1>11 DEF L, N, e

(* From a cursor off the grid, all of them are off the grid.               *)
LEMMA CatchUpOff ==
    ASSUME NEW p, Fits(p), CatchesUp(p), NEW t \in Day..MaxTime, NEW last \in Slots,
           last < Latest(p, t), ~OnGrid(p, last), NEW y \in CatchUpSlots(p, last, t)
    PROVE  Off(p, y)
<1>1. /\ p.period \in Nat \ {0} /\ p.first \in Nat /\ p.kind = "interval"
      /\ last \in Nat /\ last # 0
  BY FitTypes, Bounds DEF CatchesUp, Slots
<1>2. y \in Slots /\ \E i \in Nat : y = NextAfter(p, last) + i * p.period
  BY <1>1, CatchUpType
<1>3. PICK i \in Nat : y = last + p.period + i * p.period
  BY <1>1, <1>2 DEF NextAfter
<1>4. ASSUME OnGrid(p, y)
      PROVE  FALSE
  <2>1. PICK k \in Int : y = p.first + k * p.period
    BY <1>1, <1>2, <1>4, GridStep
  <2> DEFINE a == k * p.period
             b == i * p.period
             d == (k - (i + 1)) * p.period
  <2>2. k - (i + 1) \in Int /\ d = a - (b + p.period) /\ a \in Int /\ b \in Int
    BY <1>1
  <2>5. y = p.first + a /\ y = last + p.period + b
    BY <2>1, <1>3
  <2> HIDE DEF a, b, d
  <2>6. last = p.first + d
    BY <2>2, <2>5, <1>1
  <2>3. last = p.first + (k - (i + 1)) * p.period
    BY <2>6 DEF d
  <2>4. OnGrid(p, last)
    BY <1>1, <2>2, <2>3, GridStep DEF a, b
  <2> QED  BY <2>4
<1>5. y # 0
  BY <1>2, Bounds DEF Slots
<1> QED  BY <1>4, <1>5 DEF Off

(* From a cursor on the grid, or none, they and what is given up are all   *)
(* there is.                                                               *)
LEMMA CatchUpCovers ==
    ASSUME NEW p, Fits(p), CatchesUp(p), NEW t \in Day..MaxTime, NEW last \in Nat,
           last < Latest(p, t), last # 0 => last \in Slots /\ OnGrid(p, last)
    PROVE  Covers(p, last, CatchUpSlots(p, last, t), GivenUp(p, last, t))
<1> DEFINE f == p.first
           e == p.period
           L == Latest(p, t)
           N == NextAfter(p, last)
           c == Count(p, last, t)
<1>1. /\ e \in Nat \ {0} /\ f \in Nat /\ f > 0 /\ p.kind = "interval" /\ CatchUp \in Nat \ {0}
  BY FitTypes, Bounds DEF CatchesUp
<1>2. L \in Nat /\ L > 0
  BY <1>1, LatestType, Bounds
<1>3. PICK m \in Nat : L = f + m * e
  BY <1>1, <1>2, LatestInterval
<1>4. PICK n \in Int : N = f + n * e /\ (last = 0 => n = 0) /\ (last # 0 => last = f + (n - 1) * e)
  <2>1. CASE last = 0
    BY <2>1, <1>1 DEF NextAfter
  <2>2. CASE last # 0
    <3>1. PICK j \in Int : last = f + j * e
      BY <2>2, <1>1, GridStep
    <3>2. j + 1 \in Int /\ (j + 1) * e = j * e + e /\ (j + 1) - 1 = j /\ j * e \in Int
      BY <1>1
    <3>3. N = last + e
      BY <2>2 DEF NextAfter
    <3>4. N = f + (j + 1) * e
      BY <3>1, <3>2, <3>3, <1>1
    <3> QED  BY <3>1, <3>2, <3>4, <2>2
  <2> QED  BY <2>1, <2>2
<1>5. SUFFICES ASSUME NEW y \in CatchUpSlots(p, last, t), NEW x \in Slots,
                      IsSlot(p, x), last < x, x <= y
               PROVE  x \in GivenUp(p, last, t) \cup CatchUpSlots(p, last, t)
  BY DEF Covers
<1>6. PICK k \in Nat : x = f + k * e
  <2>1. x \in Nat
    BY Bounds DEF Slots
  <2> QED  BY <2>1, <1>1, <1>5 DEF IsSlot
<1>7. /\ y \in Slots /\ y \in Nat /\ x \in Nat
      /\ y > L => last # 0 /\ y = last + e
  BY <1>1, CatchUpType, Bounds DEF Slots
<1>p. /\ k * e \in Int /\ m * e \in Int /\ n * e \in Int
      /\ (n - 1) * e \in Int /\ (n - 1) * e = n * e - e
  BY <1>1
<1>8. k >= n
  <2>1. CASE last = 0
    BY <2>1, <1>4
  <2>2. CASE last # 0
    <3>1. (n - 1) * e < k * e
      BY <2>2, <1>p, <1>1, <1>4, <1>5, <1>6
    <3>2. n - 1 < k
      BY <3>1, <1>1, Factors
    <3> QED  BY <3>2
  <2> QED  BY <2>1, <2>2
<1>c. CatchUpSlots(p, last, t) =
        {N + i * e : i \in (IF c > CatchUp THEN c - CatchUp ELSE 0)..(c - 1)}
  BY DEF CatchUpSlots
<1>d. c = IF N > L THEN 1 ELSE (L - N) \div e + 1
  BY DEF Count
<1>g. /\ x <= L => x \in Due(p, last, t)
      /\ x \in Due(p, last, t) /\ x + CatchUp * e <= L => x \in GivenUp(p, last, t)
  BY <1>5 DEF Due, GivenUp
<1> HIDE DEF f, e, L, N, c
<1>9. CASE x > L
  <2>1. last # 0 /\ y = last + e
    BY <1>9, <1>7, <1>5, <1>2
  <2>2. y = f + n * e
    BY <2>1, <1>4, <1>p, <1>1
  <2>3. k * e <= n * e
    BY <2>2, <1>5, <1>6, <1>7, <1>p, <1>1
  <2>4. ~(n * e < k * e)
    BY <2>3, <1>p
  <2>5. ~(n < k)
    BY <2>4, <1>1, Factors
  <2>6. k = n
    BY <2>5, <1>8
  <2>7. x = y
    BY <2>2, <2>6, <1>6
  <2> QED  BY <2>7
<1>10. CASE x <= L
  <2>1. CASE x + CatchUp * e <= L
    BY <2>1, <1>10, <1>g
  <2>2. CASE ~(x + CatchUp * e <= L)
    <3>1. k <= m
      <4>1. ~(m * e < k * e)
        BY <1>10, <1>3, <1>6, <1>p, <1>1
      <4>2. ~(m < k)
        BY <4>1, <1>1, Factors
      <4> QED  BY <4>2
    <3>2. m < k + CatchUp
      <4>1. CatchUp * e \in Int /\ (k + CatchUp) * e = k * e + CatchUp * e /\ k + CatchUp \in Int
        BY <1>1
      <4>2. m * e < (k + CatchUp) * e
        BY <4>1, <2>2, <1>2, <1>3, <1>6, <1>7, <1>p, <1>1
      <4> QED  BY <4>1, <4>2, <1>1, Factors
    <3>3. m - n \in Nat /\ (m - n) * e = m * e - n * e
      BY <3>1, <1>8, <1>1, Factors
    <3>4. L - N = (m - n) * e
      BY <3>3, <1>1, <1>3, <1>4, <1>p
    <3>5. (m - n) * e \in Nat
      BY <3>3, <1>1
    <3>6. ~(N > L)
      BY <3>4, <3>5, <1>1, <1>2, <1>4, <1>p
    <3>7. c = (m - n) + 1
      BY <3>3, <3>4, <3>6, <1>d, <1>1, QuotientOfProduct
    <3>8. k - n \in (IF c > CatchUp THEN c - CatchUp ELSE 0)..(c - 1)
      BY <3>1, <3>2, <3>3, <3>7, <1>1, <1>8
    <3>9. x = N + (k - n) * e
      <4>1. (k - n) * e = k * e - n * e
        BY <1>1, Factors
      <4> QED  BY <4>1, <1>4, <1>6, <1>p, <1>1
    <3>10. x \in CatchUpSlots(p, last, t)
      BY <3>8, <3>9, <1>c
    <3> QED  BY <3>10
  <2> QED  BY <2>1, <2>2
<1> QED  BY <1>9, <1>10, <1>2, <1>7

(* The slots a poll takes in hand.                                         *)
LEMMA ToFireHolds ==
    ASSUME NEW p, Fits(p), p.kind # "daily", NEW t \in Day..MaxTime, NEW last \in Nat,
           last # 0 => last \in Slots, last < Latest(p, t)
    PROVE  /\ ToFire(p, last, t) \subseteq Slots /\ GivenUp(p, last, t) \subseteq Slots
           /\ Latest(p, t) \in Slots
           /\ ToFire(p, last, t) = {} =>
                  \A x \in Slots : IsSlot(p, x) /\ last < x /\ x <= Latest(p, t) =>
                                     x \in GivenUp(p, last, t)
           /\ \A y \in ToFire(p, last, t) : last < y
           /\ \/ Off(p, last) /\ \A y \in ToFire(p, last, t) : Off(p, y)
              \/ Covers(p, last, ToFire(p, last, t), GivenUp(p, last, t))
<1>1. Latest(p, t) \in Slots /\ Latest(p, t) \in Nat
  BY LatestType, Bounds DEF Slots
<1>2. GivenUp(p, last, t) \subseteq Slots
  BY DEF GivenUp, Due
<1>3. CASE CatchesUp(p)
  <2>1. ToFire(p, last, t) = CatchUpSlots(p, last, t)
    BY <1>3 DEF ToFire, CatchesUp
  <2>2. CatchUpSlots(p, last, t) # {} /\ CatchUpSlots(p, last, t) \subseteq Slots
    BY <1>3, CatchUpType
  <2>5. ASSUME NEW y \in CatchUpSlots(p, last, t)
        PROVE  last < y
    <3>1. PICK i \in Nat : y = NextAfter(p, last) + i * p.period
      BY <1>3, CatchUpType
    <3>2. p.period \in Nat \ {0} /\ p.first > 0 /\ p.first \in Nat
      BY <1>3, FitTypes DEF CatchesUp
    <3>3. NextAfter(p, last) \in Nat /\ last < NextAfter(p, last) /\ i * p.period \in Nat
      BY <3>2 DEF NextAfter
    <3> QED  BY <3>1, <3>3
  <2>3. CASE last # 0 /\ ~OnGrid(p, last)
    BY <2>1, <2>2, <2>3, <2>5, <1>1, <1>2, <1>3, CatchUpOff DEF Off
  <2>4. CASE last = 0 \/ OnGrid(p, last)
    BY <2>1, <2>2, <2>4, <2>5, <1>1, <1>2, <1>3, CatchUpCovers
  <2> QED  BY <2>3, <2>4
<1>4. CASE ~CatchesUp(p)
  <2>1. ToFire(p, last, t) \subseteq {Latest(p, t)}
    BY <1>4 DEF ToFire
  <2>2. GivenUp(p, last, t) = Due(p, last, t) \ ToFire(p, last, t)
    BY <1>4 DEF GivenUp
  <2>3. \A x \in Slots : IsSlot(p, x) /\ last < x /\ x <= Latest(p, t) =>
            x \in GivenUp(p, last, t) \cup ToFire(p, last, t)
    BY <2>2 DEF Due
  <2> QED  BY <2>1, <2>3, <1>1, <1>2 DEF Covers
<1> QED  BY <1>3, <1>4

--------------------------------------------------------------------------------
(* Types, and what poller and holder of the mutex have in hand.            *)

RunRows == [state : States, meta : BOOLEAN, at : Times]
WaitRows == [rev : 0..MaxRevision, wake : Times, open : BOOLEAN]
PollRows == [pc : {"rest", "work"}, todo : SUBSET Schedules, snap : [Schedules -> Rows],
             at : Times]
Names == SlotNames \cup {NoSlot}

(* The values that stand for nothing have their types.                     *)
LEMMA RestTypes ==
    /\ Idle \in Ops /\ NoRow \in Rows /\ Resting \in PollRows /\ Fits(NoPlan)
    /\ Idle.pc = "idle" /\ Idle.who = "none" /\ Idle.s = "none" /\ Idle.time = 0
    /\ Resting.pc = "rest" /\ Resting.todo = {}
<1>1. Fits(NoPlan)
  BY Bounds, ZoneTypes DEF NoPlan, Fits, PlanRecords
<1>2. NoRow \in Rows
  BY <1>1, Bounds DEF NoRow, Rows, Fits
<1>3. Resting \in PollRows
  BY <1>2, Bounds DEF Resting, PollRows, Times
<1>4. Idle \in Ops
  BY <1>1, Bounds DEF Idle, Ops, Times, Fits
<1> QED  BY <1>1, <1>2, <1>3, <1>4 DEF Idle, Resting

(* Names of slots and keys of runs.                                        *)
LEMMA NameTypes ==
    ASSUME NEW x \in Slots
    PROVE  /\ Ms(x) \in SlotNames /\ Ms(x).form = "ms" /\ Ms(x).at = x /\ Parsed(Ms(x)) = x
           /\ \A p : Fits(p) => /\ Rfc(p, x) \in SlotNames /\ Rfc(p, x).form = "rfc3339"
                                /\ Rfc(p, x).at = x /\ Rfc(p, x).zone = p.zone
BY ZoneTypes, FitTypes DEF Ms, Rfc, SlotNames, Parsed

LEMMA ParsedType ==
    ASSUME NEW n \in Names
    PROVE  Parsed(n) \in Nat /\ (Parsed(n) # 0 => Parsed(n) \in Slots)
BY Bounds DEF Names, SlotNames, NoSlot, Parsed, Slots

LEMMA FireKeyType ==
    ASSUME NEW s \in Schedules, NEW rev \in Revisions, NEW n \in SlotNames
    PROVE  <<s, rev, n>> \in RunKeys
BY DEF RunKeys

LEMMA TodayIsSlot ==
    ASSUME NEW p, Fits(p), NEW t \in Day..MaxTime, t >= TodaySlot(p, t)
    PROVE  TodaySlot(p, t) \in Slots
BY TodayType, Bounds DEF Slots

LEMMA HalfSavedFits ==
    ASSUME NEW p \in Plans
    PROVE  Fits(HalfSaved(p)) /\ HalfSaved(p).kind = "daily"
<1>1. Fits(p) /\ p \in PlanRecords
  BY PlansFit DEF Fits
<1>2. HalfSaved(p) \in PlanRecords /\ HalfSaved(p).kind = "daily" /\
      HalfSaved(p).first = IF p.kind = "cron" THEN p.first ELSE 0
  BY <1>1, ZoneTypes DEF HalfSaved, PlanRecords
<1>3. HalfSaved(p).first < Day
  BY <1>1, <1>2, FitTypes, Bounds
<1> QED  BY <1>2, <1>3 DEF Fits

LEMMA SetStateType ==
    ASSUME TypeOK, NEW k \in RunKeys, NEW st \in States, SetState(k, st)
    PROVE  /\ runs' \in [RunKeys -> RunRows]
           /\ runs'[k].state = st /\ runs'[k].meta = runs[k].meta
           /\ \A j \in RunKeys : j # k => runs'[j] = runs[j]
<1>1. runs \in [RunKeys -> RunRows] /\ now \in Times
  BY Bounds DEF TypeOK, RunRows, Times
<1>2. [runs[k] EXCEPT !.state = st, !.at = now] \in RunRows
  BY <1>1 DEF RunRows
<1>3. runs' = [runs EXCEPT ![k] = [runs[k] EXCEPT !.state = st, !.at = now]]
  BY <1>1 DEF SetState, RunRows
<1> QED  BY <1>1, <1>2, <1>3 DEF RunRows

LEMMA AdvanceType ==
    ASSUME TypeOK, NEW s \in Schedules, NEW expected, NEW slot \in SlotNames,
           Advance(s, expected, slot)
    PROVE  /\ sched' \in [Schedules -> Rows]
           /\ sched'[s].last = IF sched[s].last = expected THEN slot ELSE sched[s].last
           /\ \A u \in Schedules : sched'[u].plan = sched[u].plan
           /\ \A u \in Schedules : u # s => sched'[u] = sched[u]
<1>1. sched \in [Schedules -> Rows]
  BY DEF TypeOK
<1>2. [sched EXCEPT ![s].last = slot] \in [Schedules -> Rows]
  BY <1>1 DEF Rows
<1> QED  BY <1>1, <1>2 DEF Advance, Rows

LEMMA ReplanType ==
    ASSUME TypeOK, NEW s \in Schedules, NEW row \in Rows, Replan(s, row)
    PROVE  /\ sched' \in [Schedules -> Rows] /\ sched'[s] = row
           /\ \A u \in Schedules : u # s => sched'[u] = sched[u] /\ since'[u] = since[u]
           /\ since' \in [Schedules -> SUBSET (SlotNames \X Revisions)]
           /\ since'[s] = {} \/ (since'[s] = since[s] /\ TimeOf(row.plan) = TimeOf(sched[s].plan))
BY DEF TypeOK, Replan

LEMMA UpsertedType ==
    ASSUME TypeOK, NEW s \in Schedules, NEW rev \in Revisions, NEW on \in BOOLEAN, NEW p,
           Fits(p), Fits(sched[s].plan)
    PROVE  /\ Upserted(s, rev, on, p) \in Rows /\ Fits(Upserted(s, rev, on, p).plan)
           /\ Upserted(s, rev, on, p).last = sched[s].last
           /\ Upserted(s, rev, on, p).plan \in {p, sched[s].plan}
           /\ sched[s].plan.kind # "daily" => Upserted(s, rev, on, p).plan = sched[s].plan
<1>1. sched[s] \in Rows /\ rev \in 0..MaxRevision /\ p \in PlanRecords
  BY Bounds DEF TypeOK, Revisions, Fits
<1> QED  BY <1>1 DEF Upserted, Rows

LEMMA DoneType ==
    ASSUME TypeOK, NEW p \in Pollers, NEW s \in Schedules, Done(p, s)
    PROVE  /\ poll' \in [Pollers -> PollRows]
           /\ poll'[p].todo = poll[p].todo \ {s}
           /\ \A t \in Schedules : t # s => poll'[p].snap[t] = poll[p].snap[t]
           /\ \A q \in Pollers : poll'[q].pc = poll[q].pc /\ poll'[q].at = poll[q].at
           /\ \A q \in Pollers : q # p => poll'[q] = poll[q]
BY RestTypes DEF TypeOK, Done, PollRows

(* What a step leaves of the plans, the snapshots and the mutex.           *)
PlansKept ==
    \A s \in Schedules :
        Fits(sched'[s].plan) /\ (sched[s].plan.kind # "daily" => sched'[s].plan.kind # "daily")
PollKept ==
    \A p \in Pollers :
        /\ poll'[p].pc = "work" => poll[p].pc = "work" /\ poll'[p].at = poll[p].at
        /\ poll'[p].todo # {} => poll'[p].at = poll[p].at
        /\ poll'[p].todo \subseteq poll[p].todo
        /\ \A s \in poll'[p].todo : poll'[p].snap[s] = poll[p].snap[s]

LEMMA PlansSame ==
    ASSUME BaseInv, \A s \in Schedules : sched'[s].plan = sched[s].plan
    PROVE  PlansKept
BY DEF PlansKept, BaseInv, PollOK

LEMMA PollSame ==
    ASSUME UNCHANGED poll
    PROVE  PollKept
BY DEF PollKept

LEMMA PollFrame ==
    ASSUME BaseInv, PlansKept, PollKept, now' \in Nat, now' >= now
    PROVE  PollOK'
<1>1. PollOK /\ TypeOK /\ now \in Nat
  BY Bounds DEF BaseInv, TypeOK
<1>2. ASSUME NEW p \in Pollers, poll'[p].pc = "work"
      PROVE  poll'[p].at \in Day..now'
  BY <1>1, <1>2, Bounds DEF PollKept, PollOK
<1>3. ASSUME NEW p \in Pollers, NEW s \in poll'[p].todo
      PROVE  Snapped(p, s)'
  <2>1. s \in poll[p].todo /\ poll'[p].snap[s] = poll[p].snap[s]
    BY <1>3 DEF PollKept
  <2>2. Snapped(p, s) /\ s \in Schedules
    BY <2>1, <1>1 DEF PollOK, TypeOK
  <2> QED  BY <2>1, <2>2 DEF Snapped, PlansKept
<1> QED  BY <1>2, <1>3 DEF PollOK, PlansKept

LEMMA IdleFits ==
    ASSUME op' = Idle
    PROVE  OpOK' /\ op' \in Ops /\ ~Firing' /\ op'.pc = "idle" /\ op'.who = "none"
BY RestTypes DEF OpOK, Firing, Keyed

LEMMA OpFrame ==
    ASSUME BaseInv, PlansKept, UNCHANGED op
    PROVE  OpOK'
BY DEF BaseInv, OpOK, Firing, Keyed, PlansKept

(* The fields of the operation after a step that only moves it on.         *)
LEMMA AfterOp ==
    ASSUME TypeOK, NEW pc \in {"meta", "wait", "queue", "advance", "disable", "resume"}, After(pc)
    PROVE  /\ op' \in Ops /\ op'.pc = pc /\ op'.who = op.who /\ op'.key = op.key
           /\ op'.time = op.time /\ op'.s = op.s /\ op'.plan = op.plan /\ op'.cursor = op.cursor
           /\ op'.slots = op.slots /\ op'.passed = op.passed /\ op'.rev = op.rev
BY DEF TypeOK, After, Ops

LEMMA AfterIdle ==
    ASSUME After("idle")
    PROVE  op' = Idle
BY DEF After

LEMMA TickBase ==
    ASSUME BaseInv, Tick
    PROVE  BaseInv'
<1>1. TypeOK'
  BY Bounds DEF BaseInv, TypeOK, Tick
<1>2. PlansKept /\ PollKept /\ now' \in Nat /\ now' >= now
  BY PlansSame, PollSame, Bounds DEF Tick, BaseInv, TypeOK
<1> QED  BY <1>1, <1>2, PollFrame, OpFrame DEF Tick, BaseInv

(* A step that leaves schedules, snapshots and clock.                      *)
LEMMA StillFrame ==
    ASSUME BaseInv, UNCHANGED <<sched, now>>, PollKept
    PROVE  PollOK' /\ PlansKept
<1>1. PlansKept
  BY PlansSame
<1>2. now' \in Nat /\ now' >= now
  BY Bounds DEF BaseInv, TypeOK
<1> QED  BY <1>1, <1>2, PollFrame

LEMMA ClientKey ==
    ASSUME NEW c \in Clients \cup Triggers
    PROVE  <<c, 0, NoSlot>> \in RunKeys /\ <<c, 0, NoSlot>> \in (Clients \cup Triggers) \X {0} \X {NoSlot}
BY DEF RunKeys

LEMMA BeginOp ==
    ASSUME NEW c \in Clients \cup Triggers, NEW who \in {"client", "trigger"}, NEW wake \in Times,
           Begin([pc |-> "admit", who |-> who, key |-> <<c, 0, NoSlot>>, wake |-> wake])
    PROVE  op' \in Ops /\ OpOK' /\ ~Firing' /\ op'.pc = "admit" /\ op'.who = who /\ op'.s = "none"
           /\ op'.key = <<c, 0, NoSlot>>
<1>1. Idle \in Ops /\ <<c, 0, NoSlot>> \in RunKeys
      /\ <<c, 0, NoSlot>> \in (Clients \cup Triggers) \X {0} \X {NoSlot}
  BY RestTypes, ClientKey
<1>2. op' = [Idle EXCEPT !.pc = "admit", !.who = who, !.key = <<c, 0, NoSlot>>, !.time = wake]
  BY DEF Begin
<1>3. /\ op'.pc = "admit" /\ op'.who = who /\ op'.key = <<c, 0, NoSlot>> /\ op'.s = "none"
      /\ op' \in Ops
  BY <1>1, <1>2, RestTypes DEF Ops, Idle
<1> QED  BY <1>1, <1>3 DEF OpOK, Firing, Keyed

LEMMA CreateRunBase ==
    ASSUME BaseInv, NEW c \in Clients, NEW wake \in Times, CreateRun(c, wake)
    PROVE  BaseInv'
<1>0. TypeOK /\ op' \in Ops /\ OpOK'
  BY BeginOp DEF BaseInv, CreateRun
<1>2. runs' \in [RunKeys -> RunRows]
  <2>1. CASE UNCHANGED runs
    BY <2>1, <1>0 DEF TypeOK, RunRows
  <2>2. ASSUME NEW k \in Oldest(Queued), SetState(k, "dead_lettered")
        PROVE runs' \in [RunKeys -> RunRows]
    BY <2>2, <1>0, SetStateType DEF Oldest, Queued, States
  <2> QED  BY <2>1, <2>2 DEF CreateRun
<1>3. commands' \in 0..MaxCommands
  BY <1>0, Bounds DEF CreateRun, Commanded, TypeOK
<1>4. TypeOK'
  BY <1>0, <1>2, <1>3 DEF TypeOK, RunRows, CreateRun
<1> QED  BY <1>0, <1>4, StillFrame, PollSame DEF CreateRun, BaseInv

LEMMA TriggerRunBase ==
    ASSUME BaseInv, NEW t \in Triggers, TriggerRun(t)
    PROVE  BaseInv'
<1>0. TypeOK /\ op' \in Ops /\ OpOK'
  BY BeginOp, Bounds DEF BaseInv, TriggerRun, Times
<1>3. commands' \in 0..MaxCommands
  BY <1>0, Bounds DEF TriggerRun, Commanded, TypeOK
<1>4. TypeOK'
  BY <1>0, <1>3 DEF TypeOK, TriggerRun
<1> QED  BY <1>0, <1>4, StillFrame, PollSame DEF TriggerRun, BaseInv

LEMMA PutWaitType ==
    ASSUME TypeOK, NEW k \in RunKeys, NEW rev \in Revisions, NEW wake \in Times,
           PutWait(k, rev, wake)
    PROVE  waits' \in [RunKeys -> WaitRows]
BY Bounds DEF TypeOK, PutWait, WaitRows, Revisions

LEMMA WaitBase ==
    ASSUME BaseInv, NEW k \in RunKeys, NEW rev \in Revisions, NEW wake \in Times, Wait(k, rev, wake)
    PROVE  BaseInv'
<1>1. TypeOK /\ waits' \in [RunKeys -> WaitRows]
  BY PutWaitType DEF BaseInv, Wait
<1>2. commands' \in 0..MaxCommands
  BY <1>1, Bounds DEF Wait, Commanded, TypeOK
<1>3. TypeOK'
  BY <1>1, <1>2 DEF TypeOK, WaitRows, Wait
<1> QED  BY <1>3, StillFrame, PollSame, OpFrame DEF Wait, BaseInv

LEMMA CancelRunBase ==
    ASSUME BaseInv, NEW k \in RunKeys, CancelRun(k)
    PROVE  BaseInv'
<1>1. TypeOK /\ runs' \in [RunKeys -> RunRows]
  BY SetStateType DEF BaseInv, CancelRun, States
<1>2. commands' \in 0..MaxCommands
  BY <1>1, Bounds DEF CancelRun, Commanded, TypeOK
<1>3. TypeOK'
  BY <1>1, <1>2 DEF TypeOK, RunRows, CancelRun
<1> QED  BY <1>3, StillFrame, PollSame, OpFrame DEF CancelRun, BaseInv

(* A row is replaced by one whose plan fits.                               *)
LEMMA ReplanKeeps ==
    ASSUME BaseInv, NEW s \in Schedules, NEW row \in Rows, Replan(s, row), Fits(row.plan),
           sched[s].plan.kind # "daily" => row.plan.kind # "daily"
    PROVE  PlansKept
<1>1. /\ sched'[s] = row /\ \A u \in Schedules : u # s => sched'[u] = sched[u]
      /\ \A u \in Schedules : Fits(sched[u].plan)
  BY ReplanType DEF BaseInv, PollOK
<1>2. ASSUME NEW u \in Schedules
      PROVE  Fits(sched'[u].plan) /\ (sched[u].plan.kind # "daily" => sched'[u].plan.kind # "daily")
  BY <1>1
<1> QED  BY <1>2 DEF PlansKept

LEMMA ClockSame ==
    ASSUME BaseInv, UNCHANGED now
    PROVE  now' \in Nat /\ now' >= now
BY Bounds DEF BaseInv, TypeOK

LEMMA SaveDailyBase ==
    ASSUME BaseInv, NEW s \in Schedules, NEW rev \in Revisions, NEW on \in BOOLEAN, NEW p \in Plans,
           SaveDaily(s, rev, on, p)
    PROVE  BaseInv' /\ PlansKept
<1>0. TypeOK /\ Fits(p) /\ Fits(sched[s].plan)
  BY PlansFit DEF BaseInv, PollOK
<1>1. /\ Upserted(s, rev, on, p) \in Rows /\ Fits(Upserted(s, rev, on, p).plan)
      /\ sched[s].plan.kind # "daily" => Upserted(s, rev, on, p).plan = sched[s].plan
  BY <1>0, UpsertedType
<1>2. PlansKept
  BY <1>1, ReplanKeeps DEF SaveDaily
<1>3. /\ sched' \in [Schedules -> Rows]
      /\ since' \in [Schedules -> SUBSET (SlotNames \X Revisions)]
  BY <1>0, <1>1, ReplanType DEF SaveDaily
<1>4. commands' \in 0..MaxCommands
  BY <1>0, Bounds DEF SaveDaily, Commanded, TypeOK
<1>5. TypeOK'
  BY <1>0, <1>3, <1>4 DEF TypeOK, SaveDaily
<1> QED  BY <1>2, <1>5, PollFrame, PollSame, OpFrame, ClockSame DEF SaveDaily, BaseInv

LEMMA SaveBackgroundBase ==
    ASSUME BaseInv, NEW s \in Schedules, NEW rev \in Revisions, NEW on \in BOOLEAN, NEW p \in Plans,
           SaveBackground(s, rev, on, p)
    PROVE  BaseInv' /\ PlansKept
<1>0. TypeOK /\ Fits(HalfSaved(p)) /\ Fits(sched[s].plan) /\ Fits(p) /\ p.kind # "daily"
  BY HalfSavedFits, PlansFit DEF BaseInv, PollOK, SaveBackground
<1>1. /\ Upserted(s, rev, on, HalfSaved(p)) \in Rows
      /\ Fits(Upserted(s, rev, on, HalfSaved(p)).plan)
      /\ sched[s].plan.kind # "daily" =>
             Upserted(s, rev, on, HalfSaved(p)).plan = sched[s].plan
  BY <1>0, UpsertedType
<1>2. /\ PlansKept /\ sched' \in [Schedules -> Rows]
      /\ since' \in [Schedules -> SUBSET (SlotNames \X Revisions)]
  <2>1. CASE rev > sched[s].rev
    BY <2>1, <1>0, <1>1, ReplanKeeps, ReplanType DEF SaveBackground
  <2>2. CASE UNCHANGED <<sched, since>>
    BY <2>2, <1>0, PlansSame DEF TypeOK
  <2> QED  BY <2>1, <2>2 DEF SaveBackground
<1>3. op' \in Ops /\ OpOK'
  <2>1. Idle \in Ops /\ p \in PlanRecords /\ rev \in 0..MaxRevision /\ rev # 0
    BY <1>0, RestTypes, Bounds DEF Fits, Revisions
  <2>2. op' = [Idle EXCEPT !.pc = "save", !.who = "client", !.s = s, !.rev = rev, !.plan = p]
    BY DEF SaveBackground
  <2>3. /\ op' \in Ops /\ op'.pc = "save" /\ op'.who = "client" /\ op'.s = s /\ op'.rev = rev
        /\ op'.plan = p
    BY <2>1, <2>2 DEF Ops
  <2> QED  BY <2>3, <1>0 DEF OpOK, Firing, Keyed
<1>4. commands' \in 0..MaxCommands
  BY <1>0, Bounds DEF SaveBackground, Commanded, TypeOK
<1>5. TypeOK'
  BY <1>0, <1>2, <1>3, <1>4 DEF TypeOK, SaveBackground
<1> QED  BY <1>2, <1>3, <1>5, PollFrame, PollSame, ClockSame DEF SaveBackground, BaseInv

LEMMA SetEnabledBase ==
    ASSUME BaseInv, NEW s \in Schedules, NEW on \in BOOLEAN, SetEnabled(s, on)
    PROVE  BaseInv' /\ \A u \in Schedules : sched'[u].plan = sched[u].plan
                                            /\ sched'[u].last = sched[u].last
<1>0. TypeOK /\ sched \in [Schedules -> Rows] /\ sched' = [sched EXCEPT ![s].enabled = on]
  BY DEF BaseInv, TypeOK, SetEnabled
<1>1. sched' \in [Schedules -> Rows]
  BY <1>0 DEF Rows
<1>2. \A u \in Schedules : sched'[u].plan = sched[u].plan /\ sched'[u].last = sched[u].last
  BY <1>0 DEF Rows
<1>3. PlansKept
  BY <1>2, PlansSame
<1>4. commands' \in 0..MaxCommands
  BY <1>0, Bounds DEF SetEnabled, Commanded, TypeOK
<1>5. TypeOK'
  BY <1>0, <1>1, <1>4 DEF TypeOK, SetEnabled
<1> QED  BY <1>2, <1>3, <1>5, PollFrame, PollSame, OpFrame, ClockSame DEF SetEnabled, BaseInv

LEMMA SaveSpecBase ==
    ASSUME BaseInv, SaveSpec
    PROVE  BaseInv' /\ PlansKept
<1>0. /\ TypeOK /\ op.s \in Schedules /\ op.plan \in Plans /\ op.plan.kind # "daily"
      /\ Fits(op.plan) /\ op.plan \in PlanRecords /\ sched[op.s] \in Rows
  BY PlansFit DEF BaseInv, TypeOK, OpOK, SaveSpec, Fits
<1> DEFINE row == [sched[op.s] EXCEPT !.plan = op.plan]
<1>1. row \in Rows /\ row.plan = op.plan
  BY <1>0 DEF Rows
<1>2. /\ PlansKept /\ sched' \in [Schedules -> Rows]
      /\ since' \in [Schedules -> SUBSET (SlotNames \X Revisions)]
      /\ lax' \subseteq Schedules
  <2>1. CASE sched[op.s].rev = op.rev
    <3>1. Replan(op.s, row) /\ lax' \subseteq lax \cup {op.s}
      BY <2>1 DEF SaveSpec
    <3> HIDE DEF row
    <3> QED  BY <3>1, <1>0, <1>1, ReplanKeeps, ReplanType DEF TypeOK
  <2>2. CASE UNCHANGED <<sched, since, lax>>
    BY <2>2, <1>0, PlansSame DEF TypeOK
  <2> QED  BY <2>1, <2>2 DEF SaveSpec
<1>3. op' \in Ops /\ OpOK'
  BY IdleFits DEF SaveSpec
<1>4. TypeOK'
  BY <1>0, <1>2, <1>3 DEF TypeOK, SaveSpec
<1> QED  BY <1>2, <1>3, <1>4, PollFrame, PollSame, ClockSame DEF SaveSpec, BaseInv

(* Whose run is admitted.                                                  *)
LEMMA OpKey ==
    ASSUME BaseInv, op.pc \in {"admit", "meta", "queue"}
    PROVE  /\ op.key \in RunKeys /\ op.who \in {"client", "trigger", "background", "daily"}
           /\ op.who = "background" =>
                  op.key = <<op.s, op.rev, Ms(Earliest(op.slots))>> /\ op.s \in Schedules
                  /\ op.rev \in Revisions /\ Earliest(op.slots) \in Slots
                  /\ op.key[3].form = "ms"
           /\ op.who = "daily" => /\ op.s \in Schedules /\ op.pc # "meta"
                                  /\ op.key[1] = op.s /\ op.key[2] \in Revisions
                                  /\ op.key[3] \in SlotNames /\ op.key[3].form = "rfc3339"
           /\ op.who \in {"client", "trigger"} =>
                  op.key[3] = NoSlot /\ op.key[1] \in Clients \cup Triggers /\ op.s = "none"
<1>1. OpOK /\ op \in Ops
  BY DEF BaseInv, TypeOK
<1>2. op.key \in RunKeys /\ op.who \in {"client", "trigger", "background", "daily"}
  BY <1>1 DEF OpOK, Ops
<1>3. CASE op.who = "background"
  <2>1. Firing /\ Keyed
    BY <1>3 DEF Firing, Keyed
  <2>2. /\ op.key = <<op.s, op.rev, Ms(Earliest(op.slots))>> /\ op.s \in Schedules
        /\ op.rev # 0 /\ op.slots # {} /\ op.slots \subseteq Slots /\ op.rev \in 0..MaxRevision
    BY <2>1, <1>1 DEF OpOK, Ops
  <2>3. op.rev \in Revisions /\ Earliest(op.slots) \in Slots
    BY <2>2, EarliestIsFirst, Bounds DEF Revisions
  <2> QED  BY <1>2, <1>3, <2>2, <2>3 DEF Ms
<1>4. CASE op.who = "daily"
  <2>1. op.pc \in {"admit", "queue"} /\ op.s \in Schedules
    BY <1>1, <1>4 DEF OpOK
  <2>2. PICK r \in Revisions, n \in SlotNames : n.form = "rfc3339" /\ op.key = <<op.s, r, n>>
    BY <1>1, <1>4 DEF OpOK
  <2> QED  BY <1>2, <1>4, <2>1, <2>2
<1>5. CASE op.who \in {"client", "trigger"}
  <2>1. op.s = "none" /\ op.key \in (Clients \cup Triggers) \X {0} \X {NoSlot}
    BY <1>1, <1>5 DEF OpOK
  <2> QED  BY <1>2, <1>5, <2>1
<1> QED  BY <1>2, <1>3, <1>4, <1>5

(* An operation that moves on between the steps that make a run keeps what *)
(* it has in hand.                                                         *)
LEMMA AfterFits ==
    ASSUME BaseInv, op.pc \in {"admit", "meta", "queue"}, PlansKept,
           NEW pc \in {"meta", "wait", "queue", "advance"}, After(pc),
           pc = "meta" => op.who # "daily", pc = "advance" => op.who = "background",
           pc = "wait" => op.pc = "meta" /\ op.time # 0
    PROVE  OpOK' /\ op' \in Ops
<1>1. TypeOK /\ OpOK
  BY DEF BaseInv
<1>2. /\ op' \in Ops /\ op'.pc = pc /\ op'.who = op.who /\ op'.key = op.key
      /\ op'.time = op.time /\ op'.s = op.s /\ op'.plan = op.plan /\ op'.cursor = op.cursor
      /\ op'.slots = op.slots /\ op'.passed = op.passed /\ op'.rev = op.rev
  BY <1>1, AfterOp
<1>3. CASE op.who = "background"
  <2>1. Firing /\ Keyed
    BY <1>3 DEF Firing, Keyed
  <2>2. pc # "wait"
    BY <2>1, <1>1 DEF OpOK
  <2>3. sched'[op.s].plan.kind # "daily"
    BY <2>1, <1>1 DEF OpOK, PlansKept
  <2> QED  BY <1>1, <1>2, <1>3, <2>1, <2>2, <2>3 DEF OpOK, Firing, Keyed
<1>4. CASE op.who = "daily"
  <2>1. pc = "queue" /\ op.s \in Schedules
    BY <1>1, <1>4 DEF OpOK
  <2> QED  BY <1>1, <1>2, <1>4, <2>1 DEF OpOK, Firing, Keyed
<1>5. CASE op.who \in {"client", "trigger"}
  BY <1>1, <1>2, <1>5 DEF OpOK, Firing, Keyed
<1> QED  BY <1>3, <1>4, <1>5, OpKey

LEMMA SinceType ==
    ASSUME TypeOK, NEW s \in Schedules, NEW n \in SlotNames, NEW r \in Revisions,
           since' = [since EXCEPT ![s] = @ \cup {<<n, r>>}]
    PROVE  /\ since' \in [Schedules -> SUBSET (SlotNames \X Revisions)]
           /\ since'[s] = since[s] \cup {<<n, r>>}
           /\ \A u \in Schedules : u # s => since'[u] = since[u]
BY DEF TypeOK

LEMMA AdmitRunBase ==
    ASSUME BaseInv, AdmitRun
    PROVE  /\ BaseInv' /\ runs'[op.key] = [state |-> "admitted", meta |-> FALSE, at |-> now]
           /\ \A j \in RunKeys : j # op.key => runs'[j] = runs[j]
           /\ op.who = "daily" => since' = [since EXCEPT ![op.s] = @ \cup {<<op.key[3], op.key[2]>>}]
           /\ op.who # "daily" => UNCHANGED since
<1>0. TypeOK /\ OpOK /\ op.pc = "admit" /\ op.key \in RunKeys
  BY OpKey DEF BaseInv, AdmitRun
<1>1. /\ runs' \in [RunKeys -> RunRows]
      /\ runs'[op.key] = [state |-> "admitted", meta |-> FALSE, at |-> now]
      /\ \A j \in RunKeys : j # op.key => runs'[j] = runs[j]
  <2>1. [state |-> "admitted", meta |-> FALSE, at |-> now] \in RunRows
    BY <1>0, Bounds DEF TypeOK, RunRows, States, Times
  <2>2. runs \in [RunKeys -> RunRows]
    BY <1>0 DEF TypeOK, RunRows
  <2> QED  BY <1>0, <2>1, <2>2 DEF AdmitRun
<1>2. /\ op.who = "daily" => since' = [since EXCEPT ![op.s] = @ \cup {<<op.key[3], op.key[2]>>}]
      /\ op.who # "daily" => UNCHANGED since
  BY <1>0, OpKey DEF AdmitRun, NoSlot
<1>3. since' \in [Schedules -> SUBSET (SlotNames \X Revisions)]
  <2>1. CASE op.who = "daily"
    <3>1. op.s \in Schedules /\ op.key[2] \in Revisions /\ op.key[3] \in SlotNames
      BY <2>1, <1>0, OpKey
    <3> QED  BY <3>1, <2>1, <1>0, <1>2, SinceType
  <2>2. CASE op.who # "daily"
    BY <2>2, <1>0, <1>2 DEF TypeOK
  <2> QED  BY <2>1, <2>2
<1>4. PollOK' /\ PlansKept
  BY StillFrame, PollSame DEF AdmitRun
<1>5. OpOK' /\ op' \in Ops
  <2>1. After(IF op.who \in {"trigger", "daily"} THEN "queue" ELSE "meta")
    BY DEF AdmitRun
  <2>2. CASE op.who \in {"trigger", "daily"}
    BY <2>1, <2>2, <1>0, <1>4, AfterFits
  <2>3. CASE op.who \notin {"trigger", "daily"}
    BY <2>1, <2>3, <1>0, <1>4, AfterFits
  <2> QED  BY <2>2, <2>3
<1>6. TypeOK'
  BY <1>0, <1>1, <1>3, <1>5 DEF TypeOK, RunRows, AdmitRun
<1> QED  BY <1>1, <1>2, <1>4, <1>5, <1>6 DEF BaseInv

LEMMA AdmitExistingBase ==
    ASSUME BaseInv, AdmitExisting
    PROVE  BaseInv'
<1>0. TypeOK /\ op.pc = "admit"
  BY DEF BaseInv, AdmitExisting
<1>1. PollOK' /\ PlansKept
  BY StillFrame, PollSame DEF AdmitExisting
<1>2. OpOK' /\ op' \in Ops
  <2>1. CASE op.who = "background"
    <3>1. After("advance")
      BY <2>1 DEF AdmitExisting
    <3> QED  BY <3>1, <2>1, <1>0, <1>1, AfterFits
  <2>2. CASE op.who # "background"
    <3>1. After("idle")
      BY <2>2 DEF AdmitExisting
    <3> QED  BY <3>1, AfterIdle, IdleFits
  <2> QED  BY <2>1, <2>2
<1>3. TypeOK'
  BY <1>0, <1>2 DEF TypeOK, AdmitExisting
<1> QED  BY <1>1, <1>2, <1>3 DEF BaseInv

LEMMA SaveMetadataBase ==
    ASSUME BaseInv, SaveMetadata
    PROVE  /\ BaseInv' /\ runs'[op.key].state = runs[op.key].state /\ runs'[op.key].meta
           /\ \A j \in RunKeys : j # op.key => runs'[j] = runs[j]
<1>0. TypeOK /\ OpOK /\ op.pc = "meta" /\ op.key \in RunKeys
  BY OpKey DEF BaseInv, SaveMetadata
<1>1. /\ runs' \in [RunKeys -> RunRows]
      /\ runs'[op.key].state = runs[op.key].state /\ runs'[op.key].meta
      /\ \A j \in RunKeys : j # op.key => runs'[j] = runs[j]
  <2>2. runs \in [RunKeys -> RunRows] /\ now \in Times
    BY <1>0, Bounds DEF TypeOK, RunRows, Times
  <2>1. [runs[op.key] EXCEPT !.meta = TRUE, !.at = now] \in RunRows
    BY <2>2, <1>0 DEF RunRows
  <2>3. runs' = [runs EXCEPT ![op.key] = [runs[op.key] EXCEPT !.meta = TRUE, !.at = now]]
    BY <2>2, <1>0 DEF SaveMetadata, RunRows
  <2> QED  BY <1>0, <2>1, <2>2, <2>3 DEF RunRows
<1>2. PollOK' /\ PlansKept
  BY StillFrame, PollSame DEF SaveMetadata
<1>3. OpOK' /\ op' \in Ops
  <2>1. After(IF op.time # 0 THEN "wait" ELSE "queue")
    BY DEF SaveMetadata
  <2>2. CASE op.time # 0
    BY <2>1, <2>2, <1>0, <1>2, AfterFits
  <2>3. CASE op.time = 0
    BY <2>1, <2>3, <1>0, <1>2, AfterFits
  <2> QED  BY <2>2, <2>3
<1>4. TypeOK'
  BY <1>0, <1>1, <1>3 DEF TypeOK, RunRows, SaveMetadata
<1> QED  BY <1>1, <1>2, <1>3, <1>4 DEF BaseInv

LEMMA ScheduleWaitBase ==
    ASSUME BaseInv, ScheduleWait
    PROVE  BaseInv'
<1>0. TypeOK /\ op.key \in RunKeys /\ op.time \in Times /\ 1 \in Revisions
  BY Bounds DEF BaseInv, TypeOK, OpOK, Ops, ScheduleWait, Revisions
<1>1. waits' \in [RunKeys -> WaitRows]
  BY <1>0, PutWaitType DEF ScheduleWait
<1>2. PollOK'
  BY StillFrame, PollSame DEF ScheduleWait
<1>3. OpOK' /\ op' \in Ops
  BY AfterIdle, IdleFits DEF ScheduleWait
<1>4. TypeOK'
  BY <1>0, <1>1, <1>3 DEF TypeOK, WaitRows, ScheduleWait
<1> QED  BY <1>2, <1>3, <1>4 DEF BaseInv

LEMMA QueueRunBase ==
    ASSUME BaseInv, QueueRun
    PROVE  /\ BaseInv'
           /\ \A j \in RunKeys : j # op.key => runs'[j] = runs[j]
           /\ runs'[op.key].state # "none" <=> runs[op.key].state # "none"
           /\ runs'[op.key].state \in Active => runs[op.key].state \in Active
           /\ runs'[op.key].meta = runs[op.key].meta
<1>0. TypeOK /\ OpOK /\ op.pc = "queue" /\ op.key \in RunKeys
  BY OpKey DEF BaseInv, QueueRun
<1>1. /\ runs' \in [RunKeys -> RunRows]
      /\ \A j \in RunKeys : j # op.key => runs'[j] = runs[j]
      /\ runs'[op.key].state # "none" <=> runs[op.key].state # "none"
      /\ runs'[op.key].state \in Active => runs[op.key].state \in Active
      /\ runs'[op.key].meta = runs[op.key].meta
  <2>1. CASE runs[op.key].state = "admitted"
    BY <2>1, <1>0, SetStateType DEF QueueRun, States, Active
  <2>2. CASE runs[op.key].state # "admitted"
    BY <2>2, <1>0 DEF QueueRun, TypeOK, RunRows
  <2> QED  BY <2>1, <2>2
<1>2. PollOK' /\ PlansKept
  BY StillFrame, PollSame DEF QueueRun
<1>3. OpOK' /\ op' \in Ops
  <2>1. CASE op.who = "background"
    <3>1. After("advance")
      BY <2>1 DEF QueueRun
    <3> QED  BY <3>1, <2>1, <1>0, <1>2, AfterFits
  <2>2. CASE op.who # "background"
    <3>1. After("idle")
      BY <2>2 DEF QueueRun
    <3> QED  BY <3>1, AfterIdle, IdleFits
  <2> QED  BY <2>1, <2>2
<1>4. TypeOK'
  BY <1>0, <1>1, <1>3 DEF TypeOK, RunRows, QueueRun
<1> QED  BY <1>1, <1>2, <1>3, <1>4 DEF BaseInv

(* The slot in hand, and the operation once it is done with.               *)
LEMMA OpSlot ==
    ASSUME BaseInv, Firing, op.slots # {}
    PROVE  /\ NextSlot \in op.slots /\ NextSlot \in Slots /\ NextSlot = Earliest(op.slots)
           /\ op.s \in Schedules /\ op.rev \in Revisions /\ Fits(op.plan)
           /\ op.plan.kind # "daily" /\ sched[op.s].plan.kind # "daily"
           /\ <<op.s, op.rev, Ms(NextSlot)>> \in RunKeys /\ Ms(NextSlot) \in SlotNames
           /\ Keyed => op.key = <<op.s, op.rev, Ms(NextSlot)>> /\ op.key[3] = Ms(NextSlot)
                       /\ op.key[3].at = NextSlot
<1>1. OpOK /\ op \in Ops
  BY DEF BaseInv, TypeOK
<1>2. /\ op.s \in Schedules /\ op.rev # 0 /\ op.rev \in 0..MaxRevision /\ Fits(op.plan)
      /\ op.plan.kind # "daily" /\ sched[op.s].plan.kind # "daily" /\ op.slots \subseteq Slots
  BY <1>1 DEF OpOK, Ops
<1>3. NextSlot \in op.slots /\ NextSlot \in Slots /\ NextSlot = Earliest(op.slots)
  BY <1>2, EarliestIsFirst, NextSlotIsEarliest
<1>4. op.rev \in Revisions /\ Ms(NextSlot) \in SlotNames
  BY <1>2, <1>3, NameTypes, Bounds DEF Revisions
<1>5. <<op.s, op.rev, Ms(NextSlot)>> \in RunKeys
  BY <1>2, <1>4, FireKeyType
<1>6. Keyed => op.key = <<op.s, op.rev, Ms(NextSlot)>> /\ op.key[3] = Ms(NextSlot)
               /\ op.key[3].at = NextSlot
  BY <1>1, <1>3 DEF OpOK, Ms
<1> QED  BY <1>2, <1>3, <1>4, <1>5, <1>6

LEMMA SlotDone ==
    ASSUME BaseInv, Firing, op.slots # {}, PlansKept, NEW c \in Names,
           op' = [op EXCEPT !.pc = "overlap", !.slots = @ \ {NextSlot}, !.cursor = c]
    PROVE  /\ op' \in Ops /\ OpOK' /\ op'.pc = "overlap" /\ op'.who = "background" /\ op'.s = op.s
           /\ op'.plan = op.plan /\ op'.slots = op.slots \ {NextSlot} /\ op'.passed = op.passed
           /\ op'.cursor = c /\ op'.key = op.key
<1>1. OpOK /\ op \in Ops /\ op.who = "background"
  BY DEF BaseInv, TypeOK, Firing
<1>2. /\ op' \in Ops /\ op'.pc = "overlap" /\ op'.who = op.who /\ op'.s = op.s /\ op'.rev = op.rev
      /\ op'.plan = op.plan /\ op'.slots = op.slots \ {NextSlot} /\ op'.passed = op.passed
      /\ op'.cursor = c /\ op'.time = op.time /\ op'.key = op.key
  BY <1>1 DEF Ops, Names
<1>3. sched'[op.s].plan.kind # "daily"
  BY OpSlot DEF PlansKept
<1> QED  BY <1>1, <1>2, <1>3 DEF OpOK, Firing, Keyed

LEMMA FollowType ==
    ASSUME BaseInv, NEW n \in SlotNames
    PROVE  Follow(n) \in Names
BY DEF BaseInv, TypeOK, Follow, Names, Ops

(* The cursor goes to the slot in hand.                                    *)
LEMMA MoveBase ==
    ASSUME BaseInv, Firing, op.slots # {}, Advance(op.s, op.cursor, Ms(NextSlot)),
           op' = [op EXCEPT !.pc = "overlap", !.slots = @ \ {NextSlot}, !.cursor = Follow(Ms(NextSlot))],
           UNCHANGED <<runs, waits, poll, now, crashes, commands, since, lax>>
    PROVE  /\ BaseInv' /\ op'.pc = "overlap" /\ op'.who = "background" /\ op'.s = op.s
           /\ op'.plan = op.plan /\ op'.slots = op.slots \ {NextSlot} /\ op'.passed = op.passed
           /\ op'.cursor = Follow(Ms(NextSlot))
           /\ op'.key = op.key
<1>1. TypeOK /\ op.s \in Schedules /\ Ms(NextSlot) \in SlotNames
  BY OpSlot DEF BaseInv
<1>2. sched' \in [Schedules -> Rows] /\ \A u \in Schedules : sched'[u].plan = sched[u].plan
  BY <1>1, AdvanceType
<1>3. PlansKept
  BY <1>2, PlansSame
<1>4. /\ op' \in Ops /\ OpOK' /\ op'.pc = "overlap" /\ op'.who = "background" /\ op'.s = op.s
      /\ op'.plan = op.plan /\ op'.slots = op.slots \ {NextSlot} /\ op'.passed = op.passed
      /\ op'.cursor = Follow(Ms(NextSlot)) /\ op'.key = op.key
  BY <1>1, <1>3, FollowType, SlotDone
<1>5. TypeOK'
  BY <1>1, <1>2, <1>4 DEF TypeOK
<1> QED  BY <1>3, <1>4, <1>5, PollFrame, PollSame, ClockSame DEF BaseInv

LEMMA OverlapFires ==
    ASSUME BaseInv, op.pc = "overlap"
    PROVE  Firing
BY DEF BaseInv, OpOK, Firing

LEMMA SkipMoves ==
    ASSUME BaseInv, SkipOverlap
    PROVE  /\ Firing /\ op.slots # {} /\ Advance(op.s, op.cursor, Ms(NextSlot))
           /\ op' = [op EXCEPT !.pc = "overlap", !.slots = @ \ {NextSlot},
                               !.cursor = Follow(Ms(NextSlot))]
           /\ UNCHANGED <<runs, waits, poll, now, crashes, commands, since, lax>>
<1>1. op \in Ops
  BY DEF BaseInv, TypeOK
<1> QED  BY <1>1, OverlapFires DEF SkipOverlap, Ops

LEMMA AdvanceMoves ==
    ASSUME BaseInv, AdvanceCursor
    PROVE  /\ Firing /\ Keyed /\ op.slots # {} /\ Advance(op.s, op.cursor, Ms(NextSlot))
           /\ op' = [op EXCEPT !.pc = "overlap", !.slots = @ \ {NextSlot},
                               !.cursor = Follow(Ms(NextSlot))]
           /\ UNCHANGED <<runs, waits, poll, now, crashes, commands, since, lax>>
<1>1. Firing /\ Keyed /\ op.slots # {}
  BY DEF BaseInv, OpOK, Firing, Keyed, AdvanceCursor
<1>2. op.key[3] = Ms(NextSlot) /\ op.key[3].at = NextSlot
  BY <1>1, OpSlot
<1> QED  BY <1>1, <1>2 DEF AdvanceCursor

LEMMA SkipOverlapBase ==
    ASSUME BaseInv, SkipOverlap
    PROVE  BaseInv'
BY SkipMoves, MoveBase

LEMMA AdvanceCursorBase ==
    ASSUME BaseInv, AdvanceCursor
    PROVE  BaseInv'
BY AdvanceMoves, MoveBase

LEMMA FireSlotBase ==
    ASSUME BaseInv, FireSlot
    PROVE  /\ BaseInv' /\ op'.pc = "admit" /\ op'.who = "background" /\ op'.s = op.s
           /\ op'.plan = op.plan /\ op'.slots = op.slots /\ op'.passed = op.passed
           /\ op'.cursor = op.cursor /\ op'.key = <<op.s, op.rev, Ms(NextSlot)>>
           /\ \A j \in RunKeys : runs'[j].meta = runs[j].meta
                                 /\ (runs'[j].state \in Active => runs[j].state \in Active)
<1>0. TypeOK /\ OpOK /\ Firing /\ op.slots # {} /\ op \in Ops
  BY OverlapFires DEF BaseInv, FireSlot, TypeOK
<1>1. /\ op.s \in Schedules /\ NextSlot = Earliest(op.slots)
      /\ <<op.s, op.rev, Ms(NextSlot)>> \in RunKeys
  BY <1>0, OpSlot
<1>2. /\ runs' \in [RunKeys -> RunRows]
      /\ \A j \in RunKeys : runs'[j].meta = runs[j].meta
                            /\ (runs'[j].state \in Active => runs[j].state \in Active)
  <2>1. CASE UNCHANGED runs
    BY <2>1, <1>0 DEF TypeOK, RunRows
  <2>2. ASSUME NEW k \in Oldest(ActiveOf(op.s)), SetState(k, "cancelled")
        PROVE  /\ runs' \in [RunKeys -> RunRows]
               /\ \A j \in RunKeys : runs'[j].meta = runs[j].meta
                                     /\ (runs'[j].state \in Active => runs[j].state \in Active)
    BY <2>2, <1>0, SetStateType DEF Oldest, ActiveOf, States, Active
  <2> QED  BY <2>1, <2>2 DEF FireSlot
<1>3. PollOK' /\ PlansKept
  BY StillFrame, PollSame DEF FireSlot
<1>4. /\ op' \in Ops /\ op'.pc = "admit" /\ op'.who = op.who /\ op'.s = op.s /\ op'.rev = op.rev
      /\ op'.plan = op.plan /\ op'.slots = op.slots /\ op'.passed = op.passed
      /\ op'.cursor = op.cursor /\ op'.time = op.time
      /\ op'.key = <<op.s, op.rev, Ms(NextSlot)>>
  BY <1>0, <1>1 DEF FireSlot, Ops
<1>5. op.who = "background"
  BY <1>0 DEF Firing
<1>6. OpOK'
  BY <1>0, <1>1, <1>3, <1>4, <1>5 DEF OpOK, Firing, Keyed, PlansKept
<1>7. TypeOK'
  BY <1>0, <1>2, <1>4 DEF TypeOK, RunRows, FireSlot
<1> QED  BY <1>2, <1>3, <1>4, <1>5, <1>6, <1>7 DEF BaseInv

LEMMA LastSlotDoneBase ==
    ASSUME BaseInv, LastSlotDone
    PROVE  BaseInv' /\ ~Firing' /\ op'.who # "daily"
<1>0. TypeOK /\ OpOK /\ op.s \in Schedules /\ op.who = "background"
  BY DEF BaseInv, OpOK, LastSlotDone
<1>1. PollOK'
  BY StillFrame, PollSame DEF LastSlotDone
<1>2. op' \in Ops /\ OpOK' /\ ~Firing' /\ op'.who # "daily"
  <2>1. CASE op.plan.kind = "one_shot"
    <3>1. After("disable")
      BY <2>1 DEF LastSlotDone
    <3>2. op' \in Ops /\ op'.pc = "disable" /\ op'.who = op.who /\ op'.s = op.s
      BY <3>1, <1>0, AfterOp
    <3> QED  BY <3>2, <1>0 DEF OpOK, Firing, Keyed
  <2>2. CASE op.plan.kind # "one_shot"
    <3>1. After("idle")
      BY <2>2 DEF LastSlotDone
    <3> QED  BY <3>1, AfterIdle, IdleFits
  <2> QED  BY <2>1, <2>2
<1>3. TypeOK'
  BY <1>0, <1>2 DEF TypeOK, LastSlotDone
<1> QED  BY <1>1, <1>2, <1>3 DEF BaseInv

LEMMA DisableOneShotBase ==
    ASSUME BaseInv, DisableOneShot
    PROVE  /\ BaseInv' /\ op' = Idle
           /\ \A u \in Schedules : sched'[u].plan = sched[u].plan /\ sched'[u].last = sched[u].last
<1>0. TypeOK /\ op.s \in Schedules /\ sched \in [Schedules -> Rows]
      /\ sched' = [sched EXCEPT ![op.s].enabled = FALSE]
  BY DEF BaseInv, TypeOK, DisableOneShot, OpOK
<1>1. sched' \in [Schedules -> Rows]
  BY <1>0 DEF Rows
<1>2. \A u \in Schedules : sched'[u].plan = sched[u].plan /\ sched'[u].last = sched[u].last
  BY <1>0 DEF Rows
<1>3. PlansKept
  BY <1>2, PlansSame
<1>4. op' = Idle /\ op' \in Ops /\ OpOK'
  BY AfterIdle, IdleFits DEF DisableOneShot
<1>5. TypeOK'
  BY <1>0, <1>1, <1>4 DEF TypeOK, DisableOneShot
<1> QED  BY <1>2, <1>3, <1>4, <1>5, PollFrame, PollSame, ClockSame DEF DisableOneShot, BaseInv

LEMMA ResumeRunBase ==
    ASSUME BaseInv, NEW k \in RunKeys, ResumeRun(k)
    PROVE  /\ BaseInv' /\ ~Firing' /\ op'.who = "background"
           /\ \A j \in RunKeys : /\ runs'[j].meta = runs[j].meta
                                 /\ runs'[j].state = runs[j].state
                                    \/ (runs[j].state = "admitted" /\ runs'[j].state = "queued")
<1>0. TypeOK /\ OpOK /\ op \in Ops /\ op.who = "background" /\ op.pc = "resume"
  BY DEF BaseInv, TypeOK, OpOK, ResumeRun
<1>1. PollOK'
  BY StillFrame, PollSame DEF ResumeRun
<1>2. /\ op' \in Ops /\ op'.pc \in {"resume", "complete"} /\ op'.who = "background"
      /\ op'.pc = "complete" => op'.key = k
  <2>1. CASE op' = [op EXCEPT !.waits = @ \ {k}]
    BY <2>1, <1>0 DEF Ops
  <2>2. CASE op' = [op EXCEPT !.pc = "complete", !.key = k, !.waits = @ \ {k}]
    BY <2>2, <1>0 DEF Ops
  <2> QED  BY <2>1, <2>2 DEF ResumeRun
<1>3. OpOK' /\ ~Firing'
  BY <1>2 DEF OpOK, Firing, Keyed
<1>4. /\ runs' \in [RunKeys -> RunRows]
      /\ \A j \in RunKeys : /\ runs'[j].meta = runs[j].meta
                            /\ runs'[j].state = runs[j].state
                               \/ (runs[j].state = "admitted" /\ runs'[j].state = "queued")
  <2>1. CASE UNCHANGED runs
    BY <2>1, <1>0 DEF TypeOK, RunRows
  <2>2. CASE runs[k].state = "admitted" /\ SetState(k, "queued")
    BY <2>2, <1>0, SetStateType DEF States
  <2> QED  BY <2>1, <2>2 DEF ResumeRun
<1>5. TypeOK'
  BY <1>0, <1>2, <1>4 DEF TypeOK, RunRows, ResumeRun
<1> QED  BY <1>1, <1>2, <1>3, <1>4, <1>5 DEF BaseInv

LEMMA CompleteWaitBase ==
    ASSUME BaseInv, CompleteWait
    PROVE  BaseInv' /\ ~Firing' /\ op'.who # "daily"
<1>0. TypeOK /\ op.key \in RunKeys /\ op.who = "background"
  BY DEF BaseInv, OpOK, CompleteWait
<1>1. waits' \in [RunKeys -> WaitRows]
  BY <1>0 DEF TypeOK, WaitRows, CompleteWait
<1>2. PollOK'
  BY StillFrame, PollSame DEF CompleteWait
<1>3. op' \in Ops /\ op'.pc = "resume" /\ op'.who = "background"
  BY <1>0, AfterOp DEF CompleteWait
<1>4. OpOK' /\ ~Firing'
  BY <1>3 DEF OpOK, Firing, Keyed
<1>5. TypeOK'
  BY <1>0, <1>1, <1>3 DEF TypeOK, WaitRows, CompleteWait
<1> QED  BY <1>2, <1>3, <1>4, <1>5 DEF BaseInv

LEMMA WaitsDoneBase ==
    ASSUME BaseInv, WaitsDone
    PROVE  BaseInv' /\ op' = Idle
<1>1. PollOK' /\ op' = Idle /\ op' \in Ops /\ OpOK'
  BY StillFrame, PollSame, AfterIdle, IdleFits DEF WaitsDone
<1>2. TypeOK'
  BY <1>1 DEF BaseInv, TypeOK, WaitsDone
<1> QED  BY <1>1, <1>2 DEF BaseInv

(* What a poll lists is as its rows are.                                   *)
LEMMA ListedRows ==
    ASSUME BaseInv, NEW p \in Pollers, NEW s \in Listed(p)
    PROVE  /\ s \in Schedules /\ sched[s].rev # 0 /\ Fits(sched[s].plan)
           /\ p = "daily" => sched[s].plan.kind = "daily"
           /\ p = "background" => sched[s].plan.kind # "daily"
BY DEF Listed, FirstPage, Background, BaseInv, PollOK, Pollers

LEMMA ListSchedulesBase ==
    ASSUME BaseInv, NEW p \in Pollers, ListSchedules(p)
    PROVE  /\ BaseInv' /\ poll'[p].todo = Listed(p) /\ poll'[p].at = now
           /\ \A s \in Listed(p) : poll'[p].snap[s] = sched[s]
           /\ \A q \in Pollers : q # p => poll'[q] = poll[q]
<1>0. TypeOK /\ poll \in [Pollers -> PollRows] /\ NoRow \in Rows /\ sched \in [Schedules -> Rows]
      /\ now \in Times /\ now \in Nat /\ now >= Day
  BY RestTypes, Bounds DEF BaseInv, TypeOK, PollRows, Times
<1> DEFINE row == [pc |-> "work", todo |-> Listed(p), at |-> now,
                   snap |-> [s \in Schedules |-> IF s \in Listed(p) THEN sched[s] ELSE NoRow]]
<1>1. Listed(p) \subseteq Schedules
  BY ListedRows
<1>2. row \in PollRows
  <2>1. [s \in Schedules |-> IF s \in Listed(p) THEN sched[s] ELSE NoRow] \in [Schedules -> Rows]
    BY <1>0
  <2> QED  BY <1>0, <1>1, <2>1 DEF PollRows
<1>3. poll' = [poll EXCEPT ![p] = row]
  BY DEF ListSchedules
<1>4. /\ poll' \in [Pollers -> PollRows] /\ poll'[p].todo = Listed(p) /\ poll'[p].at = now
      /\ \A s \in Listed(p) : poll'[p].snap[s] = sched[s]
      /\ \A q \in Pollers : q # p => poll'[q] = poll[q]
  BY <1>0, <1>1, <1>2, <1>3
<1>5. PlansKept /\ OpOK'
  BY PlansSame, OpFrame DEF ListSchedules
<1>6. PollOK'
  <2>1. ASSUME NEW q \in Pollers, poll'[q].pc = "work"
        PROVE  poll'[q].at \in Day..now'
    <3>1. CASE q = p
      BY <3>1, <1>0, <1>4, Bounds DEF ListSchedules
    <3>2. CASE q # p
      BY <3>2, <2>1, <1>4 DEF ListSchedules, BaseInv, PollOK
    <3> QED  BY <3>1, <3>2
  <2>2. ASSUME NEW q \in Pollers, NEW s \in poll'[q].todo
        PROVE  Snapped(q, s)'
    <3>1. CASE q = p
      BY <3>1, <2>2, <1>4, ListedRows DEF Snapped, ListSchedules
    <3>2. CASE q # p
      BY <3>2, <2>2, <1>4 DEF Snapped, ListSchedules, BaseInv, PollOK
    <3> QED  BY <3>1, <3>2
  <2> QED  BY <2>1, <2>2, <1>5 DEF PollOK, PlansKept
<1>7. TypeOK'
  BY <1>0, <1>4 DEF TypeOK, PollRows, ListSchedules
<1> QED  BY <1>4, <1>5, <1>6, <1>7 DEF BaseInv

LEMMA RestKept ==
    ASSUME TypeOK, NEW p \in Pollers, poll' = [poll EXCEPT ![p] = Resting]
    PROVE  PollKept /\ poll' \in [Pollers -> PollRows]
<1>1. poll \in [Pollers -> PollRows]
  BY DEF TypeOK, PollRows
<1> QED  BY <1>1, RestTypes DEF PollKept

LEMMA SchedulesDoneBase ==
    ASSUME BaseInv, NEW p \in Pollers, SchedulesDone(p)
    PROVE  BaseInv' /\ PollKept /\ (op' = op \/ (~Firing' /\ op'.who = "background"))
<1>0. TypeOK /\ poll' = [poll EXCEPT ![p] = Resting] /\ Pollers = {"background", "daily"}
  BY DEF BaseInv, SchedulesDone, Pollers
<1>1. PollKept /\ poll' \in [Pollers -> PollRows]
  BY <1>0, RestKept
<1>2. PollOK' /\ PlansKept
  BY <1>1, StillFrame DEF SchedulesDone
<1>3. op' \in Ops /\ OpOK' /\ (op' = op \/ (~Firing' /\ op'.who = "background"))
  <2>1. CASE UNCHANGED op
    BY <2>1, <1>0, <1>2, OpFrame DEF TypeOK
  <2>2. ASSUME NEW W \in ListWaits,
               op' = [Idle EXCEPT !.pc = "resume", !.who = "background", !.waits = W,
                                  !.time = poll[p].at]
        PROVE  op' \in Ops /\ OpOK' /\ ~Firing' /\ op'.who = "background"
    <3>1. W \subseteq RunKeys /\ poll[p].at \in Times /\ Idle \in Ops
      BY <1>0, RestTypes DEF ListWaits, OpenWaits, TypeOK
    <3>2. op' \in Ops /\ op'.pc = "resume" /\ op'.who = "background"
      BY <2>2, <3>1 DEF Ops
    <3> QED  BY <3>2 DEF OpOK, Firing, Keyed
  <2> QED  BY <2>1, <2>2 DEF SchedulesDone
<1>4. TypeOK'
  BY <1>0, <1>1, <1>3 DEF TypeOK, PollRows, SchedulesDone
<1> QED  BY <1>1, <1>2, <1>3, <1>4 DEF BaseInv

LEMMA DoneKept ==
    ASSUME TypeOK, NEW p \in Pollers, NEW s \in Schedules, Done(p, s)
    PROVE  PollKept /\ poll' \in [Pollers -> PollRows] /\ poll'[p].todo = poll[p].todo \ {s}
<1>1. /\ poll' \in [Pollers -> PollRows] /\ poll'[p].todo = poll[p].todo \ {s}
      /\ \A t \in Schedules : t # s => poll'[p].snap[t] = poll[p].snap[t]
      /\ \A q \in Pollers : poll'[q].pc = poll[q].pc /\ poll'[q].at = poll[q].at
      /\ \A q \in Pollers : q # p => poll'[q] = poll[q]
  BY DoneType
<1>2. ASSUME NEW q \in Pollers
      PROVE  /\ poll'[q].pc = "work" => poll[q].pc = "work" /\ poll'[q].at = poll[q].at
             /\ poll'[q].at = poll[q].at /\ poll'[q].todo \subseteq poll[q].todo
             /\ \A t \in poll'[q].todo : poll'[q].snap[t] = poll[q].snap[t]
  <2>1. CASE q = p
    <3>1. poll'[p].todo \subseteq Schedules
      BY <1>1 DEF PollRows
    <3> QED  BY <2>1, <3>1, <1>1
  <2>2. CASE q # p
    BY <2>2, <1>1
  <2> QED  BY <2>1, <2>2
<1> QED  BY <1>1, <1>2 DEF PollKept

LEMMA CrashBase ==
    ASSUME BaseInv, Crash
    PROVE  BaseInv' /\ op' = Idle /\ PollKept
<1>0. TypeOK /\ poll' = [p \in Pollers |-> Resting] /\ op' = Idle /\ op' \in Ops /\ OpOK'
  BY IdleFits DEF BaseInv, Crash
<1>1. PollKept /\ poll' \in [Pollers -> PollRows]
  BY <1>0, RestTypes DEF PollKept
<1>2. crashes' \in 0..MaxCrashes
  BY <1>0, Bounds DEF TypeOK, Crash
<1>3. TypeOK'
  BY <1>0, <1>1, <1>2 DEF TypeOK, PollRows, Crash
<1> QED  BY <1>0, <1>1, <1>3, StillFrame DEF Crash, BaseInv

(* The row a background poll takes, and the slots it finds for it.         *)
LEMMA TakenRow ==
    ASSUME BaseInv, NEW p \in Pollers, poll[p].pc = "work", NEW s \in poll[p].todo
    PROVE  /\ s \in Schedules /\ poll[p].at \in Day..MaxTime /\ poll[p].at <= now
           /\ poll[p].snap[s] \in Rows /\ poll[p].snap[s].rev # 0
           /\ poll[p].snap[s].rev \in Revisions
           /\ poll[p].snap[s].last \in Names /\ Fits(poll[p].snap[s].plan)
           /\ p = "daily" => poll[p].snap[s].plan.kind = "daily"
           /\ p = "background" => poll[p].snap[s].plan.kind # "daily" /\ sched[s].plan.kind # "daily"
<1>1. TypeOK /\ PollOK /\ poll \in [Pollers -> PollRows]
  BY DEF BaseInv, TypeOK, PollRows
<1>2. s \in Schedules /\ poll[p].snap[s] \in Rows /\ Snapped(p, s)
  BY <1>1 DEF PollRows, PollOK
<1>3. poll[p].at \in Day..MaxTime /\ poll[p].at <= now
  <2>1. poll[p].at \in Day..now /\ now \in Day..MaxTime
    BY <1>1 DEF PollOK, TypeOK
  <2> QED  BY <2>1, Bounds
<1>4. poll[p].snap[s].rev \in Revisions /\ poll[p].snap[s].last \in Names
  BY <1>2, Bounds DEF Snapped, Rows, Revisions, Names
<1> QED  BY <1>2, <1>3, <1>4 DEF Snapped

LEMMA TakenSlots ==
    ASSUME BaseInv, poll["background"].pc = "work", NEW s \in poll["background"].todo
    PROVE  LET row == poll["background"].snap[s]
               last == Parsed(row.last)
               at == poll["background"].at
           IN  /\ last \in Nat /\ (last # 0 => last \in Slots)
               /\ Latest(row.plan, at) \in 0..at
               /\ last < Latest(row.plan, at) =>
                    /\ ToFire(row.plan, last, at) \subseteq Slots
                    /\ GivenUp(row.plan, last, at) \subseteq Slots
                    /\ Latest(row.plan, at) \in Slots
                    /\ ToFire(row.plan, last, at) = {} =>
                           \A x \in Slots :
                               IsSlot(row.plan, x) /\ last < x /\ x <= Latest(row.plan, at) =>
                                   x \in GivenUp(row.plan, last, at)
                    /\ \A y \in ToFire(row.plan, last, at) : last < y
                    /\ \/ Off(row.plan, last) /\ \A y \in ToFire(row.plan, last, at) : Off(row.plan, y)
                       \/ Covers(row.plan, last, ToFire(row.plan, last, at), GivenUp(row.plan, last, at))
<1> DEFINE row == poll["background"].snap[s]
           last == Parsed(row.last)
           at == poll["background"].at
<1>1. at \in Day..MaxTime /\ row.last \in Names /\ Fits(row.plan) /\ row.plan.kind # "daily"
  BY TakenRow DEF Pollers
<1>2. last \in Nat /\ (last # 0 => last \in Slots)
  BY <1>1, ParsedType
<1>3. Latest(row.plan, at) \in 0..at
  BY <1>1, LatestType
<1> HIDE DEF row, last, at
<1>4. last < Latest(row.plan, at) =>
        /\ ToFire(row.plan, last, at) \subseteq Slots
        /\ GivenUp(row.plan, last, at) \subseteq Slots
        /\ Latest(row.plan, at) \in Slots
        /\ ToFire(row.plan, last, at) = {} =>
               \A x \in Slots : IsSlot(row.plan, x) /\ last < x /\ x <= Latest(row.plan, at) =>
                                  x \in GivenUp(row.plan, last, at)
        /\ \A y \in ToFire(row.plan, last, at) : last < y
        /\ \/ Off(row.plan, last) /\ \A y \in ToFire(row.plan, last, at) : Off(row.plan, y)
           \/ Covers(row.plan, last, ToFire(row.plan, last, at), GivenUp(row.plan, last, at))
  BY <1>1, <1>2, ToFireHolds
<1> QED  BY <1>2, <1>3, <1>4 DEF row, last, at

(* The three ways to take a background schedule.                           *)
Passed(s) ==
    LET row == poll["background"].snap[s]
        latest == Latest(row.plan, poll["background"].at)
    IN  /\ Parsed(row.last) < latest /\ ToFire(row.plan, Parsed(row.last), poll["background"].at) = {}
        /\ Advance(s, row.last, Ms(latest))
        /\ op' = op \/ op' = [Idle EXCEPT !.pc = "disable", !.who = "background", !.s = s]
Fires(s) ==
    LET row == poll["background"].snap[s]
        at == poll["background"].at
    IN  /\ Parsed(row.last) < Latest(row.plan, at) /\ UNCHANGED sched
        /\ ToFire(row.plan, Parsed(row.last), at) # {}
        /\ op' = [Idle EXCEPT !.pc = "overlap", !.who = "background", !.s = s,
                              !.plan = row.plan, !.cursor = row.last, !.rev = row.rev,
                              !.slots = ToFire(row.plan, Parsed(row.last), at),
                              !.passed = GivenUp(row.plan, Parsed(row.last), at)]
LEMMA TakeCases ==
    ASSUME NEW s, TakeSchedule(s)
    PROVE  UNCHANGED <<sched, op>> \/ Passed(s) \/ Fires(s)
BY DEF TakeSchedule, Passed, Fires

LEMMA PassedBase ==
    ASSUME BaseInv, NEW s \in Schedules, TakeSchedule(s), Passed(s)
    PROVE  /\ sched' \in [Schedules -> Rows] /\ PlansKept /\ op' \in Ops /\ OpOK'
           /\ op' = op \/ (~Firing' /\ op'.who = "background")
           /\ \A u \in Schedules : sched'[u].plan = sched[u].plan
           /\ \A u \in Schedules : sched'[u].last # sched[u].last =>
                  u = s /\ sched[s].last = poll["background"].snap[s].last
                  /\ sched'[s].last = Ms(Latest(poll["background"].snap[s].plan, poll["background"].at))
                  /\ sched'[s].last \in SlotNames
<1> DEFINE row == poll["background"].snap[s]
           latest == Latest(row.plan, poll["background"].at)
<1>0. TypeOK /\ poll["background"].pc = "work" /\ s \in poll["background"].todo
  BY DEF BaseInv, TakeSchedule
<1>1. latest \in Slots
  BY <1>0, TakenSlots DEF Passed
<1>2. Ms(latest) \in SlotNames /\ Advance(s, row.last, Ms(latest))
  BY <1>1, NameTypes DEF Passed
<1>c. CASE op' = op \/ op' = [Idle EXCEPT !.pc = "disable", !.who = "background", !.s = s]
  <2> HIDE DEF row, latest
  <2>3. /\ sched' \in [Schedules -> Rows]
        /\ \A u \in Schedules : sched'[u].plan = sched[u].plan
        /\ \A u \in Schedules : u # s => sched'[u] = sched[u]
        /\ sched'[s].last = IF sched[s].last = row.last THEN Ms(latest) ELSE sched[s].last
    BY <1>0, <1>2, AdvanceType
  <2>4. PlansKept
    BY <2>3, PlansSame
  <2>5. op' \in Ops /\ OpOK' /\ (op' = op \/ (~Firing' /\ op'.who = "background"))
    <3>1. CASE op' = op
      BY <3>1, <1>0, <2>4, OpFrame DEF TypeOK
    <3>2. CASE op' = [Idle EXCEPT !.pc = "disable", !.who = "background", !.s = s]
      <4>1. op' \in Ops /\ op'.pc = "disable" /\ op'.who = "background" /\ op'.s = s
        BY <3>2, RestTypes DEF Ops
      <4> QED  BY <4>1 DEF OpOK, Firing, Keyed
    <3> QED  BY <3>1, <3>2, <1>c
  <2> QED  BY <1>2, <2>3, <2>4, <2>5 DEF row, latest
<1> QED  BY <1>c DEF Passed

LEMMA FiresBase ==
    ASSUME BaseInv, NEW s \in Schedules, TakeSchedule(s), Fires(s)
    PROVE  LET row == poll["background"].snap[s]
               at == poll["background"].at
               last == Parsed(row.last)
           IN  /\ op' \in Ops /\ OpOK' /\ op'.pc = "overlap" /\ op'.who = "background"
               /\ op'.s = s /\ op'.plan = row.plan /\ op'.cursor = row.last
               /\ op'.slots = ToFire(row.plan, last, at) /\ op'.passed = GivenUp(row.plan, last, at)
<1> DEFINE row == poll["background"].snap[s]
           at == poll["background"].at
           last == Parsed(row.last)
           slots == ToFire(row.plan, last, at)
           up == GivenUp(row.plan, last, at)
<1>0. TypeOK /\ poll["background"].pc = "work" /\ s \in poll["background"].todo
  BY DEF BaseInv, TakeSchedule
<1>1. /\ row.rev # 0 /\ row.rev \in 0..MaxRevision /\ row.last \in Names /\ row.plan \in PlanRecords
      /\ Fits(row.plan) /\ row.plan.kind # "daily" /\ sched[s].plan.kind # "daily"
  BY <1>0, TakenRow DEF Pollers, Fits, Rows
<1>2. slots \subseteq Slots /\ up \subseteq Slots
  BY <1>0, TakenSlots DEF Fires
<1>3. /\ op' = [Idle EXCEPT !.pc = "overlap", !.who = "background", !.s = s, !.plan = row.plan,
                            !.cursor = row.last, !.rev = row.rev, !.slots = slots, !.passed = up]
      /\ UNCHANGED sched
  BY DEF Fires
<1> HIDE DEF row, last, at, slots, up
<1>4. /\ op' \in Ops /\ op'.pc = "overlap" /\ op'.who = "background" /\ op'.s = s
      /\ op'.plan = row.plan /\ op'.cursor = row.last /\ op'.rev = row.rev /\ op'.slots = slots
      /\ op'.passed = up /\ op'.time = 0
  BY <1>1, <1>2, <1>3, RestTypes DEF Ops, Names
<1>5. OpOK'
  BY <1>1, <1>3, <1>4 DEF OpOK, Firing, Keyed
<1> QED  BY <1>4, <1>5 DEF row, last, at, slots, up

LEMMA TakeScheduleBase ==
    ASSUME BaseInv, NEW s \in Schedules, TakeSchedule(s)
    PROVE  BaseInv' /\ PollKept
<1>0. TypeOK /\ Done("background", s) /\ "background" \in Pollers
  BY DEF BaseInv, TakeSchedule, Pollers
<1>1. PollKept /\ poll' \in [Pollers -> PollRows]
  BY <1>0, DoneKept
<1>2. sched' \in [Schedules -> Rows] /\ PlansKept /\ op' \in Ops /\ OpOK'
  <2>1. CASE UNCHANGED <<sched, op>>
    BY <2>1, <1>0, PlansSame, OpFrame DEF TypeOK
  <2>2. CASE Passed(s)
    BY <2>2, PassedBase
  <2>3. CASE Fires(s)
    <3>1. UNCHANGED sched
      BY <2>3 DEF Fires
    <3> QED  BY <2>3, <3>1, <1>0, FiresBase, PlansSame DEF TypeOK
  <2> QED  BY <2>1, <2>2, <2>3, TakeCases
<1>3. TypeOK'
  BY <1>0, <1>1, <1>2 DEF TypeOK, PollRows, TakeSchedule
<1>4. PollOK'
  BY <1>1, <1>2, PollFrame, ClockSame DEF TakeSchedule
<1> QED  BY <1>1, <1>2, <1>3, <1>4 DEF BaseInv

(* A daily schedule is taken: nothing, a cursor that was not moved or one  *)
(* that was, with or without a run.                                        *)
LEMMA TakeDailyBase ==
    ASSUME BaseInv, NEW s \in Schedules, TakeDaily(s)
    PROVE  LET row == poll["daily"].snap[s]
               slot == Rfc(row.plan, TodaySlot(row.plan, poll["daily"].at))
           IN  /\ BaseInv' /\ PollKept
               /\ poll'["daily"].todo = poll["daily"].todo \ {s}
               /\ op.pc = "idle" /\ s \in poll["daily"].todo /\ poll["daily"].pc = "work"
               /\ \A u \in Schedules : sched'[u].plan = sched[u].plan
               /\ \A u \in Schedules : u # s => sched'[u].last = sched[u].last
               /\ \/ UNCHANGED op /\ sched'[s].last = sched[s].last
                  \/ /\ DailyDue(row, poll["daily"].at) /\ sched[s].last = row.last
                     /\ sched'[s].last = slot /\ slot \in SlotNames
                     /\ \/ UNCHANGED op
                        \/ /\ op'.who = "daily" /\ op'.pc = "admit" /\ op'.s = s
                           /\ op'.key = <<s, row.rev, slot>>
<1> DEFINE row == poll["daily"].snap[s]
           at == poll["daily"].at
           slot == Rfc(row.plan, TodaySlot(row.plan, at))
           begun == [Idle EXCEPT !.pc = "admit", !.who = "daily", !.s = s,
                                 !.key = <<s, row.rev, slot>>]
<1>0. /\ TypeOK /\ Done("daily", s) /\ "daily" \in Pollers /\ op.pc = "idle"
      /\ poll["daily"].pc = "work" /\ s \in poll["daily"].todo
  BY DEF BaseInv, TakeDaily, Pollers
<1>1. PollKept /\ poll' \in [Pollers -> PollRows] /\ poll'["daily"].todo = poll["daily"].todo \ {s}
  BY <1>0, DoneKept
<1>2. row.rev \in Revisions /\ Fits(row.plan) /\ at \in Day..MaxTime
  BY <1>0, TakenRow
<1>3. DailyDue(row, at) =>
          slot \in SlotNames /\ slot.form = "rfc3339" /\ <<s, row.rev, slot>> \in RunKeys
  <2>1. SUFFICES ASSUME DailyDue(row, at)
                 PROVE  slot \in SlotNames /\ slot.form = "rfc3339" /\ <<s, row.rev, slot>> \in RunKeys
    OBVIOUS
  <2>2. TodaySlot(row.plan, at) \in Slots
    BY <2>1, <1>2, TodayIsSlot DEF DailyDue
  <2> QED  BY <2>2, <1>2, NameTypes, FireKeyType
<1>4. /\ UNCHANGED <<sched, op>>
      \/ /\ DailyDue(row, at) /\ Advance(s, row.last, slot)
         /\ op' = op \/ (sched[s].last = row.last /\ op' = begun)
  BY DEF TakeDaily
<1>5. begun.who = "daily" /\ begun.pc = "admit" /\ begun.s = s /\ begun.key = <<s, row.rev, slot>>
      /\ (<<s, row.rev, slot>> \in RunKeys => begun \in Ops)
  BY RestTypes DEF Ops, Idle
<1> HIDE DEF row, at, slot, begun
<1>6. /\ sched' \in [Schedules -> Rows]
      /\ \A u \in Schedules : sched'[u].plan = sched[u].plan
      /\ \A u \in Schedules : u # s => sched'[u].last = sched[u].last
      /\ \/ UNCHANGED op /\ sched'[s].last = sched[s].last
         \/ /\ DailyDue(row, at) /\ sched[s].last = row.last
            /\ sched'[s].last = slot /\ slot \in SlotNames
            /\ op' = op \/ op' = begun
  <2>1. CASE UNCHANGED <<sched, op>>
    BY <2>1, <1>0 DEF TypeOK
  <2>2. CASE /\ DailyDue(row, at) /\ Advance(s, row.last, slot)
             /\ op' = op \/ (sched[s].last = row.last /\ op' = begun)
    <3>1. /\ sched' \in [Schedules -> Rows]
          /\ sched'[s].last = IF sched[s].last = row.last THEN slot ELSE sched[s].last
          /\ \A u \in Schedules : sched'[u].plan = sched[u].plan
          /\ \A u \in Schedules : u # s => sched'[u] = sched[u]
      BY <2>2, <1>0, <1>3, AdvanceType
    <3> QED  BY <2>2, <3>1, <1>3
  <2> QED  BY <2>1, <2>2, <1>4
<1>7. PlansKept
  BY <1>6, PlansSame
<1>8. op' \in Ops /\ OpOK'
  <2>1. CASE op' = op
    BY <2>1, <1>0, <1>7, OpFrame DEF TypeOK
  <2>2. CASE op' = begun /\ DailyDue(row, at)
    <3>1. slot \in SlotNames /\ slot.form = "rfc3339" /\ <<s, row.rev, slot>> \in RunKeys
      BY <2>2, <1>3
    <3> QED  BY <2>2, <3>1, <1>2, <1>5 DEF OpOK, Firing, Keyed
  <2> QED  BY <2>1, <2>2, <1>6
<1>9. TypeOK'
  BY <1>0, <1>1, <1>6, <1>8 DEF TypeOK, PollRows, TakeDaily
<1>10. PollOK'
  BY <1>1, <1>7, PollFrame, ClockSame DEF TakeDaily
<1>11. BaseInv'
  BY <1>8, <1>9, <1>10 DEF BaseInv
<1> QED  BY <1>0, <1>1, <1>5, <1>6, <1>11 DEF row, at, slot

--------------------------------------------------------------------------------
(* The slots in hand.                                                      *)

LEMMA NoSlotInHand ==
    ASSUME ~Firing'
    PROVE  SlotInv'
BY DEF SlotInv, Firing

LEMMA IdleNotFiring ==
    ASSUME BaseInv, op.pc = "idle"
    PROVE  ~Firing /\ op.who = "none"
BY DEF BaseInv, OpOK, Firing

LEMMA SlotFrame ==
    ASSUME BaseInv, SlotInv,
           Firing' => /\ Firing /\ op'.s = op.s /\ op'.plan = op.plan /\ op'.cursor = op.cursor
                      /\ op'.slots = op.slots /\ op'.passed = op.passed
                      /\ sched'[op.s].last = sched[op.s].last,
           op'.who = "background" /\ op'.pc \in {"meta", "queue", "advance"} =>
               runs'[op'.key].state # "none"
    PROVE  SlotInv'
<1>1. CASE Firing'
  <2>1. InHand => InHand'
    BY <1>1 DEF InHand
  <2> QED  BY <1>1, <2>1 DEF SlotInv
<1>2. CASE ~Firing'
  BY <1>2, NoSlotInHand
<1> QED  BY <1>1, <1>2

LEMMA TickSlots ==
    ASSUME BaseInv, SlotInv, Tick
    PROVE  SlotInv'
BY SlotFrame DEF Tick, SlotInv, Firing

LEMMA ListSchedulesSlots ==
    ASSUME BaseInv, SlotInv, NEW p \in Pollers, ListSchedules(p)
    PROVE  SlotInv'
BY SlotFrame DEF ListSchedules, SlotInv, Firing

LEMMA CommandSlots ==
    ASSUME BaseInv, SlotInv, Command
    PROVE  SlotInv'
<1>1. ASSUME op.pc = "idle", UNCHANGED op
      PROVE  ~Firing'
  BY <1>1, IdleNotFiring DEF Firing
<1>2. ASSUME NEW c \in Clients, NEW w \in Times, CreateRun(c, w)
      PROVE  ~Firing'
  BY <1>2, BeginOp DEF CreateRun
<1>3. ASSUME NEW t \in Triggers, TriggerRun(t)
      PROVE  ~Firing'
  BY <1>3, BeginOp, Bounds DEF TriggerRun, Times
<1>4. ASSUME NEW s, NEW r, NEW on, NEW p, SaveBackground(s, r, on, p)
      PROVE  ~Firing'
  <2>1. op' = [Idle EXCEPT !.pc = "save", !.who = "client", !.s = s, !.rev = r, !.plan = p]
    BY <1>4 DEF SaveBackground
  <2>2. op'.who = "client"
    BY <2>1 DEF Idle
  <2> QED  BY <2>2 DEF Firing
<1> QED
  BY <1>1, <1>2, <1>3, <1>4, NoSlotInHand
  DEF Command, Commanded, Wait, CancelRun, SaveDaily, SetEnabled

LEMMA AdmitRunSlots ==
    ASSUME BaseInv, SlotInv, AdmitRun
    PROVE  SlotInv'
<1>0. TypeOK /\ op.pc = "admit" /\ runs'[op.key].state = "admitted" /\ UNCHANGED sched
  BY AdmitRunBase DEF BaseInv, AdmitRun
<1>1. PICK pc \in {"meta", "queue"} : After(pc)
  BY DEF AdmitRun
<1>2. /\ op'.pc = pc /\ op'.who = op.who /\ op'.key = op.key /\ op'.s = op.s /\ op'.plan = op.plan
      /\ op'.cursor = op.cursor /\ op'.slots = op.slots /\ op'.passed = op.passed
  BY <1>0, <1>1, AfterOp
<1> QED  BY <1>0, <1>2, SlotFrame DEF Firing

LEMMA AdmitExistingSlots ==
    ASSUME BaseInv, SlotInv, AdmitExisting
    PROVE  SlotInv'
<1>0. TypeOK /\ op.pc = "admit" /\ runs'[op.key].state # "none" /\ UNCHANGED sched
  BY DEF BaseInv, AdmitExisting
<1>1. CASE op.who = "background"
  <2>1. After("advance")
    BY <1>1 DEF AdmitExisting
  <2>2. /\ op'.pc = "advance" /\ op'.who = op.who /\ op'.key = op.key /\ op'.s = op.s
        /\ op'.plan = op.plan /\ op'.cursor = op.cursor /\ op'.slots = op.slots
        /\ op'.passed = op.passed
    BY <1>0, <2>1, AfterOp
  <2> QED  BY <1>0, <1>1, <2>2, SlotFrame DEF Firing
<1>2. CASE op.who # "background"
  <2>1. After("idle")
    BY <1>2 DEF AdmitExisting
  <2> QED  BY <2>1, AfterIdle, IdleFits, NoSlotInHand
<1> QED  BY <1>1, <1>2

LEMMA SaveMetadataSlots ==
    ASSUME BaseInv, SlotInv, SaveMetadata
    PROVE  SlotInv'
<1>0. /\ TypeOK /\ op.pc = "meta" /\ runs'[op.key].state = runs[op.key].state /\ UNCHANGED sched
      /\ op.who = "background" => runs[op.key].state # "none"
  BY SaveMetadataBase DEF BaseInv, SaveMetadata, SlotInv
<1>1. PICK pc \in {"wait", "queue"} : After(pc)
  BY DEF SaveMetadata
<1>2. /\ op'.pc = pc /\ op'.who = op.who /\ op'.key = op.key /\ op'.s = op.s /\ op'.plan = op.plan
      /\ op'.cursor = op.cursor /\ op'.slots = op.slots /\ op'.passed = op.passed
  BY <1>0, <1>1, AfterOp
<1> QED  BY <1>0, <1>2, SlotFrame DEF Firing

LEMMA QueueRunSlots ==
    ASSUME BaseInv, SlotInv, QueueRun
    PROVE  SlotInv'
<1>0. /\ TypeOK /\ op.pc = "queue" /\ UNCHANGED sched
      /\ op.who = "background" => runs'[op.key].state # "none"
  BY QueueRunBase DEF BaseInv, QueueRun, SlotInv
<1>1. CASE op.who = "background"
  <2>1. After("advance")
    BY <1>1 DEF QueueRun
  <2>2. /\ op'.pc = "advance" /\ op'.who = op.who /\ op'.key = op.key /\ op'.s = op.s
        /\ op'.plan = op.plan /\ op'.cursor = op.cursor /\ op'.slots = op.slots
        /\ op'.passed = op.passed
    BY <1>0, <2>1, AfterOp
  <2> QED  BY <1>0, <1>1, <2>2, SlotFrame DEF Firing
<1>2. CASE op.who # "background"
  <2>1. After("idle")
    BY <1>2 DEF QueueRun
  <2> QED  BY <2>1, AfterIdle, IdleFits, NoSlotInHand
<1> QED  BY <1>1, <1>2

LEMMA FireSlotSlots ==
    ASSUME BaseInv, SlotInv, FireSlot
    PROVE  SlotInv'
<1>1. /\ op'.pc = "admit" /\ op'.s = op.s /\ op'.plan = op.plan /\ op'.cursor = op.cursor
      /\ op'.slots = op.slots /\ op'.passed = op.passed /\ Firing /\ UNCHANGED sched
  BY FireSlotBase, OverlapFires DEF FireSlot
<1> QED  BY <1>1, SlotFrame

(* Once the cursor has gone to the first slot in hand the others are still *)
(* all there is between it and them.                                       *)
LEMMA MoveSlots ==
    ASSUME BaseInv, SlotInv, Firing, op.slots # {}, Advance(op.s, op.cursor, Ms(NextSlot)),
           op' = [op EXCEPT !.pc = "overlap", !.slots = @ \ {NextSlot}, !.cursor = Follow(Ms(NextSlot))],
           UNCHANGED <<runs, waits, poll, now, crashes, commands, since, lax>>
    PROVE  SlotInv'
<1>1. /\ op'.pc = "overlap" /\ op'.s = op.s /\ op'.plan = op.plan
      /\ op'.slots = op.slots \ {NextSlot} /\ op'.passed = op.passed
      /\ op'.cursor = Follow(Ms(NextSlot))
  BY MoveBase
<1>2. /\ TypeOK /\ op.s \in Schedules /\ NextSlot \in Slots /\ NextSlot \in op.slots
      /\ Ms(NextSlot) \in SlotNames /\ Parsed(Ms(NextSlot)) = NextSlot /\ op.slots \subseteq Slots
      /\ NextSlot = Earliest(op.slots)
  BY OpSlot, NameTypes DEF BaseInv, TypeOK, Ops
<1>3. sched'[op.s].last = IF sched[op.s].last = op.cursor THEN Ms(NextSlot) ELSE sched[op.s].last
  BY <1>2, AdvanceType
<1>4. /\ \A y \in op.slots \ {NextSlot} : NextSlot < y
      /\ \A y \in op.slots : Parsed(op.cursor) < y
  <2>1. \A y \in op.slots : NextSlot <= y /\ y \in Int
    BY <1>2, EarliestIsFirst, Bounds DEF Slots
  <2> QED  BY <2>1, <1>2, Bounds DEF SlotInv, Slots
<1>5. CASE sched[op.s].last # op.cursor
  <2>1. op'.cursor = op.cursor /\ sched'[op'.s].last # op'.cursor
    BY <1>1, <1>3, <1>5 DEF Follow
  <2> QED  BY <1>1, <1>4, <2>1 DEF SlotInv
<1>6. CASE sched[op.s].last = op.cursor
  <2>1. InHand /\ op'.cursor = Ms(NextSlot) /\ Parsed(op'.cursor) = NextSlot
    BY <1>1, <1>2, <1>6 DEF SlotInv, Follow
  <2>2. InHand'
    <3>1. CASE Off(op.plan, Parsed(op.cursor)) /\ \A y \in op.slots : Off(op.plan, y)
      BY <3>1, <2>1, <1>1, <1>2 DEF InHand
    <3>2. CASE Covers(op.plan, Parsed(op.cursor), op.slots, op.passed)
      <4>1. ASSUME NEW y \in op'.slots, NEW x \in Slots, IsSlot(op.plan, x), NextSlot < x, x <= y
            PROVE  x \in op'.passed \cup op'.slots
        <5>1. Parsed(op.cursor) \in Nat /\ x \in Nat /\ NextSlot \in Nat
          BY <1>2, ParsedType, Bounds DEF TypeOK, Ops, Names, Slots
        <5>2. Parsed(op.cursor) < x /\ x # NextSlot
          BY <5>1, <4>1, <1>2, <1>4
        <5>3. x \in op.passed \cup op.slots
          BY <5>2, <4>1, <3>2, <1>1 DEF Covers
        <5> QED  BY <5>2, <5>3, <1>1
      <4> QED  BY <4>1, <2>1, <1>1 DEF InHand, Covers
    <3> QED  BY <2>1, <3>1, <3>2 DEF InHand
  <2> QED  BY <2>1, <2>2, <1>1, <1>4 DEF SlotInv
<1> QED  BY <1>5, <1>6

LEMMA TakeScheduleSlots ==
    ASSUME BaseInv, SlotInv, NEW s \in Schedules, TakeSchedule(s)
    PROVE  SlotInv'
<1>0. op.pc = "idle" /\ ~Firing /\ poll["background"].pc = "work" /\ s \in poll["background"].todo
  BY IdleNotFiring DEF TakeSchedule
<1>1. CASE UNCHANGED op
  BY <1>1, <1>0, NoSlotInHand DEF Firing
<1>2. CASE Passed(s)
  BY <1>1, <1>2, PassedBase, NoSlotInHand
<1>3. CASE Fires(s)
  <2> DEFINE row == poll["background"].snap[s]
             at == poll["background"].at
             last == Parsed(row.last)
  <2>1. /\ op'.pc = "overlap" /\ op'.plan = row.plan /\ op'.cursor = row.last
        /\ op'.slots = ToFire(row.plan, last, at) /\ op'.passed = GivenUp(row.plan, last, at)
    BY <1>3, FiresBase
  <2>2. last < Latest(row.plan, at)
    BY <1>3 DEF Fires
  <2>3. /\ \A y \in ToFire(row.plan, last, at) : last < y
        /\ \/ Off(row.plan, last) /\ \A y \in ToFire(row.plan, last, at) : Off(row.plan, y)
           \/ Covers(row.plan, last, ToFire(row.plan, last, at), GivenUp(row.plan, last, at))
    BY <1>0, <2>2, TakenSlots
  <2>4. InHand' /\ \A y \in op'.slots : Parsed(op'.cursor) < y
    BY <2>1, <2>3 DEF InHand
  <2> QED  BY <2>1, <2>4 DEF SlotInv
<1> QED  BY <1>1, <1>2, <1>3, TakeCases

LEMMA TakeDailySlots ==
    ASSUME BaseInv, SlotInv, NEW s \in Schedules, TakeDaily(s)
    PROVE  SlotInv'
<1>1. op.pc = "idle" /\ (UNCHANGED op \/ op'.who = "daily")
  BY TakeDailyBase
<1>2. ~Firing'
  BY <1>1, IdleNotFiring DEF Firing
<1> QED  BY <1>2, NoSlotInHand

LEMMA SchedulesDoneSlots ==
    ASSUME BaseInv, SlotInv, NEW p \in Pollers, SchedulesDone(p)
    PROVE  SlotInv'
<1>1. ~Firing'
  BY SchedulesDoneBase, IdleNotFiring DEF SchedulesDone, Firing
<1> QED  BY <1>1, NoSlotInHand

--------------------------------------------------------------------------------
(* Daily slots.                                                            *)

LEMMA SameTime ==
    ASSUME NEW p, NEW q, TimeOf(p) = TimeOf(q)
    PROVE  /\ p.kind = q.kind /\ p.first = q.first /\ p.zone = q.zone
           /\ \A n : Aligned(p, n) <=> Aligned(q, n)
           /\ \A F, c : Before(F, p, c) <=> Before(F, q, c)
<1>1. p.kind = q.kind /\ p.first = q.first /\ p.zone = q.zone
  BY DEF TimeOf
<1>2. \A n : Aligned(p, n) <=> Aligned(q, n)
  BY <1>1 DEF Aligned, TodaySlot
<1> QED  BY <1>1, <1>2 DEF Before

(* A schedule keeps its cursor or is not a daily one, and its history and  *)
(* time unless the history begins again.                                   *)
DailyKept ==
    \A s \in Schedules :
        /\ since'[s] = {} \/ (since'[s] = since[s] /\ TimeOf(sched'[s].plan) = TimeOf(sched[s].plan))
        /\ \/ sched'[s].last = sched[s].last
           \/ sched'[s].last.form # "rfc3339" /\ sched'[s].plan.kind # "daily"

LEMMA DailyFrame ==
    ASSUME BaseInv, DailyInv, DailyKept, PollKept, now' \in Nat, now' >= now, BaseInv',
           op'.who = "daily" => /\ op.who = "daily" /\ op'.s = op.s /\ op'.key = op.key
                                /\ op'.pc = "admit" => op.pc = "admit"
                                /\ UNCHANGED <<sched, since>>
    PROVE  DailyInv'
<1>0. TypeOK /\ now \in Nat /\ "daily" \in Pollers /\ poll["daily"].todo \subseteq Schedules
  BY Bounds DEF BaseInv, TypeOK, Pollers
<1>1. ASSUME NEW s \in Schedules
      PROVE  /\ sched'[s].last.form = "rfc3339" => sched'[s].last.at <= now'
             /\ sched'[s].plan.kind = "daily" => Before(since'[s], sched'[s].plan, sched'[s].last)
  <2>1. sched'[s].last.form = "rfc3339" => sched'[s].last.at <= now'
    <3>1. SUFFICES ASSUME sched'[s].last.form = "rfc3339"
                   PROVE  sched'[s].last.at <= now'
      OBVIOUS
    <3>2. sched'[s].last = sched[s].last /\ sched[s].last.at <= now
      BY <3>1 DEF DailyKept, DailyInv
    <3>3. sched[s].last.at \in Int
      BY <1>0, <3>1, <3>2, Bounds DEF TypeOK, Rows, SlotNames, NoSlot, Slots
    <3> QED  BY <3>2, <3>3, <1>0
  <2>2. ASSUME sched'[s].plan.kind = "daily"
        PROVE  Before(since'[s], sched'[s].plan, sched'[s].last)
    <3>1. sched'[s].last = sched[s].last
      BY <2>2 DEF DailyKept
    <3>2. CASE since'[s] = {}
      BY <3>2 DEF Before
    <3>3. CASE since'[s] = since[s] /\ TimeOf(sched'[s].plan) = TimeOf(sched[s].plan)
      <4>1. Before(since[s], sched[s].plan, sched[s].last)
        BY <2>2, <3>3, SameTime DEF DailyInv
      <4>2. Before(since[s], sched'[s].plan, sched[s].last)
        BY <4>1, <3>3, SameTime
      <4> QED  BY <4>2, <3>1, <3>3
    <3> QED  BY <3>2, <3>3 DEF DailyKept
  <2> QED  BY <2>1, <2>2
<1>2. ASSUME NEW s \in poll'["daily"].todo
      PROVE  /\ poll'["daily"].snap[s].last.form = "rfc3339" =>
                    poll'["daily"].snap[s].last.at <= poll'["daily"].at
             /\ \/ since'[s] = {}
                \/ /\ TimeOf(poll'["daily"].snap[s].plan) = TimeOf(sched'[s].plan)
                   /\ Before(since'[s], poll'["daily"].snap[s].plan, poll'["daily"].snap[s].last)
  <2>1. /\ s \in poll["daily"].todo /\ poll'["daily"].snap[s] = poll["daily"].snap[s]
        /\ poll'["daily"].at = poll["daily"].at /\ s \in Schedules
    BY <1>0, <1>2 DEF PollKept
  <2> DEFINE row == poll["daily"].snap[s]
  <2>2. /\ row.last.form = "rfc3339" => row.last.at <= poll["daily"].at
        /\ \/ since[s] = {}
           \/ TimeOf(row.plan) = TimeOf(sched[s].plan) /\ Before(since[s], row.plan, row.last)
    BY <2>1 DEF DailyInv
  <2>3. CASE since'[s] = {}
    BY <2>1, <2>2, <2>3
  <2>4. CASE since'[s] = since[s] /\ TimeOf(sched'[s].plan) = TimeOf(sched[s].plan)
    <3>1. CASE since[s] = {}
      BY <2>1, <2>2, <2>4, <3>1
    <3>2. CASE TimeOf(row.plan) = TimeOf(sched[s].plan) /\ Before(since[s], row.plan, row.last)
      BY <2>1, <2>2, <2>4, <3>2
    <3> QED  BY <2>2, <3>1, <3>2
  <2> QED  BY <2>1, <2>3, <2>4 DEF DailyKept
<1>3. op'.who = "daily" => op'.s \notin poll'["daily"].todo
  BY <1>0 DEF DailyInv, PollKept
<1>4. op'.who = "daily" /\ op'.pc = "admit" =>
          op'.key[3] = sched'[op'.s].last /\ \A f \in since'[op'.s] : f[1] # op'.key[3]
  BY DEF DailyInv
<1>5. DailySlotAtMostOnce'
  <2>1. ASSUME NEW s \in Schedules, NEW f \in since'[s], NEW g \in since'[s], f[1] = g[1]
        PROVE  f = g
    BY <2>1 DEF DailyInv, DailySlotAtMostOnce, DailyKept
  <2> QED  BY <2>1 DEF DailySlotAtMostOnce
<1> QED  BY <1>1, <1>2, <1>3, <1>4, <1>5 DEF DailyInv

(* Most steps leave times and histories, and the cursors of daily          *)
(* schedules.                                                              *)
LEMMA DailySame ==
    ASSUME UNCHANGED since,
           \A s \in Schedules : sched'[s].plan = sched[s].plan /\ sched'[s].last = sched[s].last
    PROVE  DailyKept
BY DEF DailyKept

LEMMA DailyStill ==
    ASSUME BaseInv, DailyInv, BaseInv', UNCHANGED <<sched, since, now>>, PollKept,
           op'.who = "daily" => op.who = "daily" /\ op'.s = op.s /\ op'.key = op.key
                                /\ (op'.pc = "admit" => op.pc = "admit")
    PROVE  DailyInv'
BY DailyFrame, DailySame, ClockSame

LEMMA TickDaily ==
    ASSUME BaseInv, DailyInv, Tick
    PROVE  DailyInv'
<1>1. now' \in Nat /\ now' >= now
  BY Bounds DEF BaseInv, TypeOK, Tick
<1> QED  BY <1>1, TickBase, DailyFrame, DailySame, PollSame DEF Tick

(* A revision: the history begins again when the time changes.             *)
LEMMA ReplanDaily ==
    ASSUME BaseInv, DailyInv, BaseInv', NEW s \in Schedules, NEW row \in Rows, Replan(s, row),
           row.last = sched[s].last, UNCHANGED <<poll, now>>, op'.who # "daily"
    PROVE  DailyInv'
<1>1. /\ sched'[s] = row /\ \A u \in Schedules : u # s => sched'[u] = sched[u] /\ since'[u] = since[u]
      /\ since'[s] = {} \/ (since'[s] = since[s] /\ TimeOf(row.plan) = TimeOf(sched[s].plan))
  BY ReplanType DEF BaseInv
<1>2. DailyKept
  BY <1>1 DEF DailyKept
<1> QED  BY <1>2, DailyFrame, PollSame, ClockSame

LEMMA SaveDailyDaily ==
    ASSUME BaseInv, DailyInv, NEW s \in Schedules, NEW rev \in Revisions, NEW on \in BOOLEAN,
           NEW p \in Plans, SaveDaily(s, rev, on, p)
    PROVE  DailyInv'
<1>1. TypeOK /\ Fits(p) /\ Fits(sched[s].plan) /\ BaseInv' /\ op'.who # "daily"
  BY PlansFit, SaveDailyBase, IdleNotFiring DEF BaseInv, PollOK, SaveDaily, Commanded
<1>2. Upserted(s, rev, on, p) \in Rows /\ Upserted(s, rev, on, p).last = sched[s].last
  BY <1>1, UpsertedType
<1> QED  BY <1>1, <1>2, ReplanDaily DEF SaveDaily

LEMMA SaveBackgroundDaily ==
    ASSUME BaseInv, DailyInv, NEW s \in Schedules, NEW rev \in Revisions, NEW on \in BOOLEAN,
           NEW p \in Plans, SaveBackground(s, rev, on, p)
    PROVE  DailyInv'
<1>1. TypeOK /\ Fits(HalfSaved(p)) /\ Fits(sched[s].plan) /\ BaseInv'
  BY HalfSavedFits, SaveBackgroundBase DEF BaseInv, PollOK
<1>2. op'.who = "client"
  <2>1. op' = [Idle EXCEPT !.pc = "save", !.who = "client", !.s = s, !.rev = rev, !.plan = p]
    BY DEF SaveBackground
  <2> QED  BY <2>1 DEF Idle
<1>3. /\ Upserted(s, rev, on, HalfSaved(p)) \in Rows
      /\ Upserted(s, rev, on, HalfSaved(p)).last = sched[s].last
  BY <1>1, UpsertedType
<1>4. CASE rev > sched[s].rev
  BY <1>1, <1>2, <1>3, <1>4, ReplanDaily DEF SaveBackground
<1>5. CASE UNCHANGED <<sched, since>>
  BY <1>1, <1>2, <1>5, DailyStill, PollSame DEF SaveBackground
<1> QED  BY <1>4, <1>5 DEF SaveBackground

LEMMA SaveSpecDaily ==
    ASSUME BaseInv, DailyInv, SaveSpec
    PROVE  DailyInv'
<1>1. BaseInv' /\ op'.who # "daily" /\ UNCHANGED <<poll, now>>
  BY SaveSpecBase, IdleFits DEF SaveSpec
<1>2. CASE sched[op.s].rev = op.rev
  <2>1. /\ op.s \in Schedules /\ op.plan \in PlanRecords /\ sched[op.s] \in Rows
    BY PlansFit DEF BaseInv, TypeOK, OpOK, SaveSpec, Fits
  <2>2. /\ [sched[op.s] EXCEPT !.plan = op.plan] \in Rows
        /\ [sched[op.s] EXCEPT !.plan = op.plan].last = sched[op.s].last
    BY <2>1 DEF Rows
  <2> QED  BY <2>1, <2>2, <1>1, <1>2, ReplanDaily DEF SaveSpec
<1>3. CASE UNCHANGED <<sched, since>>
  BY <1>1, <1>3, DailyStill, PollSame
<1> QED  BY <1>2, <1>3 DEF SaveSpec

LEMMA CommandDaily ==
    ASSUME BaseInv, DailyInv, BaseInv', Command
    PROVE  DailyInv'
<1>1. ASSUME NEW c \in Clients, NEW w \in Times, CreateRun(c, w)
      PROVE  DailyInv'
  <2>1. op'.who = "client"
    BY <1>1, BeginOp DEF CreateRun
  <2> QED  BY <1>1, <2>1, DailyStill, PollSame DEF CreateRun
<1>2. ASSUME NEW t \in Triggers, TriggerRun(t)
      PROVE  DailyInv'
  <2>1. op'.who = "trigger"
    BY <1>2, BeginOp, Bounds DEF TriggerRun, Times
  <2> QED  BY <1>2, <2>1, DailyStill, PollSame DEF TriggerRun
<1>3. ASSUME NEW k \in RunKeys, NEW r, NEW w, Wait(k, r, w)
      PROVE  DailyInv'
  BY <1>3, DailyStill, PollSame DEF Wait
<1>4. ASSUME NEW k \in RunKeys, CancelRun(k)
      PROVE  DailyInv'
  BY <1>4, DailyStill, PollSame DEF CancelRun
<1>5. ASSUME NEW s \in Schedules, NEW on \in BOOLEAN, SetEnabled(s, on)
      PROVE  DailyInv'
  <2>1. op'.who # "daily"
    BY <1>5, IdleNotFiring DEF SetEnabled, Commanded
  <2>2. DailyKept
    BY <1>5, SetEnabledBase, DailySame DEF SetEnabled
  <2> QED  BY <1>5, <2>1, <2>2, DailyFrame, PollSame, ClockSame DEF SetEnabled
<1> QED  BY <1>1, <1>2, <1>3, <1>4, <1>5, SaveDailyDaily, SaveBackgroundDaily DEF Command

(* The run of a daily slot is admitted: no run of the slot was before, and *)
(* the cursor stands on it.                                                *)
LEMMA AdmitRunDaily ==
    ASSUME BaseInv, DailyInv, AdmitRun
    PROVE  DailyInv'
<1>0. TypeOK /\ BaseInv' /\ op.pc = "admit" /\ UNCHANGED <<sched, poll, now>>
  BY AdmitRunBase DEF BaseInv, AdmitRun
<1>1. PICK pc \in {"meta", "queue"} : After(pc)
  BY DEF AdmitRun
<1>2. op'.pc # "admit" /\ op'.who = op.who /\ op'.s = op.s /\ op'.key = op.key
  BY <1>0, <1>1, AfterOp
<1>3. CASE op.who # "daily"
  BY <1>0, <1>2, <1>3, AdmitRunBase, DailyStill, PollSame
<1>4. CASE op.who = "daily"
  <2> DEFINE s == op.s
             n == op.key[3]
             r == op.key[2]
  <2>1. /\ s \in Schedules /\ n \in SlotNames /\ r \in Revisions
        /\ since' = [since EXCEPT ![s] = @ \cup {<<n, r>>}]
    BY <1>0, <1>4, OpKey, AdmitRunBase
  <2>2. /\ n = sched[s].last /\ (\A f \in since[s] : f[1] # n) /\ s \notin poll["daily"].todo
    BY <1>0, <1>4 DEF DailyInv
  <2>h. poll["daily"].todo \subseteq Schedules
    BY <1>0 DEF TypeOK, Pollers
  <2> HIDE DEF s, n, r
  <2>3. since'[s] = since[s] \cup {<<n, r>>} /\ \A u \in Schedules : u # s => since'[u] = since[u]
    BY <1>0, <2>1, SinceType
  <2>4. DailySlotAtMostOnce'
    <3>1. ASSUME NEW u \in Schedules, NEW f \in since'[u], NEW g \in since'[u], f[1] = g[1]
          PROVE  f = g
      <4>1. CASE u # s
        BY <4>1, <3>1, <2>3 DEF DailyInv, DailySlotAtMostOnce
      <4>2. CASE u = s
        <5>1. <<n, r>>[1] = n
          OBVIOUS
        <5>2. f \in since[s] /\ g \in since[s] => f = g
          BY <3>1, <2>1 DEF DailyInv, DailySlotAtMostOnce
        <5>3. (f \in since[s] \/ f = <<n, r>>) /\ (g \in since[s] \/ g = <<n, r>>)
          BY <4>2, <3>1, <2>3
        <5> QED  BY <5>1, <5>2, <5>3, <3>1, <2>2
      <4> QED  BY <4>1, <4>2
    <3> QED  BY <3>1 DEF DailySlotAtMostOnce
  <2>5. ASSUME NEW u \in Schedules, sched[u].plan.kind = "daily"
        PROVE  Before(since'[u], sched[u].plan, sched[u].last)
    <3>1. Before(since[u], sched[u].plan, sched[u].last)
      BY <2>5 DEF DailyInv
    <3>2. CASE u # s
      BY <3>1, <3>2, <2>3
    <3>3. CASE u = s
      <4>1. sched[s].last.at <= sched[s].last.at
        BY <2>1, <2>2, Bounds DEF SlotNames, Slots
      <4> QED  BY <3>1, <3>3, <4>1, <2>2, <2>3 DEF Before
    <3> QED  BY <3>2, <3>3
  <2>6. \A u \in poll["daily"].todo : since'[u] = since[u]
    BY <2>2, <2>3, <2>h
  <2>7. op'.who = "daily" => op'.s \notin poll["daily"].todo
    BY <1>2, <2>2 DEF s
  <2> QED  BY <1>0, <1>2, <2>4, <2>5, <2>6, <2>7 DEF DailyInv
<1> QED  BY <1>3, <1>4

LEMMA AdmitExistingDaily ==
    ASSUME BaseInv, DailyInv, AdmitExisting
    PROVE  DailyInv'
<1>0. TypeOK /\ BaseInv'
  BY AdmitExistingBase DEF BaseInv
<1>1. op'.who # "daily"
  BY <1>0, AfterOp, AfterIdle, IdleFits DEF AdmitExisting
<1> QED  BY <1>0, <1>1, DailyStill, PollSame DEF AdmitExisting

LEMMA SaveMetadataDaily ==
    ASSUME BaseInv, DailyInv, SaveMetadata
    PROVE  DailyInv'
<1>0. TypeOK /\ BaseInv'
  BY SaveMetadataBase DEF BaseInv
<1>1. PICK pc \in {"wait", "queue"} : After(pc)
  BY DEF SaveMetadata
<1>2. op'.pc # "admit" /\ op'.who = op.who /\ op'.s = op.s /\ op'.key = op.key
  BY <1>0, <1>1, AfterOp
<1> QED  BY <1>0, <1>2, DailyStill, PollSame DEF SaveMetadata

LEMMA QueueRunDaily ==
    ASSUME BaseInv, DailyInv, QueueRun
    PROVE  DailyInv'
<1>0. TypeOK /\ BaseInv'
  BY QueueRunBase DEF BaseInv
<1>1. op'.who # "daily"
  BY <1>0, AfterOp, AfterIdle, IdleFits DEF QueueRun
<1> QED  BY <1>0, <1>1, DailyStill, PollSame DEF QueueRun

(* Background polls leave the cursors of daily schedules.                  *)
LEMMA MoveDaily ==
    ASSUME BaseInv, DailyInv, Firing, op.slots # {}, Advance(op.s, op.cursor, Ms(NextSlot)),
           op' = [op EXCEPT !.pc = "overlap", !.slots = @ \ {NextSlot}, !.cursor = Follow(Ms(NextSlot))],
           UNCHANGED <<runs, waits, poll, now, crashes, commands, since, lax>>
    PROVE  DailyInv'
<1>1. BaseInv' /\ op'.who = "background"
  BY MoveBase
<1>2. /\ TypeOK /\ op.s \in Schedules /\ Ms(NextSlot) \in SlotNames /\ Ms(NextSlot).form = "ms"
      /\ sched[op.s].plan.kind # "daily"
  BY OpSlot, NameTypes DEF BaseInv
<1>3. /\ sched'[op.s].last \in {Ms(NextSlot), sched[op.s].last}
      /\ \A u \in Schedules : sched'[u].plan = sched[u].plan
      /\ \A u \in Schedules : u # op.s => sched'[u] = sched[u]
  BY <1>2, AdvanceType
<1>4. DailyKept
  BY <1>2, <1>3 DEF DailyKept
<1> QED  BY <1>1, <1>4, DailyFrame, PollSame, ClockSame

LEMMA TakeScheduleDaily ==
    ASSUME BaseInv, DailyInv, NEW s \in Schedules, TakeSchedule(s)
    PROVE  DailyInv'
<1>0. /\ BaseInv' /\ PollKept /\ UNCHANGED <<since, now>> /\ op.who # "daily"
      /\ poll["background"].pc = "work" /\ s \in poll["background"].todo
  BY TakeScheduleBase, IdleNotFiring DEF TakeSchedule
<1>1. CASE UNCHANGED <<sched, op>>
  BY <1>0, <1>1, DailyStill
<1>2. CASE Passed(s)
  <2>1. sched[s].plan.kind # "daily"
    BY <1>0, TakenRow DEF Pollers
  <2>2. op'.who # "daily"
    BY <1>0, <1>2, PassedBase
  <2>3. /\ \A u \in Schedules : sched'[u].plan = sched[u].plan
        /\ \A u \in Schedules : sched'[u].last # sched[u].last =>
               u = s /\ sched'[s].last.form = "ms"
    <3>1. \A x : Ms(x).form = "ms"
      BY DEF Ms
    <3> QED  BY <3>1, <1>2, PassedBase
  <2>4. DailyKept
    BY <2>1, <2>3, <1>0 DEF DailyKept
  <2> QED  BY <2>2, <2>4, <1>0, DailyFrame, ClockSame
<1>3. CASE Fires(s)
  <2>1. UNCHANGED sched /\ op'.who = "background"
    BY <1>3, FiresBase DEF Fires
  <2> QED  BY <2>1, <1>0, DailyStill
<1> QED  BY <1>1, <1>2, <1>3, TakeCases

LEMMA ListSchedulesDaily ==
    ASSUME BaseInv, DailyInv, NEW p \in Pollers, ListSchedules(p)
    PROVE  DailyInv'
<1>0. /\ BaseInv' /\ UNCHANGED <<sched, since, now, op>> /\ op.who = "none"
      /\ poll'[p].todo = Listed(p) /\ poll'[p].at = now
      /\ \A s \in Listed(p) : poll'[p].snap[s] = sched[s]
      /\ \A q \in Pollers : q # p => poll'[q] = poll[q]
  BY ListSchedulesBase, IdleNotFiring DEF ListSchedules
<1>1. CASE p = "background"
  BY <1>0, <1>1 DEF DailyInv, DailySlotAtMostOnce, Pollers
<1>2. CASE p = "daily"
  <2>1. \A s \in Listed(p) : s \in Schedules /\ sched[s].plan.kind = "daily"
    BY <1>2, ListedRows
  <2> QED  BY <1>0, <1>2, <2>1 DEF DailyInv, DailySlotAtMostOnce
<1> QED  BY <1>1, <1>2 DEF Pollers

(* The poll that moves the cursor of a daily schedule to the slot of the   *)
(* day moves it forward, and no run of that slot was fired before.         *)
LEMMA TakeDailyDaily ==
    ASSUME BaseInv, DailyInv, NEW s \in Schedules, TakeDaily(s)
    PROVE  DailyInv'
<1> DEFINE row == poll["daily"].snap[s]
           at == poll["daily"].at
           x == TodaySlot(row.plan, at)
           slot == Rfc(row.plan, x)
<1>0. /\ BaseInv' /\ PollKept /\ poll'["daily"].todo = poll["daily"].todo \ {s}
      /\ op.who = "none" /\ s \in poll["daily"].todo /\ poll["daily"].pc = "work"
      /\ \A u \in Schedules : sched'[u].plan = sched[u].plan
      /\ \A u \in Schedules : u # s => sched'[u].last = sched[u].last
      /\ UNCHANGED <<since, now>>
  BY TakeDailyBase, IdleNotFiring DEF TakeDaily
<1>1. \/ UNCHANGED op /\ sched'[s].last = sched[s].last
      \/ /\ DailyDue(row, at) /\ sched[s].last = row.last
         /\ sched'[s].last = slot /\ slot \in SlotNames
         /\ \/ UNCHANGED op
            \/ /\ op'.who = "daily" /\ op'.pc = "admit" /\ op'.s = s
               /\ op'.key = <<s, row.rev, slot>>
  BY TakeDailyBase
<1>2. /\ at \in Day..MaxTime /\ at <= now /\ at \in Int /\ now \in Int /\ row.last \in Names
      /\ Fits(row.plan) /\ row.plan.kind = "daily"
  BY <1>0, TakenRow, Bounds DEF Pollers, BaseInv, TypeOK
<1>3. /\ row.last.form = "rfc3339" => row.last.at <= at
      /\ \/ since[s] = {}
         \/ TimeOf(row.plan) = TimeOf(sched[s].plan) /\ Before(since[s], row.plan, row.last)
  BY <1>0 DEF DailyInv
<1>t. poll["daily"].todo \subseteq Schedules
  BY DEF BaseInv, TypeOK, Pollers
<1>4. CASE UNCHANGED op /\ sched'[s].last = sched[s].last
  <2>1. DailyKept
    BY <1>0, <1>4, DailySame
  <2> QED  BY <2>1, <1>0, <1>4, DailyFrame, ClockSame
<1>5. CASE /\ DailyDue(row, at) /\ sched[s].last = row.last
           /\ sched'[s].last = slot /\ slot \in SlotNames
           /\ \/ UNCHANGED op
              \/ /\ op'.who = "daily" /\ op'.pc = "admit" /\ op'.s = s
                 /\ op'.key = <<s, row.rev, slot>>
  <2>1. x \in Slots /\ x <= at /\ row.last # slot /\ x \in Int
    BY <1>2, <1>5, TodayIsSlot, Bounds DEF DailyDue, Slots
  <2>2. slot.form = "rfc3339" /\ slot.at = x /\ slot.zone = row.plan.zone
    BY <2>1, <1>2, NameTypes
  <2>3. Aligned(row.plan, slot)
    BY <2>1, <2>2, <1>2, TodayOfToday DEF Aligned
  <2>4. Aligned(row.plan, row.last) => row.last.at \in Int /\ row.last.at < x
    <3>1. SUFFICES ASSUME Aligned(row.plan, row.last)
                   PROVE  row.last.at \in Int /\ row.last.at < x
      OBVIOUS
    <3>2. row.last.form = "rfc3339" /\ row.last.zone = row.plan.zone
          /\ TodaySlot(row.plan, row.last.at) = row.last.at
      BY <3>1 DEF Aligned
    <3>3. row.last \in SlotNames /\ row.last.at \in Int
      BY <3>2, <1>2, Bounds DEF Names, SlotNames, NoSlot, Slots
    <3>4. row.last.at <= x
      BY <3>2, <3>3, <1>2, <1>3, TodayMonotone
    <3>5. row.last.at # x
      <4>1. row.last = [form |-> row.last.form, zone |-> row.last.zone, at |-> row.last.at]
        BY <3>3 DEF SlotNames
      <4> QED  BY <4>1, <3>2, <2>1 DEF Rfc
    <3> QED  BY <3>3, <3>4, <3>5, <2>1
  <2>5. \A f \in since[s] : Aligned(row.plan, f[1]) => f[1].at \in Int /\ f[1].at < x
    <3>1. SUFFICES ASSUME NEW f \in since[s], Aligned(row.plan, f[1])
                   PROVE  f[1].at \in Int /\ f[1].at < x
      OBVIOUS
    <3>2. Aligned(row.plan, row.last) /\ f[1].at <= row.last.at
      BY <3>1, <1>3 DEF Before
    <3>3. f[1].at \in Int
      BY <3>1, Bounds DEF BaseInv, TypeOK, SlotNames, Slots
    <3> QED  BY <3>2, <3>3, <2>1, <2>4
  <2>6. \A f \in since[s] : f[1] # slot
    BY <2>1, <2>2, <2>3, <2>5
  <2>7. sched[s].plan.kind = "daily" => Before(since[s], sched[s].plan, slot)
    <3>1. CASE since[s] = {}
      BY <3>1 DEF Before
    <3>2. CASE TimeOf(row.plan) = TimeOf(sched[s].plan)
      <4>1. Before(since[s], row.plan, slot)
        BY <2>1, <2>2, <2>3, <2>5 DEF Before
      <4> QED  BY <4>1, <3>2, SameTime
    <3> QED  BY <3>1, <3>2, <1>3
  <2>8. slot.at <= now
    BY <2>1, <2>2, <1>2
  <2>9. op'.who = "daily" => op'.s = s /\ op'.key[3] = slot
    BY <1>0, <1>5
  <2>10. /\ poll'["daily"].at = poll["daily"].at \/ poll'["daily"].todo = {}
         /\ poll'["daily"].todo \subseteq poll["daily"].todo
         /\ \A u \in poll'["daily"].todo : poll'["daily"].snap[u] = poll["daily"].snap[u]
    BY <1>0 DEF PollKept, Pollers
  <2> HIDE DEF row, at, x, slot
  <2>11. ASSUME NEW u \in Schedules
         PROVE  /\ sched'[u].last.form = "rfc3339" => sched'[u].last.at <= now'
                /\ sched'[u].plan.kind = "daily" =>
                       Before(since'[u], sched'[u].plan, sched'[u].last)
    <3>1. CASE u = s
      BY <3>1, <1>0, <1>5, <2>7, <2>8
    <3>2. CASE u # s
      BY <3>2, <1>0 DEF DailyInv
    <3> QED  BY <3>1, <3>2
  <2>12. ASSUME NEW u \in poll'["daily"].todo
         PROVE  /\ poll'["daily"].snap[u].last.form = "rfc3339" =>
                       poll'["daily"].snap[u].last.at <= poll'["daily"].at
                /\ \/ since'[u] = {}
                   \/ /\ TimeOf(poll'["daily"].snap[u].plan) = TimeOf(sched'[u].plan)
                      /\ Before(since'[u], poll'["daily"].snap[u].plan, poll'["daily"].snap[u].last)
    <3>1. u \in poll["daily"].todo /\ u \in Schedules
      BY <2>10, <1>t
    <3> QED  BY <3>1, <2>10, <1>0 DEF DailyInv
  <2>13. DailySlotAtMostOnce'
    BY <1>0 DEF DailyInv, DailySlotAtMostOnce
  <2>14. op'.who = "daily" => op'.s \notin poll'["daily"].todo
    BY <2>9, <1>0
  <2>15. op'.who = "daily" /\ op'.pc = "admit" =>
            op'.key[3] = sched'[op'.s].last /\ \A f \in since'[op'.s] : f[1] # op'.key[3]
    BY <2>9, <2>6, <1>0, <1>5
  <2> QED  BY <2>11, <2>12, <2>13, <2>14, <2>15 DEF DailyInv
<1> QED  BY <1>1, <1>4, <1>5

LEMMA SchedulesDoneDaily ==
    ASSUME BaseInv, DailyInv, NEW p \in Pollers, SchedulesDone(p)
    PROVE  DailyInv'
<1>1. BaseInv' /\ PollKept /\ op'.who # "daily"
  BY SchedulesDoneBase, IdleNotFiring DEF SchedulesDone
<1> QED  BY <1>1, DailyStill DEF SchedulesDone

(* The other steps leave schedules and histories, and no daily poll goes   *)
(* on with them.                                                           *)
LEMMA OtherDaily ==
    ASSUME BaseInv, DailyInv,
           \/ ScheduleWait \/ FireSlot \/ LastSlotDone \/ DisableOneShot \/ CompleteWait
           \/ WaitsDone \/ Crash \/ \E k \in RunKeys : ResumeRun(k)
    PROVE  DailyInv'
<1>1. CASE ScheduleWait
  BY <1>1, ScheduleWaitBase, AfterIdle, IdleFits, DailyStill, PollSame DEF ScheduleWait
<1>2. CASE FireSlot
  BY <1>2, FireSlotBase, DailyStill, PollSame DEF FireSlot
<1>3. CASE LastSlotDone
  BY <1>3, LastSlotDoneBase, DailyStill, PollSame DEF LastSlotDone
<1>4. CASE DisableOneShot
  <2>1. BaseInv' /\ op'.who # "daily" /\ DailyKept
    BY <1>4, DisableOneShotBase, IdleFits, DailySame DEF DisableOneShot
  <2> QED  BY <1>4, <2>1, DailyFrame, PollSame, ClockSame DEF DisableOneShot
<1>5. CASE CompleteWait
  BY <1>5, CompleteWaitBase, DailyStill, PollSame DEF CompleteWait
<1>6. CASE WaitsDone
  BY <1>6, WaitsDoneBase, IdleFits, DailyStill, PollSame DEF WaitsDone
<1>7. CASE Crash
  BY <1>7, CrashBase, IdleFits, DailyStill DEF Crash
<1>8. ASSUME NEW k \in RunKeys, ResumeRun(k)
      PROVE  DailyInv'
  BY <1>8, ResumeRunBase, DailyStill, PollSame DEF ResumeRun
<1> QED  BY <1>1, <1>2, <1>3, <1>4, <1>5, <1>6, <1>7, <1>8

--------------------------------------------------------------------------------
(* The overlap policies.                                                   *)

LEMMA KeysApart ==
    ASSUME NEW c \in Clients \cup Triggers
    PROVE  c \notin Schedules
BY BackgroundAssumption

ActiveKept ==
    \A j \in RunKeys : runs'[j].meta /\ runs'[j].state \in Active =>
                           runs[j].meta /\ runs[j].state \in Active
AllowsKept ==
    /\ lax \subseteq lax'
    /\ \A s \in Schedules : Allows(sched'[s].plan) => Allows(sched[s].plan) \/ s \in lax'

LEMMA ActiveSame ==
    ASSUME UNCHANGED runs
    PROVE  ActiveKept
BY DEF ActiveKept

LEMMA AllowsSame ==
    ASSUME UNCHANGED lax, \A s \in Schedules : sched'[s].plan = sched[s].plan
    PROVE  AllowsKept
BY DEF AllowsKept

LEMMA ExclusiveFrame ==
    ASSUME BaseInv, ExclusiveInv, AllowsKept, ActiveKept, PollKept, BaseInv',
           Firing' => Firing /\ op'.s = op.s /\ op'.plan = op.plan,
           Firing' /\ op'.pc \in {"admit", "meta"} => op.pc \in {"admit", "meta"},
           Firing' /\ op'.pc = "queue" => op.pc = "queue" /\ op'.key = op.key /\ UNCHANGED runs,
           Firing' /\ op'.pc = "meta" => runs'[op'.key].state = "admitted"
    PROVE  ExclusiveInv'
<1>0. /\ "background" \in Pollers
      /\ Firing' <=> op'.who = "background"
                     /\ op'.pc \in {"overlap", "admit", "meta", "queue", "advance"}
      /\ Firing <=> op.who = "background"
                     /\ op.pc \in {"overlap", "admit", "meta", "queue", "advance"}
      /\ Firing' => op'.s \in Schedules
  BY DEF Pollers, Firing, BaseInv, OpOK
<1>1. \A s : ActiveOf(s)' \subseteq ActiveOf(s)
  BY DEF ActiveOf, ActiveKept
<1>2. \A p, s : s \in Schedules /\ Strict(p, s)' => Strict(p, s)
  BY DEF Strict, AllowsKept
<1>3. \A s \in Schedules : Allows(sched'[s].plan) => s \in lax'
  BY DEF ExclusiveInv, AllowsKept
<1>4. \A s \in poll'["background"].todo : Allows(poll'["background"].snap[s].plan) => s \in lax'
  BY <1>0 DEF ExclusiveInv, AllowsKept, PollKept
<1>5. Firing' /\ Allows(op'.plan) => op'.s \in lax'
  BY <1>0 DEF ExclusiveInv, AllowsKept
<1>6. \A s \in Schedules : s \notin lax' => \A j, k \in ActiveOf(s)' : j = k
  BY <1>1 DEF ExclusiveInv, AllowsKept
<1>7. op'.who = "background" /\ op'.pc = "queue" =>
          runs'[op'.key].state = "admitted" /\ runs'[op'.key].meta
  BY <1>0 DEF ExclusiveInv
<1>8. op'.who = "background" /\ op'.pc = "meta" => runs'[op'.key].state = "admitted"
  BY <1>0
<1>9. op'.who = "background" /\ op'.pc \in {"admit", "meta"} /\ Strict(op.plan, op.s)' =>
          ActiveOf(op.s)' = {}
  <2>1. SUFFICES ASSUME op'.who = "background", op'.pc \in {"admit", "meta"}, Strict(op.plan, op.s)'
                 PROVE  ActiveOf(op.s)' = {}
    OBVIOUS
  <2>2. Firing /\ op'.s = op.s /\ op'.plan = op.plan /\ op.pc \in {"admit", "meta"}
        /\ op.s \in Schedules
    BY <2>1, <1>0
  <2>3. Strict(op.plan, op.s)
    BY <2>1, <2>2 DEF Strict, AllowsKept
  <2>4. ActiveOf(op.s) = {}
    BY <2>2, <2>3, <1>0 DEF ExclusiveInv
  <2> QED  BY <2>2, <2>4 DEF ActiveOf, ActiveKept
<1>10. op'.who = "background" /\ op'.pc = "queue" /\ Strict(op.plan, op.s)' =>
           ActiveOf(op.s)' \subseteq {op'.key}
  <2>1. SUFFICES ASSUME op'.who = "background", op'.pc = "queue", Strict(op.plan, op.s)'
                 PROVE  ActiveOf(op.s)' \subseteq {op'.key}
    OBVIOUS
  <2>2. Firing /\ op'.s = op.s /\ op'.plan = op.plan /\ op.pc = "queue" /\ op'.key = op.key
        /\ op.s \in Schedules
    BY <2>1, <1>0
  <2>3. Strict(op.plan, op.s)
    BY <2>1, <2>2 DEF Strict, AllowsKept
  <2>4. ActiveOf(op.s) \subseteq {op.key}
    BY <2>2, <2>3, <1>0 DEF ExclusiveInv
  <2> QED  BY <2>2, <2>4 DEF ActiveOf, ActiveKept
<1> QED  BY <1>3, <1>4, <1>5, <1>6, <1>7, <1>8, <1>9, <1>10 DEF ExclusiveInv

(* A step after which no slot is in hand.                                  *)
LEMMA ExclusiveRest ==
    ASSUME BaseInv, ExclusiveInv, AllowsKept, ActiveKept, PollKept, BaseInv', ~Firing'
    PROVE  ExclusiveInv'
BY ExclusiveFrame

LEMMA TickExclusive ==
    ASSUME BaseInv, ExclusiveInv, Tick
    PROVE  ExclusiveInv'
BY TickBase, ExclusiveFrame, ActiveSame, AllowsSame, PollSame DEF Tick, Firing, ExclusiveInv

(* A run that is ended is not active any more.                             *)
LEMMA EndedKept ==
    ASSUME BaseInv, NEW k \in RunKeys, NEW st \in {"cancelled", "dead_lettered"}, SetState(k, st)
    PROVE  ActiveKept
<1>1. /\ runs'[k].state = st /\ \A j \in RunKeys : j # k => runs'[j] = runs[j]
  BY SetStateType DEF BaseInv, States
<1> QED  BY <1>1 DEF ActiveKept, Active

LEMMA CommandExclusive ==
    ASSUME BaseInv, ExclusiveInv, BaseInv', Command
    PROVE  ExclusiveInv'
<1>1. ASSUME NEW c \in Clients, NEW w \in Times, CreateRun(c, w)
      PROVE  ExclusiveInv'
  <2>1. ~Firing'
    BY <1>1, BeginOp DEF CreateRun
  <2>2. ActiveKept
    <3>1. CASE UNCHANGED runs
      BY <3>1, ActiveSame
    <3>2. ASSUME NEW k \in Oldest(Queued), SetState(k, "dead_lettered")
          PROVE  ActiveKept
      BY <3>2, EndedKept DEF Oldest, Queued
    <3> QED  BY <1>1, <3>1, <3>2 DEF CreateRun
  <2> QED  BY <1>1, <2>1, <2>2, ExclusiveRest, AllowsSame, PollSame DEF CreateRun
<1>2. ASSUME NEW t \in Triggers, TriggerRun(t)
      PROVE  ExclusiveInv'
  <2>1. ~Firing'
    BY <1>2, BeginOp, Bounds DEF TriggerRun, Times
  <2> QED  BY <1>2, <2>1, ExclusiveRest, ActiveSame, AllowsSame, PollSame DEF TriggerRun
<1>i. ASSUME op.pc = "idle", UNCHANGED op
      PROVE  ~Firing'
  BY <1>i, IdleNotFiring DEF Firing
<1>3. ASSUME NEW k \in RunKeys, NEW r, NEW w, Wait(k, r, w)
      PROVE  ExclusiveInv'
  BY <1>3, <1>i, ExclusiveRest, ActiveSame, AllowsSame, PollSame DEF Wait, Commanded
<1>4. ASSUME NEW k \in RunKeys, CancelRun(k)
      PROVE  ExclusiveInv'
  BY <1>4, <1>i, ExclusiveRest, EndedKept, AllowsSame, PollSame DEF CancelRun, Commanded
<1>5. ASSUME NEW s \in Schedules, NEW on \in BOOLEAN, SetEnabled(s, on)
      PROVE  ExclusiveInv'
  <2>1. AllowsKept
    BY <1>5, SetEnabledBase, AllowsSame DEF SetEnabled
  <2> QED  BY <1>5, <1>i, <2>1, ExclusiveRest, ActiveSame, PollSame DEF SetEnabled, Commanded
<1>6. ASSUME NEW s \in Schedules, NEW row \in Rows, Replan(s, row),
             Allows(row.plan) => Allows(sched[s].plan), UNCHANGED lax
      PROVE  AllowsKept
  <2>1. sched'[s] = row /\ \A u \in Schedules : u # s => sched'[u] = sched[u]
    BY <1>6, ReplanType DEF BaseInv
  <2> QED  BY <1>6, <2>1 DEF AllowsKept
<1>7. ASSUME NEW s \in Schedules, NEW r \in Revisions, NEW on \in BOOLEAN, NEW p \in Plans,
             SaveDaily(s, r, on, p)
      PROVE  ExclusiveInv'
  <2>1. TypeOK /\ Fits(p) /\ Fits(sched[s].plan) /\ p.kind = "daily"
    BY <1>7, PlansFit DEF BaseInv, PollOK, SaveDaily
  <2>2. /\ Upserted(s, r, on, p) \in Rows
        /\ Upserted(s, r, on, p).plan \in {p, sched[s].plan}
    BY <2>1, UpsertedType
  <2>3. AllowsKept
    BY <1>6, <1>7, <2>1, <2>2 DEF SaveDaily, Allows
  <2> QED  BY <1>7, <1>i, <2>3, ExclusiveRest, ActiveSame, PollSame DEF SaveDaily, Commanded
<1>8. ASSUME NEW s \in Schedules, NEW r \in Revisions, NEW on \in BOOLEAN, NEW p \in Plans,
             SaveBackground(s, r, on, p)
      PROVE  ExclusiveInv'
  <2>1. TypeOK /\ Fits(HalfSaved(p)) /\ Fits(sched[s].plan) /\ HalfSaved(p).kind = "daily"
    BY HalfSavedFits DEF BaseInv, PollOK
  <2>2. /\ Upserted(s, r, on, HalfSaved(p)) \in Rows
        /\ Upserted(s, r, on, HalfSaved(p)).plan \in {HalfSaved(p), sched[s].plan}
    BY <2>1, UpsertedType
  <2>3. AllowsKept
    <3>1. CASE r > sched[s].rev
      BY <1>6, <1>8, <2>1, <2>2, <3>1 DEF SaveBackground, Allows
    <3>2. CASE UNCHANGED <<sched, since>>
      BY <3>2, <1>8, AllowsSame DEF SaveBackground
    <3> QED  BY <1>8, <3>1, <3>2 DEF SaveBackground
  <2>4. ~Firing'
    <3>1. op' = [Idle EXCEPT !.pc = "save", !.who = "client", !.s = s, !.rev = r, !.plan = p]
      BY <1>8 DEF SaveBackground
    <3>2. op'.who = "client"
      BY <3>1 DEF Idle
    <3> QED  BY <3>2 DEF Firing
  <2> QED  BY <1>8, <2>3, <2>4, ExclusiveRest, ActiveSame, PollSame DEF SaveBackground
<1> QED  BY <1>1, <1>2, <1>3, <1>4, <1>5, <1>7, <1>8 DEF Command

(* A policy that allows several runs makes the schedule a lax one.         *)
LEMMA SaveSpecExclusive ==
    ASSUME BaseInv, ExclusiveInv, SaveSpec
    PROVE  ExclusiveInv'
<1>0. BaseInv' /\ ~Firing' /\ op.s \in Schedules /\ sched[op.s] \in Rows /\ op.plan \in PlanRecords
  BY SaveSpecBase, IdleFits, PlansFit DEF SaveSpec, BaseInv, OpOK, TypeOK, Fits
<1>1. AllowsKept
  <2>1. CASE sched[op.s].rev = op.rev
    <3>1. /\ [sched[op.s] EXCEPT !.plan = op.plan] \in Rows
          /\ [sched[op.s] EXCEPT !.plan = op.plan].plan = op.plan
      BY <1>0 DEF Rows
    <3>2. /\ sched'[op.s].plan = op.plan /\ \A u \in Schedules : u # op.s => sched'[u] = sched[u]
      BY <2>1, <3>1, <1>0, ReplanType DEF SaveSpec, BaseInv
    <3>3. lax' = IF op.plan.overlap = "allow" THEN lax \cup {op.s} ELSE lax
      BY <2>1 DEF SaveSpec
    <3> QED  BY <3>2, <3>3, <1>0 DEF AllowsKept, Allows
  <2>2. CASE UNCHANGED <<sched, since, lax>>
    BY <2>2, AllowsSame
  <2> QED  BY <2>1, <2>2 DEF SaveSpec
<1> QED  BY <1>0, <1>1, ExclusiveRest, ActiveSame, PollSame DEF SaveSpec

LEMMA AdmitRunExclusive ==
    ASSUME BaseInv, ExclusiveInv, AdmitRun
    PROVE  ExclusiveInv'
<1>0. /\ TypeOK /\ BaseInv' /\ op.pc = "admit" /\ op.key \in RunKeys
      /\ runs'[op.key].state = "admitted" /\ ~runs'[op.key].meta
      /\ \A j \in RunKeys : j # op.key => runs'[j] = runs[j]
  BY AdmitRunBase, OpKey DEF BaseInv, AdmitRun
<1>1. ActiveKept
  BY <1>0 DEF ActiveKept
<1>2. CASE op.who = "background"
  <2>1. After("meta")
    BY <1>2 DEF AdmitRun
  <2>2. op'.pc = "meta" /\ op'.who = op.who /\ op'.s = op.s /\ op'.plan = op.plan /\ op'.key = op.key
    BY <1>0, <2>1, AfterOp
  <2>3. Firing
    BY <1>0, <1>2 DEF Firing
  <2> QED  BY <1>0, <1>1, <2>2, <2>3, ExclusiveFrame, AllowsSame, PollSame DEF AdmitRun
<1>3. CASE op.who # "background"
  <2>1. PICK pc \in {"meta", "queue"} : After(pc)
    BY DEF AdmitRun
  <2>2. op'.who = op.who
    BY <1>0, <2>1, AfterOp
  <2>3. ~Firing'
    BY <1>3, <2>2 DEF Firing
  <2> QED  BY <1>0, <1>1, <2>3, ExclusiveRest, AllowsSame, PollSame DEF AdmitRun
<1> QED  BY <1>2, <1>3

LEMMA AdmitExistingExclusive ==
    ASSUME BaseInv, ExclusiveInv, AdmitExisting
    PROVE  ExclusiveInv'
<1>0. TypeOK /\ BaseInv' /\ op.pc = "admit"
  BY AdmitExistingBase DEF BaseInv, AdmitExisting
<1>1. CASE op.who = "background"
  <2>1. After("advance")
    BY <1>1 DEF AdmitExisting
  <2>2. op'.pc = "advance" /\ op'.s = op.s /\ op'.plan = op.plan
    BY <1>0, <2>1, AfterOp
  <2>3. Firing
    BY <1>0, <1>1 DEF Firing
  <2> QED  BY <1>0, <2>2, <2>3, ExclusiveFrame, ActiveSame, AllowsSame, PollSame DEF AdmitExisting
<1>2. CASE op.who # "background"
  <2>1. After("idle")
    BY <1>2 DEF AdmitExisting
  <2> QED
    BY <1>0, <2>1, AfterIdle, IdleFits, ExclusiveRest, ActiveSame, AllowsSame, PollSame DEF AdmitExisting
<1> QED  BY <1>1, <1>2

(* The run of a schedule becomes known to the policy.                      *)
LEMMA SaveMetadataExclusive ==
    ASSUME BaseInv, ExclusiveInv, SaveMetadata
    PROVE  ExclusiveInv'
<1>0. /\ TypeOK /\ BaseInv' /\ op.pc = "meta" /\ op.key \in RunKeys
      /\ runs'[op.key].state = runs[op.key].state /\ runs'[op.key].meta
      /\ \A j \in RunKeys : j # op.key => runs'[j] = runs[j]
      /\ UNCHANGED <<sched, poll, lax>>
  BY SaveMetadataBase, OpKey DEF BaseInv, SaveMetadata
<1>1. PICK pc \in {"wait", "queue"} : After(pc) /\ (op.time = 0 => pc = "queue")
  BY DEF SaveMetadata
<1>2. /\ op'.pc = pc /\ op'.who = op.who /\ op'.s = op.s /\ op'.plan = op.plan /\ op'.key = op.key
  BY <1>0, <1>1, AfterOp
<1>3. \A s \in Schedules : ActiveOf(s)' \subseteq ActiveOf(s) \cup (IF op.key[1] = s THEN {op.key} ELSE {})
  BY <1>0 DEF ActiveOf
<1>4. CASE op.who = "background"
  <2>1. /\ Firing /\ op.s \in Schedules /\ op.time = 0 /\ op.plan.kind # "daily" /\ Fits(op.plan)
        /\ op.key[1] = op.s /\ runs[op.key].state = "admitted"
        /\ Strict(op.plan, op.s) => ActiveOf(op.s) = {}
    BY <1>0, <1>4, OpKey DEF Firing, BaseInv, OpOK, ExclusiveInv
  <2>2. op'.pc = "queue" /\ Firing'
    BY <2>1, <1>1, <1>2, <1>4 DEF Firing
  <2>3. op.plan.overlap \in {"allow", "skip_if_running", "cancel_previous"}
    BY <2>1 DEF Fits, PlanRecords
  <2>4. op.s \notin lax => ActiveOf(op.s) = {}
    BY <2>1, <2>3 DEF ExclusiveInv, Allows, Strict
  <2>5. \A s \in Schedules : s \notin lax => \A j, k \in ActiveOf(s)' : j = k
    <3>1. ASSUME NEW s \in Schedules, s \notin lax, NEW j \in ActiveOf(s)', NEW k \in ActiveOf(s)'
          PROVE  j = k
      <4>1. CASE s = op.s
        BY <4>1, <3>1, <2>4, <1>3
      <4>2. CASE s # op.s
        BY <4>2, <3>1, <2>1, <1>3 DEF ExclusiveInv
      <4> QED  BY <4>1, <4>2
    <3> QED  BY <3>1
  <2>6. Strict(op.plan, op.s)' => ActiveOf(op.s)' \subseteq {op'.key}
    <3>1. SUFFICES ASSUME Strict(op.plan, op.s)'
                   PROVE  ActiveOf(op.s)' \subseteq {op'.key}
      OBVIOUS
    <3>2. Strict(op.plan, op.s)
      BY <3>1, <1>0, <1>2 DEF Strict
    <3>3. ActiveOf(op.s) = {}
      BY <2>1, <3>2
    <3> QED  BY <1>0, <1>2, <3>3 DEF ActiveOf
  <2>7. runs'[op'.key].state = "admitted" /\ runs'[op'.key].meta
    BY <2>1, <1>0, <1>2
  <2>8. Firing' /\ Allows(op'.plan) => op'.s \in lax'
    BY <2>1, <1>0, <1>2 DEF ExclusiveInv
  <2> QED  BY <2>2, <2>5, <2>6, <2>7, <2>8, <1>0 DEF ExclusiveInv
<1>5. CASE op.who # "background"
  <2>1. op.key[1] \notin Schedules
    <3>1. op.who \in {"client", "trigger"}
      BY <1>0, <1>5, OpKey
    <3>2. op.key[1] \in Clients \cup Triggers
      BY <3>1, <1>0, OpKey
    <3> QED  BY <3>2, KeysApart
  <2>2. \A s \in Schedules : s \notin lax => \A j, k \in ActiveOf(s)' : j = k
    BY <2>1, <1>3 DEF ExclusiveInv
  <2>3. ~Firing' /\ op'.who # "background"
    BY <1>2, <1>5 DEF Firing
  <2> QED  BY <2>2, <2>3, <1>0 DEF ExclusiveInv
<1> QED  BY <1>4, <1>5

LEMMA QueueRunExclusive ==
    ASSUME BaseInv, ExclusiveInv, QueueRun
    PROVE  ExclusiveInv'
<1>0. TypeOK /\ BaseInv' /\ op.pc = "queue" /\ op.key \in RunKeys
  BY QueueRunBase, OpKey DEF BaseInv, QueueRun
<1>1. ActiveKept
  BY <1>0, QueueRunBase DEF ActiveKept
<1>2. CASE op.who = "background"
  <2>1. After("advance")
    BY <1>2 DEF QueueRun
  <2>2. op'.pc = "advance" /\ op'.s = op.s /\ op'.plan = op.plan
    BY <1>0, <2>1, AfterOp
  <2>3. Firing
    BY <1>0, <1>2 DEF Firing
  <2> QED  BY <1>0, <1>1, <2>2, <2>3, ExclusiveFrame, AllowsSame, PollSame DEF QueueRun
<1>3. CASE op.who # "background"
  <2>1. After("idle")
    BY <1>3 DEF QueueRun
  <2> QED  BY <1>0, <1>1, <2>1, AfterIdle, IdleFits, ExclusiveRest, AllowsSame, PollSame DEF QueueRun
<1> QED  BY <1>2, <1>3

(* The policy makes room for the run of the next slot.                     *)
LEMMA FireSlotExclusive ==
    ASSUME BaseInv, ExclusiveInv, FireSlot
    PROVE  ExclusiveInv'
<1>0. /\ BaseInv' /\ Firing /\ op'.pc = "admit" /\ op'.who = "background" /\ op'.s = op.s
      /\ op'.plan = op.plan /\ op.s \in Schedules /\ UNCHANGED <<sched, poll, lax>>
      /\ \A j \in RunKeys : runs'[j].meta = runs[j].meta
                            /\ (runs'[j].state \in Active => runs[j].state \in Active)
  BY FireSlotBase, OverlapFires, OpSlot DEF FireSlot
<1>1. (\A s : ActiveOf(s)' \subseteq ActiveOf(s)) /\ ActiveOf(op.s)' \subseteq ActiveOf(op.s)
  BY <1>0 DEF ActiveOf
<1>2. Strict(op.plan, op.s) => ActiveOf(op.s)' = {}
  <2>1. CASE op.plan.overlap = "skip_if_running"
    BY <2>1, <1>1 DEF FireSlot, Skips
  <2>2. CASE op.plan.overlap = "cancel_previous" /\ op.s \notin lax
    <3>1. CASE ActiveOf(op.s) = {}
      BY <3>1, <1>1
    <3>2. CASE ActiveOf(op.s) # {}
      <4>1. PICK k \in Oldest(ActiveOf(op.s)) : SetState(k, "cancelled")
        BY <2>2, <3>2 DEF FireSlot
      <4>2. k \in ActiveOf(op.s) /\ k \in RunKeys
        BY <4>1 DEF Oldest, ActiveOf
      <4>3. runs'[k].state = "cancelled"
        BY <4>1, <4>2, SetStateType DEF BaseInv, States
      <4>4. k \notin ActiveOf(op.s)'
        BY <4>3 DEF ActiveOf, Active
      <4>5. \A j \in ActiveOf(op.s) : j = k
        BY <4>2, <2>2, <1>0 DEF ExclusiveInv
      <4> QED  BY <4>4, <4>5, <1>1
    <3> QED  BY <3>1, <3>2
  <2> QED  BY <2>1, <2>2 DEF Strict
<1>3. Strict(op.plan, op.s)' <=> Strict(op.plan, op.s)
  BY <1>0 DEF Strict
<1>4. ActiveOf(op.s)' = {} \/ ~Strict(op.plan, op.s)'
  BY <1>0, <1>2, <1>3 DEF ActiveOf
<1>5. \A s \in Schedules : s \notin lax => \A j, k \in ActiveOf(s)' : j = k
  BY <1>1 DEF ExclusiveInv
<1>6. Firing' /\ Allows(op'.plan) => op'.s \in lax'
  BY <1>0 DEF ExclusiveInv
<1> QED  BY <1>0, <1>4, <1>5, <1>6 DEF ExclusiveInv

LEMMA MoveExclusive ==
    ASSUME BaseInv, ExclusiveInv, Firing, op.slots # {}, Advance(op.s, op.cursor, Ms(NextSlot)),
           op' = [op EXCEPT !.pc = "overlap", !.slots = @ \ {NextSlot}, !.cursor = Follow(Ms(NextSlot))],
           UNCHANGED <<runs, waits, poll, now, crashes, commands, since, lax>>
    PROVE  ExclusiveInv'
<1>1. BaseInv' /\ op'.pc = "overlap" /\ op'.s = op.s /\ op'.plan = op.plan
  BY MoveBase
<1>2. \A u \in Schedules : sched'[u].plan = sched[u].plan
  BY OpSlot, AdvanceType DEF BaseInv
<1> QED  BY <1>1, <1>2, ExclusiveFrame, ActiveSame, AllowsSame, PollSame

LEMMA ListSchedulesExclusive ==
    ASSUME BaseInv, ExclusiveInv, NEW p \in Pollers, ListSchedules(p)
    PROVE  ExclusiveInv'
<1>0. /\ UNCHANGED <<sched, op, runs, lax>> /\ poll'[p].todo = Listed(p)
      /\ \A s \in Listed(p) : poll'[p].snap[s] = sched[s] /\ s \in Schedules
      /\ \A q \in Pollers : q # p => poll'[q] = poll[q]
  BY ListSchedulesBase, ListedRows DEF ListSchedules
<1>1. \A s \in poll'["background"].todo : Allows(poll'["background"].snap[s].plan) => s \in lax
  <2>1. CASE p = "background"
    BY <2>1, <1>0 DEF ExclusiveInv
  <2>2. CASE p # "background"
    BY <2>2, <1>0 DEF ExclusiveInv, Pollers
  <2> QED  BY <2>1, <2>2
<1>2. /\ \A s : ActiveOf(s)' = ActiveOf(s)
      /\ Strict(op.plan, op.s)' <=> Strict(op.plan, op.s)
      /\ Firing' <=> Firing
  BY <1>0 DEF ActiveOf, Strict, Firing
<1>3. ActiveOf(op.s)' = ActiveOf(op.s)
  BY <1>0 DEF ActiveOf
<1> QED  BY <1>0, <1>1, <1>2, <1>3 DEF ExclusiveInv

LEMMA TakeScheduleExclusive ==
    ASSUME BaseInv, ExclusiveInv, NEW s \in Schedules, TakeSchedule(s)
    PROVE  ExclusiveInv'
<1>0. /\ BaseInv' /\ PollKept /\ UNCHANGED <<runs, lax>> /\ ~Firing /\ s \in poll["background"].todo
  BY TakeScheduleBase, IdleNotFiring DEF TakeSchedule
<1>1. CASE UNCHANGED <<sched, op>>
  BY <1>0, <1>1, ExclusiveRest, ActiveSame, AllowsSame DEF Firing
<1>2. CASE Passed(s)
  <2>1. ~Firing' /\ \A u \in Schedules : sched'[u].plan = sched[u].plan
    BY <1>0, <1>2, PassedBase DEF Firing
  <2> QED  BY <2>1, <1>0, ExclusiveRest, ActiveSame, AllowsSame
<1>3. CASE Fires(s)
  <2>1. /\ op'.pc = "overlap" /\ op'.s = s /\ op'.plan = poll["background"].snap[s].plan
        /\ UNCHANGED sched
    BY <1>3, FiresBase DEF Fires
  <2>2. Allows(op'.plan) => op'.s \in lax'
    BY <1>0, <2>1 DEF ExclusiveInv
  <2>3. \A u \in poll'["background"].todo : Allows(poll'["background"].snap[u].plan) => u \in lax
    BY <1>0 DEF ExclusiveInv, PollKept, Pollers
  <2>4. \A u : ActiveOf(u)' = ActiveOf(u)
    BY <1>0 DEF ActiveOf
  <2> QED  BY <1>0, <2>1, <2>2, <2>3, <2>4 DEF ExclusiveInv
<1> QED  BY <1>1, <1>2, <1>3, TakeCases

LEMMA TakeDailyExclusive ==
    ASSUME BaseInv, ExclusiveInv, NEW s \in Schedules, TakeDaily(s)
    PROVE  ExclusiveInv'
<1>1. /\ BaseInv' /\ PollKept /\ op.pc = "idle" /\ (UNCHANGED op \/ op'.who = "daily")
      /\ \A u \in Schedules : sched'[u].plan = sched[u].plan
      /\ UNCHANGED <<runs, lax>>
  BY TakeDailyBase DEF TakeDaily
<1>2. ~Firing'
  BY <1>1, IdleNotFiring DEF Firing
<1> QED  BY <1>1, <1>2, ExclusiveRest, ActiveSame, AllowsSame

LEMMA OtherExclusive ==
    ASSUME BaseInv, ExclusiveInv,
           \/ ScheduleWait \/ LastSlotDone \/ DisableOneShot \/ CompleteWait \/ WaitsDone \/ Crash
           \/ \E k \in RunKeys : ResumeRun(k)
           \/ \E p \in Pollers : SchedulesDone(p)
    PROVE  ExclusiveInv'
<1>1. CASE ScheduleWait
  BY <1>1, ScheduleWaitBase, AfterIdle, IdleFits, ExclusiveRest, ActiveSame, AllowsSame, PollSame
  DEF ScheduleWait
<1>2. CASE LastSlotDone
  BY <1>2, LastSlotDoneBase, ExclusiveRest, ActiveSame, AllowsSame, PollSame DEF LastSlotDone
<1>3. CASE DisableOneShot
  BY <1>3, DisableOneShotBase, IdleFits, ExclusiveRest, ActiveSame, AllowsSame, PollSame
  DEF DisableOneShot
<1>4. CASE CompleteWait
  BY <1>4, CompleteWaitBase, ExclusiveRest, ActiveSame, AllowsSame, PollSame DEF CompleteWait
<1>5. CASE WaitsDone
  BY <1>5, WaitsDoneBase, IdleFits, ExclusiveRest, ActiveSame, AllowsSame, PollSame DEF WaitsDone
<1>6. CASE Crash
  BY <1>6, CrashBase, IdleFits, ExclusiveRest, ActiveSame, AllowsSame DEF Crash
<1>7. ASSUME NEW k \in RunKeys, ResumeRun(k)
      PROVE  ExclusiveInv'
  <2>1. ActiveKept
    BY <1>7, ResumeRunBase DEF ActiveKept, Active
  <2> QED  BY <1>7, <2>1, ResumeRunBase, ExclusiveRest, AllowsSame, PollSame DEF ResumeRun
<1>8. ASSUME NEW p \in Pollers, SchedulesDone(p)
      PROVE  ExclusiveInv'
  <2>1. ~Firing'
    BY <1>8, SchedulesDoneBase, IdleNotFiring DEF SchedulesDone, Firing
  <2> QED  BY <1>8, <2>1, SchedulesDoneBase, ExclusiveRest, ActiveSame, AllowsSame DEF SchedulesDone
<1> QED  BY <1>1, <1>2, <1>3, <1>4, <1>5, <1>6, <1>7, <1>8

--------------------------------------------------------------------------------
(* The invariant holds at first and every step keeps it.                   *)

LEMMA InitHolds == Init => RunsInv
<1> SUFFICES ASSUME Init PROVE RunsInv
  OBVIOUS
<1>1. op = Idle /\ op \in Ops /\ op.pc = "idle" /\ op.who = "none" /\ op.s = "none"
  BY RestTypes DEF Init
<1>2. /\ poll \in [Pollers -> PollRows]
      /\ \A p \in Pollers : poll[p].todo = {} /\ poll[p].pc = "rest"
  BY RestTypes DEF Init
<1>3. /\ sched \in [Schedules -> Rows]
      /\ \A s \in Schedules : sched[s].plan = NoPlan /\ sched[s].last.form # "rfc3339"
  BY RestTypes DEF Init, NoRow, NoSlot
<1>4. TypeOK
  <2>1. runs \in [RunKeys -> RunRows] /\ waits \in [RunKeys -> WaitRows]
    BY Bounds DEF Init, RunRows, WaitRows, States, Times
  <2> QED  BY <1>1, <1>2, <1>3, <2>1, Bounds DEF Init, TypeOK, RunRows, WaitRows, PollRows
<1>5. BaseInv
  BY <1>1, <1>2, <1>3, <1>4, RestTypes DEF BaseInv, PollOK, OpOK, Firing, Keyed
<1>6. SlotInv
  BY <1>1 DEF SlotInv, Firing
<1>7. DailyInv
  BY <1>1, <1>2, <1>3 DEF Init, DailyInv, Before, DailySlotAtMostOnce, Pollers
<1>8. ExclusiveInv
  <2>1. \A s : ActiveOf(s) = {}
    BY DEF Init, ActiveOf
  <2>2. ~Allows(NoPlan)
    BY DEF Allows, NoPlan
  <2> QED  BY <1>1, <1>2, <1>3, <2>1, <2>2 DEF ExclusiveInv, Firing, Pollers
<1> QED  BY <1>5, <1>6, <1>7, <1>8 DEF RunsInv

LEMMA CommandBase ==
    ASSUME BaseInv, Command
    PROVE  BaseInv'
BY CreateRunBase, TriggerRunBase, WaitBase, CancelRunBase, SaveDailyBase, SaveBackgroundBase,
   SetEnabledBase
DEF Command

(* One step per action.                                                    *)
LEMMA NextKeeps == RunsInv /\ [Next]_vars => RunsInv'
<1> SUFFICES ASSUME BaseInv, SlotInv, DailyInv, ExclusiveInv, [Next]_vars PROVE RunsInv'
  BY DEF RunsInv
<1>1. CASE Tick
  BY <1>1, TickBase, TickSlots, TickDaily, TickExclusive DEF RunsInv
<1>2. CASE Command
  BY <1>2, CommandBase, CommandSlots, CommandDaily, CommandExclusive DEF RunsInv
<1>3. CASE SaveSpec
  <2>1. SlotInv'
    BY <1>3, IdleFits, NoSlotInHand DEF SaveSpec
  <2> QED  BY <1>3, <2>1, SaveSpecBase, SaveSpecDaily, SaveSpecExclusive DEF RunsInv
<1>4. CASE AdmitRun
  BY <1>4, AdmitRunBase, AdmitRunSlots, AdmitRunDaily, AdmitRunExclusive DEF RunsInv
<1>5. CASE AdmitExisting
  BY <1>5, AdmitExistingBase, AdmitExistingSlots, AdmitExistingDaily, AdmitExistingExclusive
  DEF RunsInv
<1>6. CASE SaveMetadata
  BY <1>6, SaveMetadataBase, SaveMetadataSlots, SaveMetadataDaily, SaveMetadataExclusive DEF RunsInv
<1>7. CASE ScheduleWait
  <2>1. SlotInv'
    BY <1>7, AfterIdle, IdleFits, NoSlotInHand DEF ScheduleWait
  <2> QED  BY <1>7, <2>1, ScheduleWaitBase, OtherDaily, OtherExclusive DEF RunsInv
<1>8. CASE QueueRun
  BY <1>8, QueueRunBase, QueueRunSlots, QueueRunDaily, QueueRunExclusive DEF RunsInv
<1>9. CASE SkipOverlap
  BY <1>9, SkipMoves, MoveBase, MoveSlots, MoveDaily, MoveExclusive DEF RunsInv
<1>10. CASE FireSlot
  BY <1>10, FireSlotBase, FireSlotSlots, OtherDaily, FireSlotExclusive DEF RunsInv
<1>11. CASE AdvanceCursor
  BY <1>11, AdvanceMoves, MoveBase, MoveSlots, MoveDaily, MoveExclusive DEF RunsInv
<1>12. CASE LastSlotDone
  BY <1>12, LastSlotDoneBase, NoSlotInHand, OtherDaily, OtherExclusive DEF RunsInv
<1>13. CASE DisableOneShot
  BY <1>13, DisableOneShotBase, IdleFits, NoSlotInHand, OtherDaily, OtherExclusive DEF RunsInv
<1>14. ASSUME NEW k \in RunKeys, ResumeRun(k)
       PROVE  RunsInv'
  BY <1>14, ResumeRunBase, NoSlotInHand, OtherDaily, OtherExclusive DEF RunsInv
<1>15. CASE CompleteWait
  BY <1>15, CompleteWaitBase, NoSlotInHand, OtherDaily, OtherExclusive DEF RunsInv
<1>16. CASE WaitsDone
  BY <1>16, WaitsDoneBase, IdleFits, NoSlotInHand, OtherDaily, OtherExclusive DEF RunsInv
<1>17. ASSUME NEW p \in Pollers, ListSchedules(p)
       PROVE  RunsInv'
  BY <1>17, ListSchedulesBase, ListSchedulesSlots, ListSchedulesDaily, ListSchedulesExclusive
  DEF RunsInv
<1>18. ASSUME NEW p \in Pollers, SchedulesDone(p)
       PROVE  RunsInv'
  BY <1>18, SchedulesDoneBase, SchedulesDoneSlots, SchedulesDoneDaily, OtherExclusive DEF RunsInv
<1>19. ASSUME NEW s \in Schedules, TakeSchedule(s)
       PROVE  RunsInv'
  BY <1>19, TakeScheduleBase, TakeScheduleSlots, TakeScheduleDaily, TakeScheduleExclusive DEF RunsInv
<1>20. ASSUME NEW s \in Schedules, TakeDaily(s)
       PROVE  RunsInv'
  BY <1>20, TakeDailyBase, TakeDailySlots, TakeDailyDaily, TakeDailyExclusive DEF RunsInv
<1>21. CASE Crash
  BY <1>21, CrashBase, IdleFits, NoSlotInHand, OtherDaily, OtherExclusive DEF RunsInv
<1>22. CASE UNCHANGED vars
  <2>1. BaseInv'
    BY <1>22 DEF vars, BaseInv, TypeOK, PollOK, Snapped, OpOK, Firing, Keyed
  <2>2. SlotInv'
    BY <1>22 DEF vars, SlotInv, Firing, InHand
  <2>3. DailyInv'
    BY <1>22 DEF vars, DailyInv, DailySlotAtMostOnce
  <2>4. PollKept /\ AllowsKept /\ ActiveKept
    BY <1>22, PollSame, AllowsSame, ActiveSame DEF vars
  <2>5. ExclusiveInv'
    BY <1>22, <2>1, <2>4, ExclusiveFrame DEF vars, Firing, ExclusiveInv
  <2> QED  BY <2>1, <2>2, <2>3, <2>5 DEF RunsInv
<1>23. CASE OpStep
  BY <1>3, <1>4, <1>5, <1>6, <1>7, <1>8, <1>9, <1>10, <1>11, <1>12, <1>13, <1>14, <1>15, <1>16, <1>23
  DEF OpStep
<1>24. ASSUME NEW p \in Pollers, PollStep(p)
       PROVE  RunsInv'
  BY <1>17, <1>18, <1>19, <1>20, <1>24 DEF PollStep
<1> QED  BY <1>1, <1>2, <1>21, <1>22, <1>23, <1>24 DEF Next

--------------------------------------------------------------------------------
(* The theorems.                                                           *)

(* What pollers, commands and the holder of the mutex may rely on holds in *)
(* every reachable state, whatever revisions give a schedule another time, *)
(* period or policy while a poll works on a snapshot of it.                *)
THEOREM RunsInvariance == Spec => []RunsInv
<1> QED  BY InitHolds, NextKeeps, PTL DEF Spec

(* The tables, the snapshots of the pollers and the operation in progress  *)
(* keep their types: no store call is made with a key or a slot that does  *)
(* not exist.                                                              *)
THEOREM RunsTypeCorrect == Spec => []TypeOK
<1>1. RunsInv => TypeOK
  BY DEF RunsInv, BaseInv
<1> QED  BY <1>1, RunsInvariance, PTL

(* poll_background_schedules passes no slot that was neither fired nor     *)
(* given up by a policy, whatever crashes, revisions and stale snapshots   *)
(* came before the cursor moved; excepted is catch_up from a cursor off    *)
(* the grid of the plan.                                                   *)
THEOREM NoBackgroundSlotLost == Spec => NoSlotLost
<1> DEFINE Lost(s) ==
        LET p == Mover(s).plan
            from == Parsed(sched[s].last)
            to == sched'[s].last
        IN  to # sched[s].last /\ to.form = "ms"
              /\ ~(CatchesUp(p) /\ from # 0 /\ ~OnGrid(p, from))
            => \A x \in Slots : from < x /\ x <= to.at /\ IsSlot(p, x) =>
                   \/ x \in Mover(s).passed
                   \/ \E r \in Revisions : runs'[<<s, r, Ms(x)>>].state # "none"
                   \/ x = to.at /\ op.pc = "overlap" /\ Skips
<1>1. ASSUME RunsInv, Next
      PROVE  \A s \in Schedules : Lost(s)
  <2>0. BaseInv /\ SlotInv /\ TypeOK
    BY <1>1 DEF RunsInv, BaseInv
  <2>1. ASSUME Firing, op.slots # {}, Advance(op.s, op.cursor, Ms(NextSlot)), UNCHANGED runs,
               \/ op.pc = "overlap" /\ Skips
               \/ op.pc = "advance" /\ op.key = <<op.s, op.rev, Ms(NextSlot)>>
        PROVE  \A s \in Schedules : Lost(s)
    <3>1. SUFFICES ASSUME NEW s \in Schedules, sched'[s].last # sched[s].last,
                          ~Off(Mover(s).plan, Parsed(sched[s].last)), NEW x \in Slots,
                          Parsed(sched[s].last) < x, x <= sched'[s].last.at,
                          IsSlot(Mover(s).plan, x)
                   PROVE  \/ x \in Mover(s).passed
                          \/ \E r \in Revisions : runs'[<<s, r, Ms(x)>>].state # "none"
                          \/ x = sched'[s].last.at /\ op.pc = "overlap" /\ Skips
      BY DEF Off
    <3>2. /\ op.s \in Schedules /\ op.rev \in Revisions /\ NextSlot \in op.slots /\ NextSlot \in Slots
          /\ NextSlot = Earliest(op.slots) /\ op.slots \subseteq Slots /\ Ms(NextSlot) \in SlotNames
          /\ Ms(NextSlot).at = NextSlot
      BY <2>0, <2>1, OpSlot, NameTypes DEF TypeOK, Ops
    <3>3. s = op.s /\ sched[s].last = op.cursor /\ sched'[s].last = Ms(NextSlot)
      BY <3>1, <3>2, <2>0, <2>1, AdvanceType
    <3>4. Mover(s) = [plan |-> op.plan, passed |-> op.passed]
      BY <2>1 DEF Mover
    <3>5. Covers(op.plan, Parsed(op.cursor), op.slots, op.passed)
      BY <3>1, <3>3, <3>4, <2>0, <2>1 DEF SlotInv, InHand
    <3>6. x \in op.passed \cup op.slots /\ x <= NextSlot
      BY <3>1, <3>2, <3>3, <3>4, <3>5 DEF Covers
    <3>7. x \in op.slots => x = NextSlot
      BY <3>2, <3>6, EarliestIsFirst, Bounds DEF Slots
    <3>8. op.pc = "advance" => runs'[<<op.s, op.rev, Ms(NextSlot)>>].state # "none"
      BY <2>0, <2>1 DEF SlotInv, Firing
    <3> QED  BY <2>1, <3>2, <3>3, <3>4, <3>6, <3>7, <3>8
  <2>2. CASE SkipOverlap
    BY <2>0, <2>1, <2>2, SkipMoves DEF SkipOverlap
  <2>3. CASE AdvanceCursor
    BY <2>0, <2>1, <2>3, AdvanceMoves, OpSlot DEF AdvanceCursor
  <2>4. ASSUME NEW u \in Schedules, TakeSchedule(u)
        PROVE  \A s \in Schedules : Lost(s)
    <3>1. SUFFICES ASSUME NEW s \in Schedules, sched'[s].last # sched[s].last, NEW x \in Slots,
                          Parsed(sched[s].last) < x, x <= sched'[s].last.at,
                          IsSlot(Mover(s).plan, x)
                   PROVE  x \in Mover(s).passed
      OBVIOUS
    <3>2. Passed(u)
      BY <2>4, <3>1, TakeCases DEF Fires
    <3> DEFINE row == poll["background"].snap[s]
               at == poll["background"].at
               latest == Latest(row.plan, at)
    <3>3. /\ s = u /\ sched[s].last = row.last /\ sched'[s].last = Ms(latest)
      BY <2>0, <2>4, <3>1, <3>2, PassedBase
    <3>4. op.pc = "idle" /\ poll["background"].pc = "work" /\ s \in poll["background"].todo
      BY <2>4, <3>3 DEF TakeSchedule
    <3>5. Mover(s) = [plan |-> row.plan, passed |-> GivenUp(row.plan, Parsed(row.last), at)]
      BY <3>4 DEF Mover
    <3>6. Parsed(row.last) < latest /\ ToFire(row.plan, Parsed(row.last), at) = {}
      BY <3>2, <3>3 DEF Passed
    <3>7. \A y \in Slots : IsSlot(row.plan, y) /\ Parsed(row.last) < y /\ y <= latest =>
                               y \in GivenUp(row.plan, Parsed(row.last), at)
      BY <2>0, <3>4, <3>6, TakenSlots
    <3>8. x <= latest
      BY <3>1, <3>3 DEF Ms
    <3> QED  BY <3>1, <3>3, <3>5, <3>7, <3>8
  <2>5. ASSUME NEW u \in Schedules, TakeDaily(u)
        PROVE  \A s \in Schedules : Lost(s)
    <3>1. \A s \in Schedules : sched'[s].last = sched[s].last \/ sched'[s].last.form = "rfc3339"
      <4>1. \A p, x : Rfc(p, x).form = "rfc3339"
        BY DEF Rfc
      <4>2. /\ \A s \in Schedules : s # u => sched'[s].last = sched[s].last
            /\ \/ sched'[u].last = sched[u].last
               \/ sched'[u].last = Rfc(poll["daily"].snap[u].plan,
                                       TodaySlot(poll["daily"].snap[u].plan, poll["daily"].at))
        BY <2>0, <2>5, TakeDailyBase
      <4> QED  BY <4>1, <4>2
    <3> QED  BY <3>1
  <2>6. ASSUME \A s \in Schedules : sched'[s].last = sched[s].last
        PROVE  \A s \in Schedules : Lost(s)
    BY <2>6
  <2>7. ASSUME NEW s \in Schedules, NEW r \in Revisions, NEW on \in BOOLEAN, NEW p \in Plans,
               SaveDaily(s, r, on, p) \/ SaveBackground(s, r, on, p)
        PROVE  \A u \in Schedules : sched'[u].last = sched[u].last
    <3>1. /\ Fits(p) /\ Fits(HalfSaved(p)) /\ Fits(sched[s].plan)
      BY <2>0, PlansFit, HalfSavedFits DEF BaseInv, PollOK
    <3>2. /\ Upserted(s, r, on, p) \in Rows /\ Upserted(s, r, on, p).last = sched[s].last
          /\ Upserted(s, r, on, HalfSaved(p)) \in Rows
          /\ Upserted(s, r, on, HalfSaved(p)).last = sched[s].last
      BY <3>1, <2>0, UpsertedType
    <3>3. \/ UNCHANGED sched \/ Replan(s, Upserted(s, r, on, p))
          \/ Replan(s, Upserted(s, r, on, HalfSaved(p)))
      BY <2>7 DEF SaveDaily, SaveBackground
    <3> QED  BY <3>2, <3>3, <2>0, ReplanType
  <2>8. ASSUME SaveSpec
        PROVE  \A u \in Schedules : sched'[u].last = sched[u].last
    <3>1. /\ op.s \in Schedules /\ op.plan \in PlanRecords /\ sched[op.s] \in Rows
      BY <2>0, <2>8, PlansFit DEF BaseInv, TypeOK, OpOK, SaveSpec, Fits
    <3>2. /\ [sched[op.s] EXCEPT !.plan = op.plan] \in Rows
          /\ [sched[op.s] EXCEPT !.plan = op.plan].last = sched[op.s].last
      BY <3>1 DEF Rows
    <3>3. UNCHANGED sched \/ Replan(op.s, [sched[op.s] EXCEPT !.plan = op.plan])
      BY <2>8 DEF SaveSpec
    <3> QED  BY <3>1, <3>2, <3>3, <2>0, ReplanType
  <2>9. ASSUME UNCHANGED sched
        PROVE  \A u \in Schedules : sched'[u].last = sched[u].last
    BY <2>9
  <2> HIDE DEF Lost
  <2>10. CASE OpStep
    BY <2>0, <2>2, <2>3, <2>6, <2>8, <2>9, <2>10, DisableOneShotBase
    DEF OpStep, AdmitRun, AdmitExisting, SaveMetadata, ScheduleWait, QueueRun, FireSlot,
        LastSlotDone, ResumeRun, CompleteWait, WaitsDone
  <2>11. CASE Command
    BY <2>0, <2>6, <2>7, <2>9, <2>11, SetEnabledBase
    DEF Command, CreateRun, TriggerRun, Wait, CancelRun
  <2>12. ASSUME NEW p \in Pollers, PollStep(p)
         PROVE  \A s \in Schedules : Lost(s)
    BY <2>4, <2>5, <2>6, <2>9, <2>12 DEF PollStep, ListSchedules, SchedulesDone
  <2> QED  BY <1>1, <2>6, <2>9, <2>10, <2>11, <2>12 DEF Next, Tick, Crash
<1>2. RunsInv /\ [Next]_vars => [\A s \in Schedules : Lost(s)]_vars
  BY <1>1
<1> QED  BY <1>2, RunsInvariance, PTL DEF Spec, NoSlotLost

(* poll_automation_schedules fires a daily slot once at most while the     *)
(* time of the schedule stays, across other revisions, polls that began    *)
(* under an earlier time, commands after the listing, and crashes.         *)
THEOREM DailySlotsFireOnce == Spec => []DailySlotAtMostOnce
<1>1. RunsInv => DailySlotAtMostOnce
  BY DEF RunsInv, DailyInv
<1> QED  BY <1>1, RunsInvariance, PTL

(* A run that the background poll queues is the only active one of its     *)
(* schedule: under skip_if_running whatever the policy was before, and     *)
(* under cancel_previous unless some revision allowed several.             *)
THEOREM QueuedRunIsExclusive == Spec => ExclusiveWhenQueued
<1> DEFINE P == \A k \in RunKeys :
        (/\ op.pc = "queue" /\ op.who = "background" /\ k = op.key /\ runs'[k].state = "queued"
         /\ \/ op.plan.overlap = "skip_if_running"
            \/ op.plan.overlap = "cancel_previous" /\ op.s \notin lax)
        => {j \in RunKeys : j[1] = op.s /\ runs'[j].meta /\ runs'[j].state \in Active} = {k}
<1>1. RunsInv /\ [Next]_vars => [P]_vars
  <2> SUFFICES ASSUME RunsInv, Next, op.pc = "queue", op.who = "background",
                      op.key \in RunKeys, Strict(op.plan, op.s), runs'[op.key].state = "queued"
               PROVE  {j \in RunKeys : j[1] = op.s /\ runs'[j].meta /\ runs'[j].state \in Active}
                          = {op.key}
    BY DEF Strict
  <2>1. /\ BaseInv /\ runs[op.key].state = "admitted" /\ runs[op.key].meta
        /\ ActiveOf(op.s) \subseteq {op.key}
    BY DEF RunsInv, ExclusiveInv
  <2>2. op.key[1] = op.s
    BY <2>1, OpKey
  <2>3. QueueRun
    <3>1. Tick \/ QueueRun \/ Crash
      BY DEF Next, OpStep, PollStep, Command, SaveSpec, AdmitRun, AdmitExisting, SaveMetadata,
             ScheduleWait, SkipOverlap, FireSlot, AdvanceCursor, LastSlotDone, DisableOneShot,
             ResumeRun, CompleteWait, WaitsDone, ListSchedules, SchedulesDone, TakeSchedule,
             TakeDaily, CreateRun, TriggerRun, Wait, CancelRun, SaveDaily, SaveBackground,
             SetEnabled, Commanded
    <3> QED  BY <2>1, <3>1 DEF Tick, Crash
  <2>4. runs'[op.key].meta /\ \A j \in RunKeys : j # op.key => runs'[j] = runs[j]
    BY <2>1, <2>3, QueueRunBase
  <2> DEFINE A == {j \in RunKeys : j[1] = op.s /\ runs'[j].meta /\ runs'[j].state \in Active}
  <2>5. op.key \in A
    BY <2>2, <2>4 DEF Active
  <2>6. \A j \in A : j = op.key
    BY <2>1, <2>4 DEF ActiveOf
  <2> QED  BY <2>5, <2>6
<1> QED  BY <1>1, RunsInvariance, PTL DEF Spec, ExclusiveWhenQueued

(* A run that was cancelled or dead-lettered stays so: transition_run      *)
(* compares the state, so no late wake-up, retried slot or repeated        *)
(* request brings it back.                                                 *)
THEOREM NoEndedRunReturns == Spec => EndedRunsStay
<1> DEFINE P == \A k \in RunKeys :
        runs[k].state \in {"cancelled", "dead_lettered"} => runs'[k].state = runs[k].state
<1>1. RunsInv /\ [Next]_vars => [P]_vars
  <2> SUFFICES ASSUME RunsInv, Next, NEW k \in RunKeys,
                      runs[k].state \in {"cancelled", "dead_lettered"}
               PROVE  runs'[k].state = runs[k].state
    OBVIOUS
  <2>0. BaseInv
    BY DEF RunsInv
  <2>1. \/ runs' = runs
        \/ AdmitRun \/ SaveMetadata \/ QueueRun \/ \E j \in RunKeys : ResumeRun(j)
        \/ \E j \in RunKeys : \E st \in {"cancelled", "dead_lettered"} :
               SetState(j, st) /\ runs[j].state \in Active
    BY DEF Next, OpStep, PollStep, Command, SaveSpec, AdmitExisting, ScheduleWait, SkipOverlap,
           AdvanceCursor, LastSlotDone, DisableOneShot, CompleteWait, WaitsDone, ListSchedules,
           SchedulesDone, TakeSchedule, TakeDaily, TriggerRun, Wait, CancelRun, SaveDaily,
           SaveBackground, SetEnabled, Tick, Crash, CreateRun, FireSlot, Oldest, ActiveOf, Queued,
           Active
  <2>2. CASE AdmitRun
    BY <2>0, <2>2, AdmitRunBase DEF AdmitRun
  <2>3. CASE SaveMetadata
    BY <2>0, <2>3, SaveMetadataBase
  <2>4. CASE QueueRun
    <3>1. CASE k # op.key
      BY <3>1, <2>0, <2>4, QueueRunBase
    <3>2. CASE k = op.key
      BY <3>2, <2>4 DEF QueueRun
    <3> QED  BY <3>1, <3>2
  <2>5. ASSUME NEW j \in RunKeys, ResumeRun(j)
        PROVE  runs'[k].state = runs[k].state
    BY <2>0, <2>5, ResumeRunBase
  <2>6. ASSUME NEW j \in RunKeys, NEW st \in {"cancelled", "dead_lettered"}, SetState(j, st),
               runs[j].state \in Active
        PROVE  runs'[k].state = runs[k].state
    BY <2>0, <2>6, SetStateType DEF BaseInv, States, Active
  <2> QED  BY <2>1, <2>2, <2>3, <2>4, <2>5, <2>6
<1> QED  BY <1>1, RunsInvariance, PTL DEF Spec, EndedRunsStay

=============================================================================
