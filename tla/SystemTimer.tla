----------------------------- MODULE SystemTimer -----------------------------
(***************************************************************************)
(* The heartbeat of the machine and the clock that hangs from it:          *)
(* aros/arch/m68k-emu68/platform/bcm283x/system_timer.c (arming compare    *)
(* channel 3 of a free-running counter) and timer/ticks.c, timer_init.c    *)
(* (timer.device's EClock).                                                *)
(*                                                                         *)
(* The counter runs between any two register accesses.  systimer_arm runs  *)
(* in two contexts: the task that starts the platform, in user mode with   *)
(* interrupts enabled, and the heartbeat, which preempts it.               *)
(***************************************************************************)
EXTENDS Integers

CONSTANTS
    Word,      \* the values of CLO
    Interval,  \* systimer_interval_us
    Margin,    \* SYSTIMER_MIN_MARGIN
    Retries,   \* attempts of systimer_arm: 8
    MaxUnread, \* bound: how long before somebody asks the time
    MaxLate    \* bound: how long the machine may take from one access to the next

WordAssumption   == Word \in Nat \ {0} /\ Word % 2 = 0
PeriodAssumption == /\ Interval \in Nat \ {0} /\ Margin \in 1..Interval
                    /\ Retries \in Nat \ {0} /\ MaxLate \in Nat \ {0}
                    /\ MaxUnread \in 1..Word - 1

Periods(n) == n * Interval
Spells(n)  == n * MaxLate

\* There is a second attempt, and all of them are over before half the word has
\* passed: with 32 bits and eight attempts of 20 ms, if MaxLate is below three minutes.
Deep == Periods(Retries + 2) + Spells(Retries)
RoomAssumption == Retries > 1 /\ Deep + Interval + 3 * MaxLate < Word \div 2

Stamp == 0..Word - 1
Wide  == 2 * Word       \* CHI counts the wraps of CLO, up to this bound
Ctx   == {"task", "irq"}

VARIABLES
    clo, chi,        \* the counter; nobody reads CHI
    compare,         \* C3
    cs,              \* its match bit in CS
    at,              \* where each context is in systimer_arm, "off" outside
    target, retries, \* its locals
    systimer_next,
    late,            \* emu68_platform_late is not zero
    wait,            \* how long each has been at it, and the match been waiting
    tbp_CLO, tb_Elapsed, \* timer.device, tb_Elapsed counted from power-on
    now              \* the task's reading inside EClockUpdate, NoStamp outside

armVars    == <<compare, at, target, retries, systimer_next, late>>
eclockVars == <<tbp_CLO, tb_Elapsed, now>>
vars == <<clo, chi, cs, armVars, wait, eclockVars>>

NoStamp == -1

-----------------------------------------------------------------------------
Counter == chi * Word + clo

\* (LONG)(t - CLO) > 0
UnsignedAhead(t) == t # clo   \* mutant: an unsigned difference
Ahead(t) == (t - clo) % Word \in 1 .. (Word \div 2) - 1

Preempted(c) == c = "task" /\ at["irq"] # "off"

\* The environment: time passes, but a match is served, and an attempt of
\* systimer_arm is over, within MaxLate, preempted or not, and its last one
\* within Margin; and somebody asks the time every MaxUnread.
Waiting(c) == at[c] # "off" \/ (c = "irq" /\ cs)

Patience(c) == IF retries[c] = Retries - 1 THEN Margin - 1 ELSE MaxLate

Patient == \A c \in Ctx : Waiting(c) => wait[c] < Patience(c)

Unread == (clo - tbp_CLO) % Word

\* The comparator matches on equality only.
Tick ==
    /\ Patient /\ Unread < MaxUnread
    /\ clo' = (clo + 1) % Word
    /\ chi' = IF clo' = 0 THEN (chi + 1) % 2 ELSE chi
    /\ cs' = (cs \/ clo' = compare)
    /\ wait' = [c \in Ctx |-> IF Waiting(c) THEN wait[c] + 1 ELSE 0]
    /\ UNCHANGED <<armVars, eclockVars>>

\* systimer_enable, in coldstart_user: the first period has been computed.
\* timer.device comes up meanwhile.  C3 is as the counter left it at reset.
Init ==
    /\ clo = Interval /\ chi = 0
    /\ compare = 0 /\ cs = FALSE
    /\ at = [c \in Ctx |-> IF c = "task" THEN "write" ELSE "off"]
    /\ target = [c \in Ctx |-> IF c = "task" THEN clo + Interval ELSE 0]
    /\ retries = [c \in Ctx |-> 0]
    /\ systimer_next = 0
    /\ late = FALSE /\ wait = [c \in Ctx |-> 0]
    /\ tbp_CLO = clo /\ tb_Elapsed = clo /\ now = NoStamp

-----------------------------------------------------------------------------
(* systimer_arm, in context c.                                             *)

Write(c) ==
    /\ at[c] = "write" /\ ~Preempted(c)
    /\ compare' = target[c]
    /\ at' = [at EXCEPT ![c] = "check"]
    /\ UNCHANGED <<clo, chi, cs, target, retries, systimer_next, late, wait,
                   eclockVars>>

\* What follows systimer_arm: the heartbeat causes VERTB, the task goes on.
Armed(c, t) ==
    /\ systimer_next' = t
    /\ target' = [target EXCEPT ![c] = 0]
    /\ retries' = [retries EXCEPT ![c] = 0]
    /\ at' = [at EXCEPT ![c] = IF c = "irq" THEN "cause" ELSE "off"]
    /\ wait' = [wait EXCEPT ![c] = 0]

NeverMissed(c) == TRUE   \* mutant: written once and never read back
InTime(c) == Ahead(target[c])

Check(c) ==
    /\ at[c] = "check" /\ ~Preempted(c)
    /\ IF InTime(c) THEN Armed(c, target[c])
       ELSE /\ at' = [at EXCEPT ![c] = "retarget"]
            /\ UNCHANGED <<target, retries, systimer_next, wait>>
    /\ UNCHANGED <<clo, chi, cs, compare, late, eclockVars>>

\* The last attempt's new target is never written.
Retarget(c) ==
    /\ at[c] = "retarget" /\ ~Preempted(c)
    /\ late' = TRUE
    /\ LET t == (clo + Margin) % Word IN
         IF retries[c] + 1 = Retries THEN Armed(c, t)
         ELSE /\ target' = [target EXCEPT ![c] = t]
              /\ retries' = [retries EXCEPT ![c] = @ + 1]
              /\ at' = [at EXCEPT ![c] = "write"]
              /\ wait' = [wait EXCEPT ![c] = 0] /\ UNCHANGED systimer_next
    /\ UNCHANGED <<clo, chi, cs, compare, eclockVars>>

-----------------------------------------------------------------------------
(* The heartbeat.                                                          *)

FromCounter == (clo + Interval) % Word   \* mutant: a period from now
Unwrapped   == systimer_next + Interval    \* mutant: kept in 64 bits
NextPeriod  == (systimer_next + Interval) % Word

Heartbeat ==
    /\ cs /\ at["irq"] = "off"
    /\ cs' = FALSE
    /\ at' = [at EXCEPT !["irq"] = "write"]
    /\ target' = [target EXCEPT !["irq"] = NextPeriod]
    /\ wait' = [wait EXCEPT !["irq"] = 0]
    /\ UNCHANGED <<clo, chi, compare, retries, systimer_next, late, eclockVars>>

\* EClockUpdate with the counter read as t.
EClockUpdate(t) ==
    /\ tbp_CLO' = t
    /\ tb_Elapsed' = (tb_Elapsed + ((t - tbp_CLO) % Word)) % Wide

\* core_Cause(INTB_VERTB) while no task holds Disable(): VBlankInt.
CauseAlways == TRUE   \* mutant: IDNESTCOUNT is not looked at
MayCause == now = NoStamp

Cause ==
    /\ at["irq"] = "cause"
    /\ at' = [at EXCEPT !["irq"] = "off"]
    /\ IF MayCause THEN EClockUpdate(clo) ELSE UNCHANGED <<tbp_CLO, tb_Elapsed>>
    /\ wait' = [wait EXCEPT !["irq"] = 0]
    /\ UNCHANGED <<clo, chi, cs, compare, target, retries, systimer_next, late, now>>

-----------------------------------------------------------------------------
(* A task that asks the time, under Disable().                             *)

Task == at = [c \in Ctx |-> "off"]

ReadEClock ==
    /\ Task /\ now = NoStamp /\ now' = clo
    /\ UNCHANGED <<clo, chi, cs, armVars, wait, tbp_CLO, tb_Elapsed>>

UpdateEClock ==
    /\ Task /\ now # NoStamp /\ now' = NoStamp
    /\ EClockUpdate(now)
    /\ UNCHANGED <<clo, chi, cs, armVars, wait>>

-----------------------------------------------------------------------------
Next == \/ Tick
        \/ \E c \in Ctx : Write(c) \/ Check(c) \/ Retarget(c)
        \/ Heartbeat \/ Cause
        \/ ReadEClock \/ UpdateEClock

Spec == Init /\ [][Next]_vars

-----------------------------------------------------------------------------
(* Properties.                                                             *)

TypeOK ==
    /\ clo \in Stamp /\ chi \in 0..1 /\ compare \in Stamp /\ cs \in BOOLEAN
    /\ at \in [Ctx -> {"off", "write", "check", "retarget", "cause"}]
    /\ target \in [Ctx -> Stamp] /\ retries \in [Ctx -> 0..Retries - 1]
    /\ systimer_next \in Stamp /\ late \in BOOLEAN /\ wait \in [Ctx -> Nat]
    /\ tbp_CLO \in Stamp /\ tb_Elapsed \in 0..Wide - 1
    /\ now \in Stamp \cup {NoStamp}

\* The heartbeat is never lost (system_timer.c): with nothing pending and
\* nobody arming, the compare is ahead, however late the machine was and whoever
\* armed it last. It is no further than two periods if it is the target on
\* record. It is not when a heartbeat preempted the platform's own arming between
\* the write and the check: then it may be another period away for each attempt.
HeartbeatArmed ==
    (\A c \in Ctx : ~Waiting(c)) =>
        (compare - clo) % Word \in 1 .. IF compare = systimer_next THEN 2 * Interval
                                       ELSE Periods(Retries + 1)

\* "A late interrupt does not stretch the period": as long as no target was
\* missed, every heartbeat is due a whole number of periods from the first, in
\* the word of the counter.
Periodic(t) == \E k \in Stamp : t = Periods(k) % Word

OnGrid == ~late /\ at["irq"] = "off" /\ at["task"] = "off" => Periodic(systimer_next)

\* "No interval is ever counted twice" (ticks.c), and none is lost: the clock
\* and what it has not consumed add up to the counter, across wraps, with the
\* heartbeat's update interrupting a task's.
EClockExact == (tb_Elapsed + Unread) % Wide = Counter

\* What the counter's two clocks promise, all of it.
ClockKept == TypeOK /\ HeartbeatArmed /\ OnGrid /\ EClockExact

-----------------------------------------------------------------------------
(* The inductive invariant.                                                *)

\* How far t is ahead of c, less than half the word either way.
Distance(t, c) == ((t - c + Word \div 2) % Word) - Word \div 2
Gap(t) == Distance(t, clo)

Arming(c) == at[c] \in {"write", "check", "retarget"}
Due    == IF Arming("irq") THEN target["irq"] ELSE systimer_next
Coming == Gap(Due) + IF cs THEN Interval ELSE 0
Own    == at["task"] = "check" /\ compare = target["task"]

\* Each attempt of the task may add one match of its own, if its target was missed.
Reach ==
    IF ~Arming("task") THEN 2 * Interval
    ELSE Periods(retries["task"])
           + IF at["task"] = "write" \/ Gap(target["task"]) >= 1 THEN 2 * Interval
             ELSE 3 * Interval
Top == IF Arming("task") THEN Reach ELSE Periods(Retries + 1)

\* How long ago what is due, or in the compare, was at most.
Past ==
    IF Arming("task") THEN Interval + Spells(retries["task"]) + wait["task"]
    ELSE Deep + wait["irq"] + IF ~Arming("irq") THEN 0
                              ELSE IF retries["irq"] = 0 THEN MaxLate ELSE 2 * MaxLate

\* Who is where in systimer_arm, and what its target then is.
Walk ==
    /\ at["task"] # "cause"
    /\ \A c \in Ctx :
        /\ wait[c] <= Patience(c) /\ (~Waiting(c) => wait[c] = 0)
        /\ ~Arming(c) => retries[c] = 0
        /\ Arming(c) /\ retries[c] > 0 => Gap(target[c]) = Margin - wait[c]
        /\ at[c] = "retarget" => retries[c] < Retries - 1
    /\ at["irq"] \in {"check", "retarget"} => compare = target["irq"]
    /\ at["irq"] = "cause" => compare = systimer_next /\ Gap(compare) >= 1 - wait["irq"]
    /\ at["task"] = "retarget" => Gap(target["task"]) <= 0
    /\ Arming("task") /\ Arming("irq") /\ retries["irq"] > 0
        => wait["irq"] <= wait["task"]

\* The first period: nothing comes before its target does.
FirstPeriod ==
    Arming("task") /\ retries["task"] = 0 =>
        /\ Gap(target["task"]) = Interval - wait["task"]
        /\ cs \/ at["irq"] # "off" => at["task"] # "write" /\ Gap(target["task"]) <= 0
        /\ at["task"] = "write" => Gap(compare) = -Interval - wait["task"]
        /\ at["task"] # "write" => compare = target["task"] \/ Gap(target["task"]) <= 0

\* A match is pending or to come.
Alive ==
    ~Arming("irq") =>
        /\ ~Arming("task") => cs \/ Gap(compare) >= 1
        /\ at["task"] = "check" => cs \/ Gap(compare) >= 1 \/ compare = target["task"]

\* It comes before long.
Upper ==
    /\ Coming <= Reach /\ Gap(compare) <= Top
    /\ Gap(compare) >= 1 /\ ~Own =>
        /\ Gap(Due) - Gap(compare) <= Interval
        /\ cs /\ ~Arming("irq") => Gap(Due) <= Gap(compare)

\* Nothing is so old that it seems to be ahead.
Lower ==
    /\ Gap(compare) >= -Past /\ Gap(Due) >= -Past
    /\ Arming("task") => Gap(target["task"]) >= -Past
    /\ ~Arming("irq") /\ ~Arming("task") /\ ~cs
        => Gap(Due) >= Gap(compare) - Periods(Retries + 1)

\* The target of a task whose compare a heartbeat has overwritten is not later.
Overtaken ==
    at["task"] = "check" /\ Gap(target["task"]) >= 1 =>
        /\ /\ \/ ~Arming("irq") /\ cs
              \/ at["irq"] = "write" /\ retries["irq"] = 0
           /\ Gap(compare) >= 1
           => Gap(target["task"]) <= Gap(compare)
        /\ Arming("irq") /\ retries["irq"] = 0 /\ cs
           => at["irq"] # "write" /\ Gap(compare) <= 0

Heart == Walk /\ FirstPeriod /\ Alive /\ Upper /\ Lower /\ Overtaken

Grid ==
    ~late => /\ Periodic(systimer_next)
             /\ \A c \in Ctx : Arming(c) => Periodic(target[c])

\* What a task has read lies between the last update and the counter.
Reading ==
    now # NoStamp => Unread = ((now - tbp_CLO) % Word) + ((clo - now) % Word)

IInv == TypeOK /\ Heart /\ Grid /\ EClockExact /\ Unread <= MaxUnread /\ Reading
===============================================================================
