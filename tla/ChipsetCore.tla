----------------------------- MODULE ChipsetCore -----------------------------
(***************************************************************************)
(* The chipset runtime of Bellatrix: src/amiga/bus.c (the chipset clock    *)
(* and the classic bus), src/amiga/core.c (the handover of the chipset to  *)
(* a core of its own and the lock around Rigel) and src/amiga/irq.c (the   *)
(* interrupt boundary), on two cores.                                      *)
(*                                                                         *)
(*   "cpu"   boots the machine, then translates m68k code: every access    *)
(*           to the classic domain is one transaction of amiga_bus_ops     *)
(*   "chip"  waits in WFE for bellatrix_chipset_core_entry to be wanted,   *)
(*           then steps Rigel against real time for ever                   *)
(*                                                                         *)
(* Rigel, the m68k interpreter's STOP and WFE/SEV are external: they are   *)
(* modelled from how src/ uses them.                                       *)
(***************************************************************************)
EXTENDS Integers

CONSTANTS
    Configs,    \* builds and command lines considered, see Config
    Levels,     \* interrupt levels Rigel can assert, 0 for none
    MaxStep,    \* AMIGA_MAX_STEP_CCK: longest step, in colour clocks
    Horizon,    \* farthest observable deadline considered
    Budget,     \* AMIGA_LOCK_BUDGET_CCK: work per acquisition of the lock
    Cap,        \* AMIGA_CCK_MAX_CATCHUP: backlog beyond which time is forgiven
    MaxWall,    \* most colour clocks one reading of the counter may find
    Word        \* 2^64: pending_cck is a uint64_t

Core == {"cpu", "chip"}

Config == [rigel    : {"off", "failed", "up"},  \* option off, rigel_create failed
           core     : BOOLEAN,   \* CONFIG_RIGEL_CHIPSET_CORE
           floor    : BOOLEAN,   \* bellatrix.chipfloor
           selftest : BOOLEAN,   \* CONFIG_RIGEL_SELFTEST
           barrier  : BOOLEAN]   \* the gate's store is visible before SEV's event

ASSUME ConfigAssumption == Configs \subseteq Config
ASSUME LevelAssumption  == Levels \subseteq Nat /\ 0 \in Levels
ASSUME ClockAssumption  ==
    /\ MaxStep \in Nat \ {0} /\ Budget \in Nat \ {0} /\ MaxWall \in Nat \ {0}
    /\ Horizon \in Nat /\ MaxStep < Horizon
    /\ Cap \in Nat /\ MaxStep <= Cap
    /\ Word \in Nat /\ Cap + MaxWall < Word

VARIABLES
    conf,       \* the build and the command line of this boot
    pc,         \* where each core is
    wanted, arrived,            \* core_wanted, core_arrived
    event,      \* the event register SEV sets and WFE clears, per core
    observed,   \* chipset_observed
    lock,       \* chipset_lock: who holds it, or "free"
    pending,    \* pending_cck
    wall,       \* wall_last # 0
    level,      \* the level Rigel asserts now
    intena,     \* whether INTENA lets any request through
    due,        \* colour clocks to Rigel's next observable deadline
    published,  \* published_ipl
    gate,       \* __m68k_state->INTF.IPL
    buffered,   \* a store to the gate not yet visible: "none", or its value
    arm,        \* __m68k_state->INTF.ARM, the host's interrupt latch
    phase,      \* how far amiga_bus_init got
    op,         \* the transaction the cpu is in
    q,          \* quantum of the step in progress, per core
    ipl,        \* level amiga_irq_sync read, per core
    budget,     \* what is left of the chipset core's budget
    back,       \* where amiga_irq_sync returns to, per core
    crossed     \* history: "open" while a flush begun before the handover runs

rigelVars == <<level, intena, due>>
irqVars   == <<published, gate, buffered>>
clockVars == <<pending, wall>>
localVars == <<q, ipl, budget, back>>
coreVars  == <<wanted, arrived>>
guestVars == <<arm, phase, op>>
vars == <<conf, pc, coreVars, event, observed, lock, clockVars, rigelVars,
          irqVars, guestVars, localVars, crossed>>

-----------------------------------------------------------------------------
SyncLabel == {"sync_ask", "sync_level", "sync_gate"}
StepLabel == {"step", "spend"} \cup SyncLabel

CpuLabel  == StepLabel \cup
    {"create", "enable", "absent", "idle", "observe", "arm_owner", "arm_reset",
     "arm_set", "flush", "advance", "consume", "acquire", "mmio", "mmio_owner",
     "release", "reset", "irq_init", "stop_check", "stop_wfe"}
ChipLabel == StepLabel \cup
    {"entry", "parked", "wait", "wait_wfe", "arrive", "loop", "acquire",
     "advance", "floor", "drain", "release"}

\* Is core c inside Rigel, or publishing what it just asked of Rigel?
InRigel(c) == \/ pc[c] \in {"step", "mmio", "reset", "irq_init"}
              \/ pc[c] \in SyncLabel

\* amiga_clock_flush and the arming before it, which run without the lock.
InFlush == \/ pc["cpu"] \in {"arm_reset", "advance", "consume", "step",
                             "spend"}
           \/ pc["cpu"] \in SyncLabel /\ back["cpu"] = "spend"

\* An action that moves a core and changes nothing else.
OnlyPC == UNCHANGED <<conf, coreVars, event, observed, lock, clockVars, rigelVars,
                      irqVars, guestVars, localVars, crossed>>

Goto(c, label) == pc' = [pc EXCEPT ![c] = label]
At(c, label)   == pc[c] = label
Put(f, c, v)   == [f EXCEPT ![c] = v]
Least(a, b)    == IF a < b THEN a ELSE b

Init ==
    /\ conf \in Configs
    /\ pc = [cpu |-> "create", chip |-> "entry"]
    /\ wanted = FALSE /\ arrived = FALSE
    /\ event = [c \in Core |-> FALSE]
    /\ observed = FALSE /\ lock = "free"
    /\ pending = 0 /\ wall = FALSE
    /\ level = 0 /\ intena = FALSE /\ due \in 0..Horizon
    /\ published = 0 /\ gate = FALSE /\ buffered = "none"
    /\ arm = FALSE /\ phase = "boot" /\ op = "none"
    /\ q = [c \in Core |-> 0] /\ ipl = [c \in Core |-> 0]
    /\ budget = 0
    /\ back = [c \in Core |-> "spend"]
    /\ crossed = "no"

-----------------------------------------------------------------------------
(* What both cores do: a step of Rigel and the publication of its level.   *)

\* amiga_clock_quantum: distance to the next observable deadline.
QuantumBlind == MaxStep   \* mutant: the deadline is not asked for
Quantum == IF due = 0 THEN 1 ELSE Least(due, MaxStep)

Sev == event' = [c \in Core |-> TRUE]

\* What follows rigel_step.
AfterStepNoSync == "spend"   \* mutant: the level is not published
AfterStep == "sync_ask"

\* amiga_clock_step up to amiga_irq_sync.  Rigel promises that nothing it
\* would report happens before its deadline; at the deadline a request may be
\* raised, never withdrawn.
Step(c) ==
    /\ At(c, "step") /\ Goto(c, AfterStep)
    /\ \/ /\ q[c] < due
          /\ due' = due - q[c] /\ UNCHANGED level
       \/ /\ q[c] >= due
          /\ due' \in 0..Horizon
          /\ IF intena THEN level' \in {l \in Levels : l >= level}
                       ELSE UNCHANGED level
    /\ back' = Put(back, c, "spend")
    /\ UNCHANGED <<conf, coreVars, event, observed, lock, clockVars, intena,
                   irqVars, guestVars, q, ipl, budget, crossed>>

\* amiga_irq_sync: ask Rigel for the level, and return early when it is what
\* was published last ...
SyncAsk(c) ==
    /\ At(c, "sync_ask")
    /\ IF level = published
         THEN Goto(c, back[c]) /\ UNCHANGED ipl
         ELSE Goto(c, "sync_level") /\ ipl' = Put(ipl, c, level)
    /\ UNCHANGED <<conf, coreVars, event, observed, lock, clockVars, rigelVars,
                   irqVars, guestVars, q, budget, back, crossed>>

LevelStoreSwapped(c) ==   \* mutant: the gate is opened before the level is there
    gate' = (ipl[c] # 0) /\ UNCHANGED <<published, buffered>>
LevelStore(c) == published' = ipl[c] /\ UNCHANGED <<gate, buffered>>

\* ... the level first ...
SyncLevel(c) ==
    /\ At(c, "sync_level") /\ Goto(c, "sync_gate")
    /\ LevelStore(c)
    /\ UNCHANGED <<conf, coreVars, event, observed, lock, clockVars, rigelVars,
                   guestVars, localVars, crossed>>

\* ... then the gate ...  There is no DSB between this store and the SEV: without
\* conf.barrier the chipset core's may become visible to the cpu after the event.
GateStoreOpenOnly(c) ==   \* mutant: level 0 does not close the gate
    gate' = (gate \/ ipl[c] # 0) /\ UNCHANGED buffered
GateStore(c) ==
    IF c = "cpu" \/ conf.barrier
      THEN gate' = (ipl[c] # 0) /\ UNCHANGED buffered
      ELSE buffered' = (IF ipl[c] # 0 THEN "set" ELSE "clear") /\ UNCHANGED gate

\* ... and an event for a cpu in STOP, when there is a level.
WakeNobody(c) == UNCHANGED event   \* mutant
WakeStop(c) == IF ipl[c] # 0 THEN Sev ELSE UNCHANGED event

SyncGate(c) ==
    /\ At(c, "sync_gate") /\ Goto(c, back[c])
    /\ buffered = "none"
    /\ GateStore(c) /\ WakeStop(c)
    /\ ipl' = Put(ipl, c, 0)
    /\ UNCHANGED <<conf, coreVars, observed, lock, clockVars, rigelVars,
                   published, guestVars, q, budget, back, crossed>>

\* The buffered store reaches the other core.
GateVisible ==
    /\ buffered # "none"
    /\ gate' = (buffered = "set") /\ buffered' = "none"
    /\ UNCHANGED <<conf, pc, coreVars, event, observed, lock, clockVars,
                   rigelVars, published, guestVars, localVars, crossed>>

\* "pending_cck -= quantum", unsigned; the chipset core takes it off its budget
\* as well.  One step: the owner is alone with this word, and of the cases in
\* which it is not (the handover, the selftests) nothing more is claimed.
Spend(c) ==
    /\ At(c, "spend")
    /\ pending' = (pending - q[c]) % Word
    /\ q' = Put(q, c, 0)
    /\ \/ /\ c = "chip" /\ Goto(c, "drain") /\ budget' = budget - q[c]
       \/ /\ c = "cpu" /\ Goto(c, "consume") /\ UNCHANGED budget
    /\ UNCHANGED <<conf, coreVars, event, observed, lock, wall, rigelVars,
                   irqVars, guestVars, ipl, back, crossed>>

Unforgiving(p) == p   \* mutant: the backlog is never forgiven
Forgive(p) == Least(p, Cap)

\* amiga_clock_advance_wall: the first reading only sets the reference; w is
\* what "scaled / freq" comes to (module WallClock has the arithmetic).
AdvanceWall(w) ==
    IF wall THEN pending' = Forgive((pending + w) % Word) /\ UNCHANGED wall
            ELSE wall' = TRUE /\ UNCHANGED pending

-----------------------------------------------------------------------------
(* The cpu core: amiga_bus_init.                                           *)

\* rigel_create and amiga_irq_init.  A fresh Rigel asserts nothing, so the
\* sync returns early.  Without a chipset the domain reads as open bus.
Create ==
    /\ At("cpu", "create")
    /\ Goto("cpu", IF conf.rigel = "up" THEN "enable" ELSE "absent")
    /\ published' = 0
    /\ UNCHANGED <<conf, coreVars, event, observed, lock, clockVars, rigelVars,
                   gate, buffered, guestVars, localVars, crossed>>

\* core_wanted, and the event behind it.
AskSilently == wanted' = TRUE /\ UNCHANGED event   \* mutant
Ask == wanted' = TRUE /\ Sev

\* amiga_core_enable, then the first transaction: amiga_chipset_enable_dma.
Enable ==
    /\ At("cpu", "enable") /\ Goto("cpu", "observe")
    /\ op' = "dma"
    /\ IF conf.core THEN Ask ELSE UNCHANGED <<wanted, event>>
    /\ UNCHANGED <<conf, arrived, observed, lock, clockVars, rigelVars, irqVars,
                   arm, phase, localVars, crossed>>

\* Both selftests end outside the lock.  The first resets Rigel ...
SelftestReset ==
    /\ At("cpu", "idle") /\ phase = "selftest" /\ Goto("cpu", "reset")
    /\ OnlyPC

Reset ==
    /\ At("cpu", "reset") /\ Goto("cpu", "irq_init")
    /\ level' = 0 /\ intena' = FALSE /\ due' \in 0..Horizon
    /\ UNCHANGED <<conf, coreVars, event, observed, lock, clockVars, irqVars,
                   guestVars, localVars, crossed>>

\* ... and calls amiga_irq_init a second time;
IrqInit ==
    /\ At("cpu", "irq_init") /\ Goto("cpu", "sync_ask")
    /\ published' = 0
    /\ back' = Put(back, "cpu", "idle") /\ phase' = "display"
    /\ UNCHANGED <<conf, coreVars, event, observed, lock, clockVars, rigelVars,
                   gate, buffered, arm, op, q, ipl, budget, crossed>>

\* the second parks the clock, keeping the frame.
Park ==
    /\ At("cpu", "idle") /\ phase = "display"
    /\ pending' = 0 /\ observed' = FALSE /\ phase' = "guest"
    /\ UNCHANGED <<conf, pc, coreVars, event, lock, wall, rigelVars, irqVars,
                   arm, op, localVars, crossed>>

-----------------------------------------------------------------------------
(* The cpu core: amiga_bus_read and amiga_bus_write.                       *)

\* A selftest or the guest begins a transaction; amiga_access_needs_time tells
\* a write to the custom chips or a CIA, or a read of the beam, from the rest.
Transact ==
    /\ At("cpu", "idle") /\ Goto("cpu", "observe")
    /\ op' \in {"time", "plain"}
    /\ UNCHANGED <<conf, coreVars, event, observed, lock, clockVars, rigelVars,
                   irqVars, arm, phase, localVars, crossed>>

\* amiga_clock_observe: arm the clock once, by an access that needs time.
Observe ==
    /\ At("cpu", "observe")
    /\ Goto("cpu", IF observed THEN "flush"
                   ELSE IF op = "plain" THEN "acquire" ELSE "arm_owner")
    /\ OnlyPC

ArmAlways ==   \* mutant: the words of the clock are reset whoever owns it
    At("cpu", "arm_owner") /\ Goto("cpu", "arm_reset") /\ OnlyPC
ArmOwner ==
    /\ At("cpu", "arm_owner") /\ Goto("cpu", IF arrived THEN "arm_set" ELSE "arm_reset")
    /\ OnlyPC

ArmReset ==
    /\ At("cpu", "arm_reset") /\ Goto("cpu", "arm_set")
    /\ pending' = 0 /\ wall' = TRUE
    /\ crossed' = IF crossed = "open" THEN "closed" ELSE crossed
    /\ UNCHANGED <<conf, coreVars, event, observed, lock, rigelVars, irqVars,
                   guestVars, localVars>>

ArmSet ==
    /\ At("cpu", "arm_set") /\ Goto("cpu", "flush")
    /\ observed' = TRUE
    /\ UNCHANGED <<conf, coreVars, event, lock, clockVars, rigelVars, irqVars,
                   guestVars, localVars, crossed>>

\* amiga_clock_flush: nothing to do when the chipset has a core of its own.
FlushAlways ==   \* mutant: the cpu steps a chipset it does not own
    At("cpu", "flush") /\ Goto("cpu", "advance") /\ OnlyPC
Flush ==
    /\ At("cpu", "flush") /\ Goto("cpu", IF arrived THEN "acquire" ELSE "advance")
    /\ OnlyPC

CpuAdvance ==
    /\ At("cpu", "advance") /\ Goto("cpu", "consume")
    /\ \E w \in 0..MaxWall : AdvanceWall(w)
    /\ UNCHANGED <<conf, coreVars, event, observed, lock, rigelVars, irqVars,
                   guestVars, localVars, crossed>>

\* amiga_clock_consume: step until nothing is pending.
Consume ==
    /\ At("cpu", "consume")
    /\ \/ /\ pending = 0 /\ Goto("cpu", "acquire") /\ UNCHANGED q
          /\ crossed' = IF crossed = "open" THEN "closed" ELSE crossed
       \/ /\ pending # 0 /\ Goto("cpu", "step") /\ UNCHANGED crossed
          /\ q' = Put(q, "cpu", Least(pending, Quantum))
    /\ UNCHANGED <<conf, coreVars, event, observed, lock, clockVars, rigelVars,
                   irqVars, guestVars, ipl, budget, back>>

\* amiga_core_lock_acquire, taken by one test-and-set that finds it clear.
Acquire(c) ==
    /\ At(c, "acquire") /\ lock = "free" /\ lock' = c
    /\ Goto(c, IF c = "cpu" THEN "mmio" ELSE "advance")
    /\ UNCHANGED <<conf, coreVars, event, observed, clockVars, rigelVars,
                   irqVars, guestVars, localVars, crossed>>

\* rigel_mmio_read or rigel_mmio_write: any register, so any effect on what is
\* programmed and requested.  Setting the DMA master enable touches no interrupt.
Mmio ==
    /\ At("cpu", "mmio") /\ Goto("cpu", "mmio_owner")
    /\ due' \in 0..Horizon
    /\ \/ op = "dma" /\ UNCHANGED <<level, intena>>
       \/ op # "dma" /\ intena' = FALSE /\ level' = 0
       \/ op # "dma" /\ intena' = TRUE /\ level' \in Levels
    /\ UNCHANGED <<conf, coreVars, event, observed, lock, clockVars, irqVars,
                   guestVars, localVars, crossed>>

\* Only the owner may ask Rigel for the level.
NeverAsk == TRUE   \* mutant: a transaction never publishes
SomeoneElseAsks == arrived

MmioOwner ==
    /\ At("cpu", "mmio_owner")
    /\ IF SomeoneElseAsks
         THEN Goto("cpu", "release") /\ UNCHANGED back
         ELSE Goto("cpu", "sync_ask") /\ back' = Put(back, "cpu", "release")
    /\ UNCHANGED <<conf, coreVars, event, observed, lock, clockVars, rigelVars,
                   irqVars, guestVars, q, ipl, budget, crossed>>

CpuRelease ==
    /\ At("cpu", "release") /\ Goto("cpu", "idle")
    /\ lock' = "free" /\ op' = "none"
    /\ back' = Put(back, "cpu", "spend")
    /\ phase' = IF phase # "boot" THEN phase
                ELSE IF conf.selftest THEN "selftest" ELSE "guest"
    /\ UNCHANGED <<conf, coreVars, event, observed, clockVars, rigelVars,
                   irqVars, arm, q, ipl, budget, crossed>>

-----------------------------------------------------------------------------
(* The cpu core: STOP and the host's interrupts (Emu68, as patched).       *)

\* EMIT_STOP: not waiting if something is already pending ...
Stop ==
    /\ At("cpu", "idle") /\ phase = "guest" /\ Goto("cpu", "stop_check")
    /\ OnlyPC

StopCheck ==
    /\ At("cpu", "stop_check")
    /\ Goto("cpu", IF gate \/ arm THEN "idle" ELSE "stop_wfe")
    /\ OnlyPC

\* ... and else "wfe; load INT64; branch back if zero".
StopWfe ==
    /\ At("cpu", "stop_wfe") /\ event["cpu"] /\ Goto("cpu", "stop_check")
    /\ event' = Put(event, "cpu", FALSE)
    /\ UNCHANGED <<conf, coreVars, observed, lock, clockVars, rigelVars,
                   irqVars, guestVars, localVars, crossed>>

WakeNobodyHost == UNCHANGED event   \* mutant: Emu68 before patch 0022
WakeHost == Sev

\* The IRQ vector asserts INTF.ARM and sends an event; it returns with the
\* interrupt masked, until the guest has acknowledged it.  Nothing but STOP
\* reads the latch, so it may as well land there or between transactions.
HostInterrupt ==
    /\ phase = "guest" /\ pc["cpu"] \in {"idle", "stop_check", "stop_wfe"}
    /\ ~arm /\ arm' = TRUE /\ WakeHost
    /\ UNCHANGED <<conf, pc, coreVars, observed, lock, clockVars, rigelVars,
                   irqVars, phase, op, localVars, crossed>>

HostAck ==
    /\ At("cpu", "idle") /\ arm /\ arm' = FALSE
    /\ UNCHANGED <<conf, pc, coreVars, event, observed, lock, clockVars,
                   rigelVars, irqVars, phase, op, localVars, crossed>>

-----------------------------------------------------------------------------
(* The chipset core: bellatrix_chipset_core_entry, amiga_clock_run_on_core. *)

Entry ==
    /\ At("chip", "entry")
    /\ Goto("chip", IF conf.rigel = "off" THEN "parked" ELSE "wait")
    /\ OnlyPC

\* "while (!core_wanted) wfe"
Wait ==
    /\ At("chip", "wait") /\ Goto("chip", IF wanted THEN "arrive" ELSE "wait_wfe")
    /\ OnlyPC

WaitWfe ==
    /\ At("chip", "wait_wfe") /\ event["chip"] /\ Goto("chip", "wait")
    /\ event' = Put(event, "chip", FALSE)
    /\ UNCHANGED <<conf, coreVars, observed, lock, clockVars, rigelVars,
                   irqVars, guestVars, localVars, crossed>>

\* From here on amiga_core_owns_chipset answers yes, whatever the cpu is in.
Arrive ==
    /\ At("chip", "arrive") /\ Goto("chip", "loop")
    /\ arrived' = TRUE /\ Sev
    /\ crossed' = IF InFlush THEN "open" ELSE "no"
    /\ UNCHANGED <<conf, wanted, observed, lock, clockVars, rigelVars,
                   irqVars, guestVars, localVars>>

\* One pass of the loop; it is idle until the chipset is armed.
Loop ==
    /\ At("chip", "loop") /\ observed /\ Goto("chip", "acquire")
    /\ OnlyPC

ChipAdvance(w) ==
    /\ At("chip", "advance") /\ Goto("chip", "floor")
    /\ AdvanceWall(w)
    /\ UNCHANGED <<conf, coreVars, event, observed, lock, rigelVars, irqVars,
                   guestVars, localVars, crossed>>

\* A declined pass gives the lock straight back.
DeclineHolding == "loop"   \* mutant: it forgets to
Decline == "release"

\* amiga_clock_floor_reached: decline a step that cannot reach a deadline.
Floor ==
    /\ At("chip", "floor")
    /\ IF conf.floor /\ pending < Quantum
         THEN Goto("chip", Decline) /\ UNCHANGED budget
         ELSE Goto("chip", "drain") /\ budget' = Budget
    /\ UNCHANGED <<conf, coreVars, event, observed, lock, clockVars, rigelVars,
                   irqVars, guestVars, q, ipl, back, crossed>>

\* What the next step may spend: what is pending, as far as the deadline and
\* the budget.
UnbudgetedQuantum == Least(pending, Quantum)   \* mutant
ChipQuantum == Least(budget, Least(pending, Quantum))

\* "while (pending_cck != 0 && budget != 0)"
Drain ==
    /\ At("chip", "drain")
    /\ \/ /\ pending = 0 \/ budget = 0
          /\ Goto("chip", "release") /\ budget' = 0 /\ UNCHANGED q
       \/ /\ pending # 0 /\ budget # 0
          /\ Goto("chip", "step") /\ UNCHANGED budget
          /\ q' = Put(q, "chip", ChipQuantum)
    /\ UNCHANGED <<conf, coreVars, event, observed, lock, clockVars, rigelVars,
                   irqVars, guestVars, ipl, back, crossed>>

ChipRelease ==
    /\ At("chip", "release") /\ Goto("chip", "loop")
    /\ lock' = "free"
    /\ UNCHANGED <<conf, coreVars, event, observed, clockVars, rigelVars,
                   irqVars, guestVars, localVars, crossed>>

-----------------------------------------------------------------------------
Shared(c) == \/ Step(c) \/ SyncAsk(c) \/ SyncLevel(c)
             \/ SyncGate(c) \/ Spend(c) \/ Acquire(c)

\* What the cpu does once it has begun something.
CpuRun == \/ Shared("cpu")
          \/ Create \/ Enable \/ Reset \/ IrqInit
          \/ Observe \/ ArmOwner \/ ArmReset \/ ArmSet
          \/ Flush \/ CpuAdvance \/ Consume
          \/ Mmio \/ MmioOwner \/ CpuRelease
          \/ StopCheck \/ StopWfe

\* What the code it runs may choose to do.
CpuChoice == SelftestReset \/ Park \/ Transact \/ Stop

Chip == \/ Shared("chip")
        \/ Entry \/ Wait \/ WaitWfe \/ Arrive \/ Loop
        \/ \E w \in 0..MaxWall : ChipAdvance(w)
        \/ Floor \/ Drain \/ ChipRelease

Next == CpuRun \/ CpuChoice \/ Chip \/ GateVisible \/ HostInterrupt \/ HostAck

\* Each core keeps executing and a store becomes visible (WF); real time keeps
\* elapsing, so readings of the counter find colour clocks again and again; and
\* a spinning core wins the lock eventually (SF), which a test-and-set lock
\* does not promise but two cores that leave it free between holds provide.
Fairness ==
    /\ WF_vars(CpuRun) /\ WF_vars(Chip) /\ WF_vars(GateVisible)
    /\ SF_vars(\E w \in 1..MaxWall : ChipAdvance(w))
    /\ \A c \in Core : SF_vars(Acquire(c))

Spec == Init /\ [][Next]_vars /\ Fairness

-----------------------------------------------------------------------------
(* Properties.                                                             *)

TypeOK ==
    /\ conf \in Configs
    /\ pc \in [Core -> CpuLabel \cup ChipLabel]
    /\ pc["cpu"] \in CpuLabel /\ pc["chip"] \in ChipLabel
    /\ wanted \in BOOLEAN /\ arrived \in BOOLEAN /\ observed \in BOOLEAN
    /\ event \in [Core -> BOOLEAN]
    /\ lock \in Core \cup {"free"}
    /\ pending \in 0..(Word - 1) /\ wall \in BOOLEAN
    /\ level \in Levels /\ intena \in BOOLEAN /\ due \in 0..Horizon
    /\ published \in Levels /\ gate \in BOOLEAN
    /\ buffered \in {"none", "set", "clear"}
    /\ arm \in BOOLEAN
    /\ phase \in {"boot", "selftest", "display", "guest"}
    /\ op \in {"none", "dma", "time", "plain"}
    /\ q \in [Core -> 0..MaxStep] /\ budget \in 0..Budget
    /\ ipl \in [Core -> Levels]
    /\ back \in [Core -> {"spend", "release", "idle"}]
    /\ crossed \in {"no", "open", "closed"}

\* The two cores are never inside Rigel, or publishing its level, at once,
\* except in a build with the selftests and during a flush the cpu had begun
\* when the chipset core arrived: core.h's "nothing else may touch Rigel".
OneInRigel ==
    ~conf.selftest /\ crossed # "open" => ~(InRigel("cpu") /\ InRigel("chip"))

\* The same without the exception for the handover: "Never by both", as
\* irq.c says of amiga_irq_sync and core.h of Rigel.  The code violates it.
NeverByBoth == ~conf.selftest => ~(InRigel("cpu") /\ InRigel("chip"))

\* The gate tells the truth about the published level whenever nobody is in
\* amiga_irq_sync: a level is never left behind a closed gate, nor an open gate
\* in front of level 0.
GateAgrees ==
    ~conf.selftest /\ crossed = "no" /\ buffered = "none"
        /\ (\A c \in Core : ~At(c, "sync_gate"))
    => gate = (published # 0)

\* A cpu that sees the gate open finds the level already there, unless the
\* owner is just taking both down.
LevelBeforeGate ==
    ~conf.selftest /\ crossed = "no" /\ gate /\ published = 0
    => buffered = "clear" \/ \E c \in Core : At(c, "sync_gate") /\ ipl[c] = 0

\* While the cpu owns the chipset, the guest never runs between transactions
\* with a level other than the one Rigel asserts.
OwnerIsCurrent ==
    ~arrived /\ phase = "guest" /\ pc["cpu"] \in {"idle", "stop_check", "stop_wfe"}
    => published = level

\* The chipset core never gives the lock back after stepping with a level
\* unpublished.
StepPublishes ==
    ~conf.selftest /\ crossed = "no" /\ At("chip", "spend")
    => published = level

\* The three together, of what a step tells the CPU: the level goes out before
\* the gate opens, the owner is current, and a changed level is published.
StepsHonest == LevelBeforeGate /\ OwnerIsCurrent /\ StepPublishes

\* The backlog never exceeds the catch-up cap, and a step never takes more than
\* is pending, so the unsigned subtraction does not wrap.
BacklogBounded ==
    ~conf.selftest /\ crossed = "no"
    => /\ pending <= Cap
       /\ \A c \in Core : pc[c] \in {"step", "spend"} => q[c] \in 1..pending

\* After the handover only the chipset core, under the lock, writes the words
\* of the clock: bus.c's "only the owner touches the clock's own state".
ClockKept == arrived /\ ~conf.selftest /\ crossed # "open"
             => UNCHANGED clockVars \/ lock = "chip"
OnlyOwnerTouchesClock == [][ClockKept]_vars

\* The chipset's step goes no further than its next observable deadline, so
\* no event is reported late.
NeverPastDeadline ==
    crossed = "no" /\ ~conf.selftest
    => \A c \in Core : At(c, "step") => q[c] <= due \/ q[c] = 1

\* Asked for once, the chipset core arrives: the flag and the event behind it
\* cannot be lost between its test and its WFE.
CoreArrives == wanted ~> arrived

\* Every transaction completes, however the two cores contend for the lock,
\* unless the chipset core arrived in the middle of its flush: that one may go on
\* consuming what the other core banks.
TransactionCompletes == op # "none" ~> (op = "none" \/ crossed = "open")

\* A level Rigel asserts ends a STOP: through the published level, the gate
\* and the event.
LevelEndsStop ==
    (arrived /\ conf.barrier /\ ~conf.selftest /\ crossed = "no"
       /\ level # 0 /\ At("cpu", "stop_wfe"))
    ~> ~At("cpu", "stop_wfe")

\* So does an interrupt of the host, wherever it falls in the loop of STOP.
HostEndsStop == (arm /\ At("cpu", "stop_wfe")) ~> ~At("cpu", "stop_wfe")

\* "A newly visible level must wake an m68k STOP" (irq.c), without assuming
\* that the gate is visible when the event is delivered.  The code violates it.
NewLevelWakesStop ==
    (arrived /\ ~conf.selftest /\ crossed = "no" /\ gate /\ At("cpu", "stop_wfe"))
    ~> ~At("cpu", "stop_wfe")

-----------------------------------------------------------------------------
(* The inductive invariant behind the safety properties; ChipsetCoreProofs *)
(* shows that it is one.                                                   *)

\* The lock is held exactly where the code is between acquire and release.
LockInv ==
    /\ lock = "chip" <=> pc["chip"] \in {"advance", "floor", "drain", "release"}
                                          \cup StepLabel
    /\ lock = "cpu" <=> \/ pc["cpu"] \in {"mmio", "mmio_owner", "release"}
                        \/ pc["cpu"] \in SyncLabel /\ back["cpu"] = "release"

\* The chipset core has arrived exactly when it is past its entry.
ArrivalInv ==
    /\ arrived <=> pc["chip"] \notin {"entry", "parked", "wait", "wait_wfe", "arrive"}
    /\ ~arrived => crossed = "no"
    /\ back["chip"] = "spend"
    /\ arrived \/ pc["chip"] = "arrive" => wanted
    /\ pc["cpu"] \in {"create", "enable", "absent"} => ~wanted
    /\ pc["cpu"] = "create" => published = 0

\* Only a selftest leaves the lock's discipline, and a flush runs beside an
\* arrived chipset core only if it was crossed.
FlushInv ==
    /\ ~conf.selftest => /\ phase \notin {"selftest", "display"}
                         /\ pc["cpu"] \notin {"reset", "irq_init"}
                         /\ back["cpu"] # "idle"
    /\ arrived /\ InFlush => crossed = "open"

\* The gate, once the buffered store is counted, follows the published level.
SettledGate == IF buffered = "none" THEN gate ELSE buffered = "set"

GateInv ==
    ~conf.selftest /\ crossed = "no" =>
        /\ \A c \in Core : At(c, "sync_gate") => published = ipl[c]
        /\ (\A c \in Core : ~At(c, "sync_gate")) => SettledGate = (published # 0)

\* A step under way, and its sync, spend what is pending.
Spending(c) == \/ pc[c] \in {"step", "spend"}
               \/ pc[c] \in SyncLabel /\ back[c] = "spend"

BacklogInv ==
    ~conf.selftest /\ crossed = "no" =>
        /\ pending <= Cap
        /\ \A c \in Core : Spending(c) => q[c] \in 1..pending

\* The chipset core's step fits what is left of its budget.
BudgetInv == Spending("chip") => q["chip"] <= budget

\* What the owner's sync has read and published is what Rigel asserts: nobody
\* else changes the level under it.
SyncCurrent(c) ==
    /\ pc[c] \in {"sync_level", "sync_gate"} => ipl[c] = level
    /\ At(c, "sync_gate") => published = level

CurrentInv ==
    /\ ~arrived =>
        /\ SyncCurrent("cpu")
        /\ pc["cpu"] \notin {"mmio_owner", "irq_init", "sync_ask", "sync_level"}
           => published = level
        /\ At("cpu", "irq_init") => level = 0
    /\ arrived /\ ~conf.selftest /\ crossed = "no" =>
        /\ SyncCurrent("chip")
        /\ At("chip", "spend") => published = level

IInv == TypeOK /\ LockInv /\ ArrivalInv /\ FlushInv /\ GateInv
        /\ BacklogInv /\ BudgetInv /\ CurrentInv
=============================================================================
