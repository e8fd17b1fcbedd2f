----------------------------- MODULE PlatformIrq -----------------------------
(***************************************************************************)
(* How a host interrupt and a chipset interrupt reach AROS:                *)
(* aros/arch/m68k-emu68/platform/platform.c (the trampoline shared by the  *)
(* seven autovectors), bcm283x/interrupt_controller.c (what is pending and *)
(* for how long it is drained) and kernel/cli.c, sti.c (what Disable() is  *)
(* on this port).                                                          *)
(*                                                                         *)
(* The m68k runs one thing at a time: the task, or the handler of the      *)
(* highest level entered, which is what SR's mask says.  Around it the     *)
(* devices assert their lines, Rigel raises requests, the ARM vector       *)
(* latches INTF.ARM and Emu68 enters the autovector: these are external,   *)
(* modelled from docs/irq.md and patches/emu68/0010, 0014 and 0015.        *)
(***************************************************************************)
EXTENDS Integers, FiniteSets

CONSTANTS
    Irq,          \* sources of the ARM interrupt controller
    Bank,         \* the bank of each: 0, 1, or 2 for the ARM-side set
    Request,      \* bits of Paula's INTREQ that may be raised
    RequestLevel, \* the level each asks for
    DrainRounds   \* INTC_DRAIN_ROUNDS

Level == 1..6
Host  == 6        \* INTF.ARM is always level 6

ASSUME IrqAssumption     == Bank \in [Irq -> 0..2]
ASSUME RequestAssumption == RequestLevel \in [Request -> Level]
ASSUME DrainAssumption   == DrainRounds \in Nat \ {0}

VARIABLES
    asserted,   \* sources whose line is up
    enabled,    \* sources unmasked by KrnAddIRQHandler
    intreq,     \* Paula's requests
    intena,     \* those INTENA lets through, none while INTEN is clear
    arm,        \* INTF.ARM, the latch
    masked,     \* PSTATE.I: the ARM takes no interrupt
    sr,         \* the mask in the m68k's SR
    at,         \* where the handler of each level is, "out" when not entered
    ret,        \* the mask its RTE restores
    was,        \* its was_platform
    round, left, \* its pass of intc_dispatch, and what is left of the snapshot
    disabled    \* the task is between Disable() and Enable()

lineVars  == <<asserted, enabled>>
paulaVars == <<intreq, intena>>
armVars   == <<arm, masked>>
frameVars == <<ret, was, round, left>>
vars == <<lineVars, paulaVars, armVars, sr, at, frameVars, disabled>>

-----------------------------------------------------------------------------
Label == {"out", "ack", "read", "scan", "paula", "exit"}

Active  == {l \in Level : at[l] # "out"}
InTask  == Active = {}

\* Is the m68k executing the handler of level l, at label?
Running(l, label) == sr = l /\ at[l] = label

Goto(l, label) == at' = [at EXCEPT ![l] = label]

\* What amiga_irq_get_ipl answers: the highest level let through.
Asked == {RequestLevel[b] : b \in intreq \cap intena}
Ipl   == IF Asked = {} THEN 0 ELSE CHOOSE l \in Asked : \A m \in Asked : m <= l

\* The level arbitration in Emu68's main loop.
Pending == IF arm THEN Host ELSE Ipl

Init ==
    /\ asserted = {} /\ enabled = {}
    /\ intreq = {} /\ intena = {}
    /\ arm = FALSE /\ masked = FALSE /\ sr = 0
    /\ at = [l \in Level |-> "out"]
    /\ ret = [l \in Level |-> 0]
    /\ was = [l \in Level |-> FALSE]
    /\ round = [l \in Level |-> 0]
    /\ left = [l \in Level |-> {}]
    /\ disabled = FALSE

-----------------------------------------------------------------------------
(* The hardware and Emu68.                                                 *)

Assert(i) ==
    /\ i \notin asserted /\ asserted' = asserted \cup {i}
    /\ UNCHANGED <<enabled, paulaVars, armVars, sr, at, frameVars, disabled>>

\* Rigel raises a request, or the task writes one into INTREQ.
Raise(b) ==
    /\ b \notin intreq /\ intreq' = intreq \cup {b}
    /\ UNCHANGED <<lineVars, intena, armVars, sr, at, frameVars, disabled>>

\* The IRQ vector: assert the latch and return with the interrupt masked.
HostVector ==
    /\ ~masked /\ asserted \cap enabled # {}
    /\ arm' = TRUE /\ masked' = TRUE
    /\ UNCHANGED <<lineVars, paulaVars, sr, at, frameVars, disabled>>

\* The main loop enters an autovector, which does not touch PSTATE.
Enter ==
    /\ Pending > sr
    /\ sr' = Pending
    /\ Goto(Pending, "ack")
    /\ ret' = [ret EXCEPT ![Pending] = sr]
    /\ UNCHANGED <<lineVars, paulaVars, armVars, was, round, left, disabled>>

\* Translated code that writes SR moves PSTATE.I with it.
WriteSREdge(mask) ==   \* mutant: reopens only when the mask comes down from 6
    sr' = mask /\ masked' = IF sr >= Host THEN mask >= Host ELSE masked
WriteSR(mask) == sr' = mask /\ masked' = (mask >= Host)

-----------------------------------------------------------------------------
(* The handler: Platform_Autovector.                                       *)

\* platform_host_irq_ack returns the word it wrote, not the one it read: bit
\* 29 has just been set in it.
AckedLatch == TRUE

Ack(l) ==
    /\ Running(l, "ack") /\ Goto(l, "read")
    /\ arm' = FALSE
    /\ was' = [was EXCEPT ![l] = AckedLatch]
    /\ UNCHANGED <<lineVars, paulaVars, masked, sr, ret, round, left, disabled>>

\* The pending banks, each masked with its enable register.
FirstBankOnly ==   \* mutant: "else if" between the banks
    {i \in asserted \cap enabled :
        \A j \in asserted \cap enabled : Bank[i] <= Bank[j]}
PendingAsserted == asserted   \* mutant: not masked with the enable registers
PendingSources == asserted \cap enabled

DrainedLate(l) == round[l] > DrainRounds   \* mutant: "<=" in the loop
Drained(l) == round[l] = DrainRounds

SameRound(l) == round[l]   \* mutant: "for (;;)"
NextRound(l) == round[l] + 1

\* One round of intc_dispatch takes a snapshot ...
Read(l) ==
    /\ Running(l, "read")
    /\ IF Drained(l) \/ PendingSources = {}
         THEN Goto(l, "paula") /\ UNCHANGED left
         ELSE Goto(l, "scan") /\ left' = [left EXCEPT ![l] = PendingSources]
    /\ UNCHANGED <<lineVars, paulaVars, armVars, sr, ret, was, round, disabled>>

\* ... and runs the handlers of what is in it, each of which acknowledges its
\* source at the device.  A source nobody unmasked has no handler.
Serve(l, i) ==
    /\ asserted' = IF i \in enabled THEN asserted \ {i} ELSE asserted
    /\ left' = [left EXCEPT ![l] = @ \ {i}]
    /\ IF left[l] = {i}
         THEN Goto(l, "read") /\ round' = [round EXCEPT ![l] = NextRound(l)]
         ELSE UNCHANGED <<at, round>>

Scan(l) ==
    /\ Running(l, "scan")
    /\ \E i \in left[l] : Serve(l, i)
    /\ UNCHANGED <<enabled, paulaVars, armVars, sr, ret, was, disabled>>

\* platform_paula_dispatch: acknowledge what is let through, SOFTINT excepted,
\* then run its servers, the software interrupt's clearing SOFTINT itself.
PaulaDispatch == intreq' = intreq \ intena

Paula(l) ==
    /\ Running(l, "paula") /\ Goto(l, "exit")
    /\ IF was[l] THEN UNCHANGED intreq ELSE PaulaDispatch
    /\ UNCHANGED <<lineVars, intena, armVars, sr, frameVars, disabled>>

\* ExitIntr ends in an RTE, which pops the frame.
Exit(l) ==
    /\ Running(l, "exit") /\ Goto(l, "out")
    /\ WriteSR(ret[l])
    /\ ret' = [ret EXCEPT ![l] = 0]
    /\ was' = [was EXCEPT ![l] = FALSE]
    /\ round' = [round EXCEPT ![l] = 0]
    /\ UNCHANGED <<lineVars, paulaVars, arm, left, disabled>>

-----------------------------------------------------------------------------
(* The task.                                                               *)

\* KrnAddIRQHandler and KrnRemIRQHandler through ictl_enable_irq.
EnableIrq(i) ==
    /\ InTask /\ i \notin enabled /\ enabled' = enabled \cup {i}
    /\ UNCHANGED <<asserted, paulaVars, armVars, sr, at, frameVars, disabled>>

DisableIrq(i) ==
    /\ InTask /\ i \in enabled /\ enabled' = enabled \ {i}
    /\ UNCHANGED <<asserted, paulaVars, armVars, sr, at, frameVars, disabled>>

\* A program lets a request through.
Intena(b) ==
    /\ InTask /\ b \notin intena /\ intena' = intena \cup {b}
    /\ UNCHANGED <<lineVars, intreq, armVars, sr, at, frameVars, disabled>>

\* Dispatch() raises the mask to 7 and the RTE into the task drops it.
RaiseSR ==
    /\ InTask /\ sr = 0 /\ WriteSR(7)
    /\ UNCHANGED <<lineVars, paulaVars, arm, at, frameVars, disabled>>

DropSR ==
    /\ InTask /\ sr = 7 /\ WriteSR(0)
    /\ UNCHANGED <<lineVars, paulaVars, arm, at, frameVars, disabled>>

\* KrnCli: the nesting counter is all there is to Disable().
KrnCli == UNCHANGED <<sr, armVars>>

Disable ==
    /\ InTask /\ sr = 0 /\ ~disabled /\ disabled' = TRUE
    /\ KrnCli
    /\ UNCHANGED <<lineVars, paulaVars, at, frameVars>>

Enable ==
    /\ InTask /\ sr = 0 /\ disabled /\ disabled' = FALSE
    /\ UNCHANGED <<lineVars, paulaVars, armVars, sr, at, frameVars>>

-----------------------------------------------------------------------------
Handler == \E l \in Level : Ack(l) \/ Read(l) \/ Scan(l) \/ Paula(l) \/ Exit(l)

Task == \/ \E i \in Irq : EnableIrq(i) \/ DisableIrq(i)
        \/ \E b \in Request : Intena(b)
        \/ RaiseSR \/ Disable \/ Enable

Next == \/ \E i \in Irq : Assert(i)
        \/ \E b \in Request : Raise(b)
        \/ HostVector \/ Enter \/ Handler \/ Task \/ DropSR

\* The ARM takes an interrupt as soon as it is unmasked, and Emu68 a level as
\* soon as a write of SR ends the translated block, however often the task
\* raises its mask (SF); translated code keeps executing, and Dispatch()
\* reaches its RTE (WF).
Fairness == /\ SF_vars(HostVector) /\ SF_vars(Enter)
            /\ WF_vars(Handler) /\ WF_vars(DropSR)

Spec == Init /\ [][Next]_vars /\ Fairness

-----------------------------------------------------------------------------
(* Properties.                                                             *)

TypeOK ==
    /\ asserted \subseteq Irq /\ enabled \subseteq Irq
    /\ intreq \subseteq Request /\ intena \subseteq Request
    /\ arm \in BOOLEAN /\ masked \in BOOLEAN /\ disabled \in BOOLEAN
    /\ sr \in 0..7
    /\ at \in [Level -> Label] /\ ret \in [Level -> 0..7]
    /\ was \in [Level -> BOOLEAN]
    /\ round \in [Level -> 0..DrainRounds] /\ left \in [Level -> SUBSET Irq]

\* The task never runs below level 6 with ARM interrupts masked and nothing
\* latched: docs/irq.md's machine that idles forever with no further host
\* interrupt, whatever the chipset's own levels did on the way.
NeverDeaf == masked /\ InTask /\ sr < Host => arm

\* The handler of level 6 only runs handlers of sources that are still
\* asserted and unmasked: what no driver registered is not ours to acknowledge
\* (interrupt_controller.c), and a served source is not served again.
SnapshotFresh == at[Host] = "scan" => left[Host] \subseteq asserted \cap enabled

\* However fast a source asserts again, the handler of level 6 returns.
HandlerReturns == at[Host] # "out" ~> at[Host] = "out"

\* Whatever the other sources do, an asserted source somebody unmasked is
\* served, or masked again.
SourceServed == \A i \in Irq : i \in asserted \cap enabled
                                  ~> i \notin asserted \cap enabled

\* "The chipset's level is a level: it re-enters, and re-entering is what the
\* autovector is for" (platform.c): a request that is let through is
\* acknowledged in the end.  The code violates it.
ChipsetServed == \A b \in Request : b \in intreq \cap intena
                                      ~> b \notin intreq \cap intena

\* "Disable()/Enable() around the shared sections is complete protection"
\* (vc4_v3d.c), "Disable() so the IRQ handler can't arm a channel"
\* (usb2otg_schedule.c): no handler runs inside a section of the task's.  The
\* code violates it.
DisableExcludesHandlers == disabled => \A l \in Level : ~Running(l, "scan")

-----------------------------------------------------------------------------
(* The inductive invariant; PlatformIrqProofs shows that it is one.        *)

\* Entries nest by level: the mask is that of the last one entered, and each
\* returns to the one below it or to the task.
NestInv ==
    /\ sr \in {0, 7} \cup Active
    /\ \A l \in Active : /\ l <= sr /\ sr # 7
                         /\ ret[l] < l /\ ret[l] \in {0} \cup Active
                         /\ \A m \in Active : m < l => m <= ret[l]

\* A snapshot is only taken while there is a round left.
RoundInv == \A l \in Level : at[l] = "scan" => round[l] < DrainRounds

\* Mask 7 keeps the ARM's interrupts out, and a task they are kept from has
\* one latched.
MaskInv ==
    /\ sr = 7 => masked
    /\ masked /\ InTask /\ sr = 0 => arm

IInv == TypeOK /\ NestInv /\ RoundInv /\ MaskInv /\ SnapshotFresh
=============================================================================
