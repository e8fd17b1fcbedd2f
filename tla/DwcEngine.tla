------------------------------ MODULE DwcEngine ------------------------------
(***************************************************************************)
(* The transfer engine of dwc2emu68.device, the USB host driver:           *)
(* soc/usb/dwc2emu68/dwc2emu68_transfer.c, with the interrupt top half and *)
(* the drain of dwc2emu68_controller.c and the unit task of                *)
(* dwc2emu68_unit.c.                                                       *)
(*                                                                         *)
(* The unit task owns every queue and every channel.  The top half         *)
(* preempts it wherever the controller's gate is open; it closes the gate, *)
(* takes the status of the channels that raised an interrupt, advances     *)
(* split transactions, and leaves the rest to the task, which opens the    *)
(* gate again when it has drained.  The controller, the devices, the       *)
(* client and timer.device are external.                                   *)
(***************************************************************************)
EXTENDS Integers, Sequences, FiniteSets, Functions

CONSTANTS
    Req,          \* the client's requests
    Kind,         \* "control", "bulk" or "int"
    Endpoint,     \* device, endpoint number and direction of each
    Hub,          \* whose translator each needs (split_needed), NoHub for none
    Chunks,       \* armings the data of each takes
    NoHub, NoReq,
    Channels,     \* host_channels
    RetryLimit,   \* DWC2_RETRY_LIMIT
    XactLimit,    \* DWC2_XACT_ERROR_LIMIT
    NyetLimit,    \* DWC2_SPLIT_NYET_LIMIT
    Silence,      \* passes of the watchdog before a channel is given up
    Pace,         \* microframes before a complete-split, by kind
    Interval,     \* frames between two polls of an interrupt endpoint
    MaxUses,      \* bound: how often the client begins each request
    MaxAborts,    \* bound: how many requests the client aborts
    MaxFaults,    \* bound: how often a device answers other than by completing
    LateIrq       \* bound: may the task read a status before its interrupt is taken?

Chan == 1..Channels

ASSUME RequestAssumption ==
    /\ NoReq \notin Req
    /\ Kind \in [Req -> {"control", "bulk", "int"}]
    /\ Chunks \in [Req -> Nat]
ASSUME LimitAssumption ==
    /\ Channels \in Nat \ {0} /\ Interval \in Nat \ {0} /\ Silence \in Nat \ {0}
    /\ RetryLimit \in Nat /\ XactLimit \in Nat \ {0} /\ NyetLimit \in Nat
    /\ Pace \in [{"control", "bulk", "int"} -> Nat]
    /\ MaxUses \in Nat /\ MaxAborts \in Nat /\ MaxFaults \in Nat /\ LateIrq \in BOOLEAN

VARIABLES
    out, uses,      \* requests begun and not replied, how often each was begun
    faults,         \* how often a device has not completed what it was asked
    aborted,        \* iouh_DriverPrivate2: AbortIO was called
    port, queue, parked, \* the task's port, transfer_queue, periodic_queue
    due,            \* frames until each parked request's turn
    chan,           \* struct DWC2Channel, with iouh_Actual of its request in chunks
    pacing,         \* split_pacing
    hw,             \* each channel's registers
    sof,            \* GINTMSK.SOF
    gate,           \* GAHBCFG.GLBLINTRMSK
    irq, flagged,   \* irq_pending, channels_pending
    sig,            \* signals of the task
    timer,          \* the unit's one timer request
    watchdog_active,
    task,           \* where the unit task is, and its locals
    stolen          \* history: the watchdog and the top half handled one status

clientVars == <<out, uses, aborted>>
queueVars  == <<port, queue, parked, due>>
chanVars   == <<chan, pacing, hw>>
irqVars    == <<gate, irq, flagged>>
timerVars  == <<timer, watchdog_active>>
history    == <<faults, stolen>>
vars == <<clientVars, queueVars, chanVars, sof, irqVars, sig, timerVars, task,
          history>>

-----------------------------------------------------------------------------
Bit   == {"done", "halt", "nak", "nyet", "ack", "stall", "xact"}
Stage == {"none", "setup", "data", "status", "int", "bulk"}
Split == {"none", "start", "complete"}

FreeChan == [request |-> NoReq, stage |-> "none", split |-> "none", nyets |-> 0,
             delay |-> 0, retries |-> 0, xact |-> 0, ticks |-> 0, pending |-> {},
             actual |-> 0]

\* ena is HCCHAR.CHENA, int HCINT, moved what HCTSIZ says was transferred;
\* history: fin, whether what was armed last has completed on the wire.
IdleHw == [ena |-> FALSE, int |-> {}, moved |-> "none", fin |-> FALSE]

Busy       == {c \in Chan : chan[c].request # NoReq}
Free       == Chan \ Busy
First(S)   == CHOOSE c \in S : \A d \in S : c <= d
InFlight   == {chan[c].request : c \in Busy}
Waiting    == Range(port) \cup Range(queue) \cup Range(parked)

\* Where a list has its first entry that is in S, and the list without entry i.
FirstAt(s, S) == CHOOSE i \in 1..Len(s) :
                   s[i] \in S /\ \A j \in 1..Len(s) : s[j] \in S => i <= j
Without(s, i) == SubSeq(s, 1, i - 1) \o SubSeq(s, i + 1, Len(s))

At(label)   == task.pc = label
Goto(label) == task' = [task EXCEPT !.pc = label]
OnlyTask    == UNCHANGED <<clientVars, queueVars, chanVars, sof, irqVars, sig,
                           timerVars, history>>

Init ==
    /\ out = {} /\ uses = [r \in Req |-> 0] /\ aborted = {}
    /\ port = <<>> /\ queue = <<>> /\ parked = <<>>
    /\ due = [r \in Req |-> 0]
    /\ chan = [c \in Chan |-> FreeChan] /\ pacing = {}
    /\ hw = [c \in Chan |-> IdleHw]
    /\ sof = FALSE
    /\ gate = TRUE /\ irq = {} /\ flagged = {}
    /\ sig = {} /\ timer = "idle" /\ watchdog_active = FALSE
    /\ task = [pc |-> "wait", woken |-> FALSE, irq |-> {}, work |-> {},
               status |-> {}, after |-> "arm", back |-> "reopen"]
    /\ stolen = FALSE /\ faults = 0

-----------------------------------------------------------------------------
(* The client, the bus and the clock.                                      *)

\* The clients' priority is below the unit task's, on its processor: they run
\* while it waits for a signal, for the watchdog's timer or for a delay.
Blocked == \/ At("wait") /\ sig = {}
           \/ At("timer") /\ task.woken /\ watchdog_active /\ timer = "sent"
           \/ At("delay")

\* BeginIO leaves DriverPrivate2 as the last AbortIO left it.
BeginIO(r) ==
    /\ Blocked /\ r \notin out /\ uses[r] < MaxUses
    /\ out' = out \cup {r} /\ uses' = [uses EXCEPT ![r] = @ + 1]
    /\ port' = Append(port, r) /\ sig' = sig \cup {"port"}
    /\ UNCHANGED <<aborted, queue, parked, due, chanVars, sof, irqVars,
                   timerVars, task, history>>

AbortIO(r) ==
    /\ Blocked /\ r \in out \ aborted /\ Cardinality(aborted) < MaxAborts
    /\ aborted' = aborted \cup {r} /\ sig' = sig \cup {"port"}
    /\ UNCHANGED <<out, uses, queueVars, chanVars, sof, irqVars, timerVars,
                   task, history>>

\* What a transaction may end in.  A NAK outside a split leaves the channel
\* enabled, and the core goes on asking by itself.
Raise(c, bits, on, moved, fin) ==
    hw' = [hw EXCEPT ![c] = [ena |-> on, int |-> @.int \cup bits,
                             moved |-> moved, fin |-> fin]]

Complete(c) ==
    \E moved \in {"short", "full"} :
        /\ moved = "short" => chan[c].stage \in {"data", "bulk"}
        /\ Raise(c, {"done", "halt"}, FALSE, moved, TRUE)

Refuse(c) ==
    LET end(bits) == Raise(c, bits, FALSE, hw[c].moved, FALSE) IN
    \/ end({"halt"}) \/ end({"xact", "halt"})
    \/ chan[c].split # "start" /\ chan[c].stage # "setup" /\ end({"stall", "halt"})
    \/ chan[c].split = "none" /\ chan[c].stage # "setup"
         /\ Raise(c, {"nak"}, TRUE, hw[c].moved, FALSE)
    \/ chan[c].split = "complete" /\ (end({"nyet", "halt"}) \/ end({"nak", "halt"}))

OnWire(c) == c \in Busy /\ hw[c].ena
WireUnchanged == UNCHANGED <<clientVars, queueVars, chan, pacing, sof, irqVars,
                             sig, timerVars, task, stolen>>
Answer(c) == OnWire(c) /\ Complete(c) /\ WireUnchanged /\ UNCHANGED faults
\* A translator takes a start-split, a device one packet of several.
Accept(c) == /\ OnWire(c)
             /\ \/ /\ chan[c].split = "start"
                   /\ Raise(c, {"ack", "halt"}, FALSE, hw[c].moved, FALSE)
                \/ /\ chan[c].split = "none"
                   /\ Raise(c, {"ack"}, TRUE, hw[c].moved, FALSE)
             /\ WireUnchanged /\ UNCHANGED faults
Hesitate(c) == /\ OnWire(c) /\ faults < MaxFaults /\ faults' = faults + 1
               /\ Refuse(c) /\ WireUnchanged

\* A frame passes; the promotion of parked requests takes less than one.
Frame ==
    /\ ~At("promote") /\ \E r \in Range(parked) : due[r] > 0
    /\ due' = [r \in Req |-> IF r \in Range(parked) /\ due[r] > 0
                               THEN due[r] - 1 ELSE due[r]]
    /\ UNCHANGED <<clientVars, port, queue, parked, chanVars, sof, irqVars, sig,
                   timerVars, task, history>>

Expire ==
    /\ timer = "sent" /\ timer' = "replied" /\ sig' = sig \cup {"timer"}
    /\ UNCHANGED <<clientVars, queueVars, chanVars, sof, irqVars,
                   watchdog_active, task, history>>

-----------------------------------------------------------------------------
(* The interrupt top half: controller_irq.                                 *)

\* split_arm_complete, split_schedule_complete
IssueComplete(ch) == [ch EXCEPT !.split = "complete", !.ticks = 0, !.delay = 0]
Enabled(h)        == [h EXCEPT !.ena = TRUE, !.int = {}]
PaceOf(c)         == Pace[Kind[chan[c].request]]

\* dwc2_transfer_split_irq: does the sequencer claim status of channel c?
Accepted(c, status) == /\ chan[c].split = "start"
                       /\ "ack" \in status /\ "done" \notin status
NotYet(c, status)   == /\ chan[c].split = "complete"
                       /\ "nyet" \in status /\ "done" \notin status
Claimed(c, status)  == \/ Accepted(c, status)
                       \/ NotYet(c, status) /\ chan[c].nyets < NyetLimit

TakenChan(c, status) ==
    LET nyets == IF Accepted(c, status) THEN 0
                 ELSE IF NotYet(c, status) THEN chan[c].nyets + 1
                 ELSE chan[c].nyets
        ch == [chan[c] EXCEPT !.nyets = nyets]
    IN  IF ~Claimed(c, status) THEN [ch EXCEPT !.pending = @ \cup status]
        ELSE IF PaceOf(c) = 0 THEN IssueComplete(ch)
        ELSE [ch EXCEPT !.split = "complete", !.ticks = 0, !.delay = PaceOf(c)]

\* The channels that raise an interrupt: HAINTMSK has those with a request,
\* HCINTMSK the handshakes of a split only.
Unmasked(c) == IF chan[c].split = "none" THEN Bit \ {"ack", "nyet"} ELSE Bit
Raised == {c \in Busy : hw[c].int \cap Unmasked(c) # {}}

\* dwc2_transfer_split_sof: those counted down, and those issued now.
Paced(starts)  == IF starts THEN {c \in pacing : chan[c].delay > 0} ELSE {}
Issued(starts) == {c \in Paced(starts) : chan[c].delay = 1}

\* The task is woken for a frame something parked waits for, and for channels.
Active(starts) ==
    (IF starts /\ \E r \in Range(parked) : due[r] = 0 THEN {"sof"} ELSE {})
      \cup (IF Raised # {} THEN {"hch"} ELSE {})

\* starts: a start of frame is latched, which one soon is whenever it is unmasked.
TopHalf(starts) ==
    /\ gate /\ (starts => sof) /\ (starts \/ Raised # {})
    /\ LET claimed == {c \in Raised : Claimed(c, hw[c].int)}
           now     == {c \in claimed : PaceOf(c) = 0}
           issued  == Issued(starts)
       IN
         /\ chan' = [c \in Chan |->
                IF c \in Raised THEN TakenChan(c, hw[c].int)
                ELSE IF c \in issued THEN IssueComplete(chan[c])
                ELSE IF c \in Paced(starts) THEN [chan[c] EXCEPT !.delay = @ - 1]
                ELSE chan[c]]
         /\ hw' = [c \in Chan |->
                IF c \in issued \cup now THEN Enabled(hw[c])
                ELSE IF c \in Raised THEN [hw[c] EXCEPT !.int = {}] ELSE hw[c]]
         /\ pacing' = ((IF starts THEN Paced(starts) \ issued ELSE pacing)
                         \cup claimed) \ now
         /\ flagged' = flagged \cup (Raised \ claimed)
         /\ stolen' = (stolen \/ (At("recover") /\ task.status # {}
                                  /\ First(task.work) \in Raised))
    /\ gate' = (Active(starts) = {})
    /\ irq' = irq \cup Active(starts)
    /\ sig' = IF Active(starts) = {} THEN sig ELSE sig \cup {"port"}
    /\ UNCHANGED <<clientVars, queueVars, sof, timerVars, task, faults>>

-----------------------------------------------------------------------------
(* Channels, in the unit task.                                             *)

\* arm, behind arm_setup, arm_control_data, arm_status, arm_bulk, arm_interrupt
Armed(ch, stage) ==
    [ch EXCEPT !.stage = stage, !.nyets = 0, !.ticks = 0,
               !.split = IF Hub[ch.request] = NoHub THEN "none" ELSE "start"]
ArmedHw == [IdleHw EXCEPT !.ena = TRUE]

Arm(c, ch, stage) ==
    /\ chan' = [chan EXCEPT ![c] = Armed(ch, stage)]
    /\ hw' = [hw EXCEPT ![c] = ArmedHw]
    /\ UNCHANGED pacing

FirstStage(r) == CASE Kind[r] = "control" -> "setup"
                   [] Kind[r] = "int" -> "int" [] OTHER -> "bulk"

\* channel_release.  A split is scrubbed; any other channel may stay enabled.
Release(c) ==
    /\ chan' = [chan EXCEPT ![c] = FreeChan]
    /\ pacing' = pacing \ {c}
    /\ hw' = [hw EXCEPT ![c] =
                [IdleHw EXCEPT !.ena = hw[c].ena /\ chan[c].split = "none"]]

SofWantedOnce ==   \* mutant: a paced complete-split is forgotten
    \E r \in Range(parked') : due'[r] <= 1
SofWanted == pacing' # {} \/ \E r \in Range(parked') : due'[r] <= 1
UpdateSof == sof' = SofWanted

MayArmOverEndpoint(r) ==   \* mutant: the endpoint may be busy
    /\ Kind[r] = "control" => Busy = {}
    /\ \A c \in Busy : Hub[r] = NoHub \/ Hub[chan[c].request] # Hub[r]
\* can_arm_now: endpoint_in_flight, tt_in_flight
MayArm(r) ==
    /\ Kind[r] = "control" => Busy = {}
    /\ \A c \in Busy : /\ Endpoint[chan[c].request] # Endpoint[r]
                       /\ Hub[r] = NoHub \/ Hub[chan[c].request] # Hub[r]

SubmitOn(c, r) ==
    Arm(c, [chan[c] EXCEPT !.request = r, !.retries = 0, !.xact = 0, !.actual = 0],
        FirstStage(r))

\* dwc2_transfer_submit
Submit(r) ==
    \/ /\ MayArm(r) /\ Free # {} /\ SubmitOn(First(Free), r) /\ UNCHANGED queue
    \/ /\ ~MayArm(r) \/ Free = {}
       /\ queue' = Append(queue, r) /\ UNCHANGED chanVars

\* What follows a channel in the loop the task is in, and start_next before it.
Proceed(c, loop) ==
    task' = [task EXCEPT !.pc = loop, !.work = {d \in @ : d > c}, !.status = {}]
ThenNext(c, loop) ==
    task' = [task EXCEPT !.pc = "next", !.back = loop,
                         !.work = {d \in @ : d > c}, !.status = {}]

FinishAlone(c, loop) ==   \* mutant: start_next is not called
    /\ out' = out \ {chan[c].request} /\ Release(c) /\ Proceed(c, loop)
    /\ UNCHANGED <<uses, aborted, queueVars, sof, irqVars, sig, timerVars, history>>
Finish(c, loop) ==
    /\ out' = out \ {chan[c].request} /\ Release(c) /\ ThenNext(c, loop)
    /\ UNCHANGED <<uses, aborted, queueVars, sof, irqVars, sig,
                   timerVars, history>>

AbortKeepsPending(c, loop) ==   \* mutant: what the interrupt took is kept
    /\ out' = out \ {chan[c].request} /\ ThenNext(c, loop)
    /\ chan' = [chan EXCEPT ![c] = [FreeChan EXCEPT !.pending = chan[c].pending]]
    /\ pacing' = pacing \ {c} /\ hw' = [hw EXCEPT ![c] = IdleHw]
    /\ UNCHANGED <<uses, aborted, queueVars, sof, irqVars, sig, timerVars, history>>
AbortChannel(c, loop) ==
    /\ out' = out \ {chan[c].request} /\ ThenNext(c, loop)
    /\ chan' = [chan EXCEPT ![c] = FreeChan] /\ pacing' = pacing \ {c}
    /\ hw' = [hw EXCEPT ![c] = IdleHw]
    /\ UNCHANGED <<uses, aborted, queueVars, sof, irqVars, sig,
                   timerVars, history>>

OnlyChannel == UNCHANGED <<clientVars, queueVars, sof, irqVars, sig, history>>

\* rearm_stage, with the channel's counters as ch has them
Rearm(c, ch, loop) ==
    /\ Arm(c, ch, ch.stage) /\ Proceed(c, loop) /\ OnlyChannel
    /\ UNCHANGED timerVars

\* retry: the channel is stopped, the task waits and the stage is armed again.
Retry(c, loop) ==
    \/ chan[c].retries >= RetryLimit /\ Finish(c, loop)
    \/ /\ chan[c].retries < RetryLimit
       /\ chan' = [chan EXCEPT ![c].retries = @ + 1]
       /\ hw' = [hw EXCEPT ![c] = IdleHw]
       /\ task' = [task EXCEPT !.pc = "delay", !.back = loop]
       /\ OnlyChannel /\ UNCHANGED <<pacing, timerVars>>

\* It waits on the request the watchdog may have in flight: what becomes of the
\* first use is timer.device's; it is answered too, or the second takes its place.
Delay ==
    /\ At("delay")
    /\ LET c == First(task.work) IN
         /\ Arm(c, chan[c], chan[c].stage)
         /\ task' = [task EXCEPT !.pc = task.back, !.back = "reopen",
                                 !.work = @ \ {c}, !.status = {}]
    /\ \/ UNCHANGED <<timer, sig>>
       \/ timer # "idle" /\ timer' = "idle" /\ sig' = sig \ {"timer"}
    /\ UNCHANGED <<clientVars, queueVars, sof, irqVars, watchdog_active, history>>

ParkHolding(c, loop) ==   \* mutant: the channel is not released
    /\ parked' = Append(parked, chan[c].request)
    /\ due' = [due EXCEPT ![chan[c].request] = Interval]
    /\ UNCHANGED chanVars /\ UpdateSof /\ ThenNext(c, loop)
    /\ UNCHANGED <<clientVars, port, queue, irqVars, sig, timerVars, history>>
\* park_periodic
Park(c, loop) ==
    /\ parked' = Append(parked, chan[c].request)
    /\ due' = [due EXCEPT ![chan[c].request] = Interval]
    /\ Release(c) /\ UpdateSof /\ ThenNext(c, loop)
    /\ UNCHANGED <<clientVars, port, queue, irqVars, sig, timerVars, history>>

\* split_restart
SplitRestart(c, loop) ==
    /\ chan' = [chan EXCEPT ![c] = [@ EXCEPT !.split = "start", !.nyets = 0, !.ticks = 0]]
    /\ hw' = [hw EXCEPT ![c] = Enabled(@)]
    /\ Proceed(c, loop) /\ OnlyChannel /\ UNCHANGED <<pacing, timerVars>>

-----------------------------------------------------------------------------
(* channel_irq.                                                            *)

Glitch(c, status) == "xact" \in status /\ chan[c].xact + 1 < XactLimit

Outcome(c, status) ==
    LET ch == chan[c]
        unready == IF ch.split = "complete" THEN {"nyet", "nak"} ELSE {"nak"}
    IN  CASE Glitch(c, status) -> "glitch"
          [] ~Glitch(c, status) /\ status \cap {"stall", "xact"} # {} -> "failed"
          [] status \cap {"stall", "xact", "done"} = {"done"} -> "done"
          [] OTHER ->
               IF status \cap unready # {}
                 THEN IF ch.stage = "int" THEN "park"
                      ELSE IF ch.split = "complete" THEN "restart" ELSE "retry"
                 ELSE IF "halt" \in status THEN "retry" ELSE "nothing"

\* device_ended_transfer: a packet that is short, or nothing at all.
Ended(c) == hw[c].moved # "full"

Got(c)   == chan[c].actual + (IF hw[c].moved = "full" THEN 1 ELSE 0)
MoreThanAsked(c) ==   \* mutant: a full buffer is not the end
    Got(c) <= Chunks[chan[c].request] /\ ~Ended(c)
More(c)  == Got(c) < Chunks[chan[c].request] /\ ~Ended(c)

\* What XFERCOMP means depends on the stage.
Completed(c, loop) ==
    LET ch   == [chan[c] EXCEPT !.retries = 0, !.xact = 0]
        more == [ch EXCEPT !.actual = Got(c)]
        arm(now, stage) == Arm(c, now, stage) /\ Proceed(c, loop) /\ OnlyChannel
                        /\ UNCHANGED timerVars
    IN  \/ /\ ch.stage = "setup"
           /\ arm(ch, IF Chunks[ch.request] # 0 THEN "data" ELSE "status")
        \/ ch.stage = "data" /\ arm(more, IF More(c) THEN "data" ELSE "status")
        \/ ch.stage = "bulk" /\ More(c) /\ arm(more, "bulk")
        \/ ch.stage = "bulk" /\ ~More(c) /\ Finish(c, loop)
        \/ ch.stage \in {"status", "int"} /\ Finish(c, loop)

ChannelIrq(c, status, loop) ==
    LET outcome == Outcome(c, status) IN
    \/ outcome = "glitch" /\ Rearm(c, [chan[c] EXCEPT !.xact = @ + 1], loop)
    \/ outcome = "failed" /\ Finish(c, loop)
    \/ outcome = "done" /\ Completed(c, loop)
    \/ outcome = "park" /\ Park(c, loop)
    \/ outcome = "restart" /\ SplitRestart(c, loop)
    \/ outcome = "retry" /\ Retry(c, loop)
    \/ /\ outcome = "nothing" /\ Proceed(c, loop) /\ OnlyChannel
       /\ hw' = [hw EXCEPT ![c].int = @ \ status]
       /\ UNCHANGED <<chan, pacing, timerVars>>

-----------------------------------------------------------------------------
(* The unit task: dwc2_controller_drain_irq, called from three places.     *)

Wait ==
    /\ At("wait") /\ sig # {} /\ sig' = {}
    /\ task' = [task EXCEPT !.pc = "drain", !.woken = "timer" \in sig,
                            !.after = "timer"]
    /\ UNCHANGED <<clientVars, queueVars, chanVars, sof, irqVars, timerVars, history>>

Drain ==
    /\ At("drain")
    /\ \/ irq = {} /\ Goto(task.after) /\ UNCHANGED <<irq, flagged>>
       \/ /\ irq # {} /\ irq' = {}
          /\ IF "hch" \in irq
               THEN /\ flagged' = {}
                    /\ task' = [task EXCEPT !.pc = "irqs", !.irq = irq, !.work = flagged]
               ELSE /\ UNCHANGED flagged
                    /\ task' = [task EXCEPT !.pc = "sof"]
    /\ UNCHANGED <<clientVars, queueVars, chanVars, sof, gate, sig, timerVars, history>>

\* dwc2_transfer_irq, one channel at a time
TakePending ==
    /\ At("irqs")
    /\ \/ /\ task.work = {}
          /\ task' = [task EXCEPT !.pc = IF "sof" \in task.irq THEN "sof" ELSE "reopen",
                                  !.irq = {}]
          /\ UNCHANGED chan
       \/ /\ task.work # {}
          /\ LET c == First(task.work) IN
               /\ chan' = [chan EXCEPT ![c].pending = {}]
               /\ IF chan[c].pending = {} THEN Proceed(c, "irqs")
                  ELSE task' = [task EXCEPT !.pc = "handle", !.status = chan[c].pending]
    /\ UNCHANGED <<clientVars, queueVars, pacing, hw, sof, irqVars, sig,
                   timerVars, history>>

Handle == At("handle") /\ ChannelIrq(First(task.work), task.status, "irqs")

\* dwc2_transfer_service: reply what was aborted while parked, one by one.
Service(label, next) ==
    /\ At(label) /\ UNCHANGED chanVars
    /\ \/ /\ Range(parked) \cap aborted # {}
          /\ LET i == FirstAt(parked, aborted) IN
               /\ parked' = Without(parked, i) /\ out' = out \ {parked[i]}
               /\ due' = [due EXCEPT ![parked[i]] = 0]
          /\ UNCHANGED <<sof, task>>
       \/ /\ Range(parked) \cap aborted = {}
          /\ UNCHANGED <<out, parked, due>> /\ UpdateSof /\ Goto(next)
    /\ UNCHANGED <<uses, aborted, port, queue, irqVars, sig, timerVars, history>>

\* dwc2_transfer_sof: those that are due, in their order, while there is a channel.
Due == {r \in Range(parked) : due[r] = 0}
Promote ==
    /\ At("promote")
    /\ \/ /\ Due # {} /\ Free # {}
          /\ LET i == FirstAt(parked, Due) IN
               parked' = Without(parked, i) /\ Submit(parked[i])
          /\ UNCHANGED <<due, sof, task>>
       \/ /\ Due = {} \/ Free = {}
          /\ UNCHANGED <<chanVars, queue, parked, due>>
          /\ UpdateSof /\ Goto("reopen")
    /\ UNCHANGED <<clientVars, port, irqVars, sig, timerVars, history>>

Reopen ==
    /\ At("reopen") /\ Goto(task.after) /\ gate' = TRUE
    /\ UNCHANGED <<clientVars, queueVars, chanVars, sof, irq, flagged, sig,
                   timerVars, history>>

\* start_next
HeadAborted == queue # <<>> /\ Head(queue) \in aborted
HeadArmable == queue # <<>> /\ MayArm(Head(queue))
StartNext ==
    /\ At("next")
    /\ \/ /\ Free # {} /\ HeadAborted
          /\ queue' = Tail(queue) /\ out' = out \ {Head(queue)}
          /\ UNCHANGED <<chanVars, task>>
       \/ /\ Free # {} /\ ~HeadAborted /\ HeadArmable
          /\ queue' = Tail(queue) /\ SubmitOn(First(Free), Head(queue))
          /\ UNCHANGED <<out, task>>
       \/ /\ Free = {} \/ ~(HeadAborted \/ HeadArmable)
          /\ task' = [task EXCEPT !.pc = task.back, !.back = "reopen"]
          /\ UNCHANGED <<queue, out, chanVars>>
    /\ UNCHANGED <<uses, aborted, port, parked, due, sof, irqVars, sig,
                   timerVars, history>>

-----------------------------------------------------------------------------
(* The unit task: the watchdog, aborts and new requests.                   *)

ToAborts == [task EXCEPT !.pc = "aborts", !.work = Chan, !.after = "arm"]

\* WaitIO: a request that is not in flight has been replied.
CollectTimer ==
    /\ At("timer")
    /\ IF task.woken /\ watchdog_active
         THEN /\ timer # "sent" /\ timer' = "idle" /\ watchdog_active' = FALSE
              /\ task' = [task EXCEPT !.pc = "drain", !.after = "watch", !.woken = FALSE]
         ELSE /\ task' = [ToAborts EXCEPT !.woken = FALSE]
              /\ UNCHANGED <<timer, watchdog_active>>
    /\ UNCHANGED <<clientVars, queueVars, chanVars, sof, irqVars, sig, history>>

\* dwc2_transfer_watchdog
Watch ==
    /\ At("watch")
    /\ task' = IF gate THEN [task EXCEPT !.pc = "look", !.work = Chan]
                       ELSE ToAborts
    /\ OnlyTask

Look ==
    /\ At("look") /\ (LateIrq \/ ~gate \/ Raised = {})
    /\ LET left == task.work \cap Busy IN
       task' = IF left = {} THEN ToAborts
               ELSE [task EXCEPT !.pc = "recover", !.work = left,
                                 !.status = hw[First(left)].int]
    /\ OnlyTask

Recover ==
    /\ At("recover")
    /\ LET c == First(task.work) IN
       \/ task.status # {} /\ ChannelIrq(c, task.status, "look")
       \/ /\ task.status = {} /\ chan[c].ticks + 1 >= Silence
          /\ AbortChannel(c, "look")
       \/ /\ task.status = {} /\ chan[c].ticks + 1 < Silence
          /\ chan' = [chan EXCEPT ![c].ticks = @ + 1]
          /\ Proceed(c, "look") /\ OnlyChannel
          /\ UNCHANGED <<pacing, hw, timerVars>>

\* dwc2_transfer_abort_all
Aborts ==
    /\ At("aborts")
    /\ LET left == {c \in task.work \cap Busy : chan[c].request \in aborted} IN
       \/ left # {} /\ AbortChannel(First(left), "aborts")
       \/ /\ left = {} /\ task' = [task EXCEPT !.pc = "messages", !.work = {}]
          /\ OnlyTask

\* GetMsg and process_request, until the port is empty
Messages ==
    /\ At("messages")
    /\ \/ /\ port = <<>> /\ Goto("service")
          /\ UNCHANGED <<out, chanVars, port, queue>>
       \/ /\ port # <<>> /\ Head(port) \in aborted
          /\ port' = Tail(port) /\ out' = out \ {Head(port)}
          /\ UNCHANGED <<chanVars, queue, task>>
       \/ /\ port # <<>> /\ Head(port) \notin aborted
          /\ port' = Tail(port) /\ Submit(Head(port)) /\ UNCHANGED <<out, task>>
    /\ UNCHANGED <<uses, aborted, parked, due, sof, irqVars, sig, timerVars, history>>

ServiceOnce  == Service("service", "drain")
ServiceInSof == Service("sof", "promote")

\* Is there anything the watchdog must come back for?
BusyOnly   == Busy # {}   \* mutant: a parked request owns no channel
Unfinished == Busy # {} \/ parked # <<>>

\* dwc2_watchdog_arm
ArmWatchdog ==
    /\ At("arm") /\ Goto("wait")
    /\ IF Unfinished /\ ~watchdog_active
         THEN watchdog_active' = TRUE /\ timer' = "sent"
         ELSE UNCHANGED <<watchdog_active, timer>>
    /\ UNCHANGED <<clientVars, queueVars, chanVars, sof, irqVars, sig, history>>

-----------------------------------------------------------------------------
UnitTask == \/ Wait \/ Drain \/ TakePending \/ Handle \/ Delay \/ ServiceInSof \/ Promote
            \/ Reopen \/ StartNext \/ CollectTimer \/ Watch \/ Look \/ Recover
            \/ Aborts \/ Messages \/ ServiceOnce \/ ArmWatchdog

Next == \/ \E r \in Req : BeginIO(r) \/ AbortIO(r)
        \/ \E c \in Chan : Answer(c) \/ Accept(c) \/ Hesitate(c)
        \/ Frame \/ Expire \/ UnitTask
        \/ \E starts \in BOOLEAN : TopHalf(starts)

\* The task runs, interrupts are taken, timers expire and frames start (WF); a
\* device that is asked again and again answers for good (SF).
Fairness == /\ WF_vars(UnitTask) /\ WF_vars(Expire)
            /\ \A starts \in BOOLEAN : WF_vars(TopHalf(starts))
            /\ WF_vars(Frame) /\ \A c \in Chan : SF_vars(Answer(c))

Spec == Init /\ [][Next]_vars /\ Fairness

-----------------------------------------------------------------------------
(* Properties.                                                             *)

Loop  == {"irqs", "look", "aborts"}
Label == Loop \cup {"wait", "drain", "handle", "delay", "next", "sof", "promote",
                    "reopen", "timer", "watch", "recover", "messages", "service", "arm"}

Channel == [request : Req \cup {NoReq}, stage : Stage, split : Split, nyets : Nat,
            delay : Nat, retries : 0..RetryLimit, xact : 0..XactLimit,
            ticks : 0..Silence, pending : SUBSET Bit, actual : Nat]
HostChannel == [ena : BOOLEAN, int : SUBSET Bit, moved : {"none", "short", "full"},
                fin : BOOLEAN]
Task == [pc : Label, woken : BOOLEAN, irq : SUBSET {"sof", "hch"},
         work : SUBSET Chan, status : SUBSET Bit,
         after : {"timer", "watch", "arm"}, back : {"reopen"} \cup Loop]

Types ==
    /\ out \subseteq Req /\ aborted \subseteq Req /\ uses \in [Req -> 0..MaxUses]
    /\ port \in Seq(Req) /\ queue \in Seq(Req) /\ parked \in Seq(Req)
    /\ due \in [Req -> 0..Interval]
    /\ chan \in [Chan -> Channel] /\ hw \in [Chan -> HostChannel] /\ pacing \subseteq Chan
    /\ sof \in BOOLEAN /\ gate \in BOOLEAN
    /\ irq \subseteq {"sof", "hch"} /\ flagged \subseteq Chan
    /\ sig \subseteq {"port", "timer"} /\ timer \in {"idle", "sent", "replied"}
    /\ watchdog_active \in BOOLEAN /\ faults \in 0..MaxFaults /\ stolen \in BOOLEAN
    /\ task \in Task

\* No transfer moves more than was asked for, and no split is answered "not yet"
\* more often than the limit, but for the status that was handled twice.
NotOverfull == \A c \in Busy : chan[c].actual <= Chunks[chan[c].request]
NotOverlong == ~stolen => \A c \in Chan : chan[c].nyets <= NyetLimit + 1

TypeOK == Types /\ NotOverfull /\ NotOverlong

\* "A transfer has exactly one owner.  It is on a queue, or it owns a channel.
\* Never both, never neither" (AI_context/dwc2emu68.md, invariant 1).
OneOwner ==
    /\ out = Waiting \cup InFlight
    /\ Len(port) + Len(queue) + Len(parked) + Cardinality(Busy) = Cardinality(out)

\* The engine keeps what UsbRequests promises the client and the bus.
Requests == INSTANCE UsbRequests WITH
              state <- [r \in Req |-> IF r \in InFlight THEN "active"
                                      ELSE IF r \in out THEN "waiting" ELSE "client"]
Implements == Requests!Spec

\* A completion waiting to be applied to a channel is that of what the channel
\* was armed with last ("which transfer is this interrupt about", transfer.c),
\* unless the watchdog and the top half handled one status between them.
CompletionIsOurs ==
    ~stolen => \A c \in Busy : "done" \in hw[c].int \cup chan[c].pending => hw[c].fin

\* A channel has one owner, and a completion that is taken is its owner's.
OwnCompletion == OneOwner /\ CompletionIsOurs

\* A retry's wait took the answer the watchdog was waiting for: dwc2_watchdog_arm
\* will not send the request again, and the watchdog never runs.
Lost == watchdog_active /\ timer = "idle"

\* The task never sleeps in front of work: with no signal set the gate is open,
\* nothing has been taken and not handled, the interrupt that counts a paced
\* split down can come, a queued request has a channel to wait for, and the
\* watchdog's timer runs while anything is in flight or parked.
SleepsSafely ==
    At("wait") /\ sig = {} =>
        /\ gate /\ irq = {} /\ flagged = {} /\ port = <<>>
        /\ pacing # {} => sof
        /\ queue # <<>> => Busy # {}
        /\ Busy # {} \/ parked # <<>> => timer = "sent" \/ Lost

-----------------------------------------------------------------------------
(* The inductive invariant behind TypeOK, OwnCompletion, SleepsSafely and     *)
(* Implements, in the parts the proofs speak of.                           *)

\* A request is in one place, once.
Places ==
    /\ IsInjective(port) /\ IsInjective(queue) /\ IsInjective(parked)
    /\ Range(port) \cap Range(queue) = {} /\ Range(port) \cap Range(parked) = {}
    /\ Range(queue) \cap Range(parked) = {} /\ Waiting \cap InFlight = {}
    /\ \A c, d \in Busy : chan[c].request = chan[d].request => c = d
    /\ out = Waiting \cup InFlight

\* A busy channel is at a stage of its request's kind, and goes by splits if a
\* translator is in between.
Fits(ch) == LET r == ch.request IN
    /\ Kind[r] = "control" => ch.stage \in {"setup", "data", "status"}
    /\ Kind[r] = "int" => ch.stage = "int"
    /\ Kind[r] = "bulk" => ch.stage = "bulk"
    /\ ch.stage = "setup" => ch.actual = 0
    /\ ch.stage = "data" => ch.actual < Chunks[r]
    /\ (ch.split = "none") <=> (Hub[r] = NoHub)

\* A free channel is as channel_release leaves it; only splits are paced.
Stages ==
    /\ \A c \in Free : chan[c] = FreeChan
    /\ \A c \in pacing : c \in Busy /\ chan[c].split # "none"
    /\ \A c \in Busy : Fits(chan[c])

\* What the task works on is busy, and what phase it is in.
Walk ==
    /\ At("handle") \/ At("recover") \/ At("delay") =>
         task.work # {} /\ First(task.work) \in Busy
    /\ At("handle") => task.status # {} /\ chan[First(task.work)].pending = {}
    /\ At("recover") => task.work \subseteq Busy
    /\ At("next") => task.back \in Loop
    /\ At("delay") => task.back \in {"irqs", "look"}
    /\ task.pc \in {"wait", "arm", "service", "aborts", "messages"} => task.after = "arm"
    /\ At("timer") => task.after = "timer"
    /\ task.pc \in {"watch", "look", "recover"} => task.after = "watch"
    /\ At("next") \/ At("delay") =>
         /\ task.back = "look" => task.after = "watch"
         /\ task.back = "aborts" => task.after = "arm"

Draining == \/ task.pc \in {"irqs", "handle", "sof", "promote", "reopen"}
            \/ (At("next") \/ At("delay")) /\ task.back = "irqs"

\* The gate is closed from the top half's leaving something to the task until
\* the task has drained it, and at no other time.
Gated ==
    /\ ~gate <=> (irq # {} \/ Draining)
    /\ Draining => irq = {}
    /\ flagged # {} => "hch" \in irq
    /\ irq # {} => "port" \in sig \/ At("drain")

\* Nothing more comes from channel c until it is armed again.
Quiet(c) == ~hw[c].ena /\ hw[c].int = {} /\ c \notin pacing

\* What ends a transaction ends it, and only a completion says that it completed.
Raises(c) ==
    /\ "done" \in hw[c].int => ~hw[c].ena /\ hw[c].fin
    /\ "nyet" \in hw[c].int => ~hw[c].ena
    /\ hw[c].int # {} /\ chan[c].split # "none" => ~hw[c].ena

\* What was taken of channel c and what paces it belong to its last arming.
Pends(c) ==
    /\ c \in pacing => ~hw[c].ena /\ hw[c].int = {} /\ chan[c].pending = {}
    /\ chan[c].pending # {} /\ chan[c].split # "none" => Quiet(c)
    /\ "done" \in chan[c].pending => Quiet(c) /\ hw[c].fin
    /\ chan[c].nyets <= NyetLimit \/ (Quiet(c) /\ chan[c].nyets = NyetLimit + 1)

\* Channel c may be armed: nothing of its last arming can still be taken for it.
Ready(c) == /\ c \notin pacing /\ "done" \notin chan[c].pending
            /\ chan[c].pending # {} => chan[c].split = "none"

\* The channel the task works on is ready once its status has been read.
Works(c) ==
    /\ At("handle") => Ready(c)
    /\ At("recover") => task.status \subseteq hw[c].int
    /\ At("delay") => Quiet(c) /\ Ready(c)

\* While the watchdog and the top half never shared a status.
Wire == /\ \A c \in Busy : Raises(c)
        /\ ~stolen => (\A c \in Busy : Pends(c)) /\ Works(First(task.work))

\* The rest of this round of the task comes to the port.
ComesToPort == \/ task.after \in {"timer", "watch"} \/ At("aborts") \/ At("messages")
               \/ (At("next") /\ task.back = "aborts")

\* What the task may not sleep in front of, at every step of its round.
Wakeful ==
    /\ port # <<>> => "port" \in sig \/ ComesToPort
    /\ pacing # {} /\ ~sof => "port" \in sig \/ ComesToPort \/ At("service")
    /\ queue # <<>> => Busy # {} \/ At("next")
    /\ timer # "idle" => watchdog_active
    /\ timer = "replied" => "timer" \in sig \/ (task.woken /\ task.after = "timer")
    /\ task.woken => task.after = "timer"
    /\ At("wait") /\ (Busy # {} \/ parked # <<>>) => watchdog_active

IInv == TypeOK /\ Places /\ Stages /\ Walk /\ Gated /\ Wire /\ Wakeful

\* Every transfer that is not a standing poll is replied, and so is every
\* aborted one, unless the watchdog's request was lost.
Answered ==
    \A r \in Req : (r \in out /\ (Kind[r] # "int" \/ r \in aborted)) ~> (r \notin out \/ Lost)

\* A parked request is polled again when its interval is over, though nothing but
\* the watchdog may come back for it, unless the watchdog's request was lost.
Polled == \A r \in {q \in Req : Kind[q] = "int"} :
            r \in Range(parked) ~> (r \notin Range(parked) \/ Lost)
=============================================================================
