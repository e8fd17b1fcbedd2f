------------------------------ MODULE PwmAudio ------------------------------
(***************************************************************************)
(* The AHI driver of the headphone jack: AHIsub_Start, AHIsub_Stop and     *)
(* AHIsub_FreeAudio in the task that plays, the slave process that mixes,  *)
(* the DMA engine that walks two control blocks for ever, its interrupt,   *)
(* and the PWM block, whose output is a DC level that must not jump.       *)
(*                                                                         *)
(* A buffer is one level and the number of the mix it holds; the length    *)
(* set with it and the cache maintenance are left out.  The engine fills   *)
(* the FIFO as soon as it runs.  A ramp is one step, inaudible if it       *)
(* starts at the level the pin has.                                        *)
(***************************************************************************)
EXTENDS Integers

CONSTANTS
  Rates,      \* mixing rates, each with a PWM range of its own
  Range,      \* the range AHIsub_Start picks for a rate
  MayFail,    \* allocations that may fail: "mix", "buf", "cb", "task", "signal"
  MixMod      \* bound: mixes are numbered modulo MixMod

VARIABLES
  pc, then,   \* the playing task, and where it goes on after AHIsub_Stop
  rate,       \* dd->samplerate, which sets dd->pwm_range
  held,       \* what the session has allocated
  slave,      \* the slave process
  slavetask,  \* dd->slavetask and slavesignal, as the interrupt sees them
  refill,     \* the slave's signal is pending
  ctrlC,      \* SIGBREAKF_CTRL_C is pending
  answered,   \* the master's signal is pending
  handler,    \* dd->irq_handle
  engine,     \* the DMA channel: running, control block, CS.INT
  buffer,     \* dmabuf[0] and dmabuf[1]
  mixes,      \* mixes made in this session
  fillbuf,    \* the buffer the slave fills
  bias,       \* RPiPWMBase: bias_up with the rate it stands for, or None
  pwm,        \* the block: PWEN, USEF, DAT and RNG
  clicked     \* the pin was moved other than by a ramp or by sound

session == <<rate, held, slavetask, handler>>
tasks   == <<slave, refill, ctrlC, answered, mixes, fillbuf>>
output  == <<bias, pwm, clicked>>
vars    == <<pc, then, session, tasks, engine, buffer, output>>

None    == 0
Silence == -1
Off     == [on |-> FALSE, cb |-> 0, int |-> FALSE]
Mid(r)  == Range[r] \div 2

-----------------------------------------------------------------------------
(* The pin                                                                 *)

(* What the pin has, as DAT over RNG; a disabled block drives it low and   *)
(* so does a FIFO that nobody feeds. *)
Pin(p, e) ==
  CASE ~p.on         -> [dat |-> 0, rng |-> 1]
    [] p.on /\ p.usef -> IF e.on THEN [dat |-> buffer[e.cb].level, rng |-> p.rng]
                         ELSE [dat |-> 0, rng |-> 1]
    [] OTHER         -> [dat |-> p.dat, rng |-> p.rng]

Same(a, b) == a.dat * b.rng = b.dat * a.rng

(* A step of the driver that is not a ramp leaves the pin where it is. *)
Set(p, e) ==
  /\ pwm' = p /\ engine' = e
  /\ clicked' = (clicked \/ ~Same(Pin(pwm, engine), Pin(p, e)))

pwm_ramp_dc(from, to) ==
  /\ pwm' = [pwm EXCEPT !.dat = to]
  /\ clicked' = (clicked \/ (pwm.on /\ ~Same(Pin(pwm, engine), [dat |-> from, rng |-> pwm.rng])))
  /\ UNCHANGED engine

(* pwm_init: both channels on the data register at 0 %. *)
pwm_init(r) == Set([on |-> TRUE, usef |-> FALSE, dat |-> 0, rng |-> Range[r]], engine)

(* pwm_rearm: range and data together, the FIFO emptied, the enables kept. *)
pwm_rearm(r) == Set([pwm EXCEPT !.rng = Range[r], !.dat = Mid(r)], engine)

pwm_stop == Set([pwm EXCEPT !.on = FALSE, !.usef = FALSE], engine)

pwm_fifo_enable == Set([pwm EXCEPT !.usef = TRUE], engine)

(* The level the engine is sending, from the buffer its SOURCE_AD is in. *)
dma_current_level == IF engine.on THEN buffer[engine.cb].level ELSE Mid(rate)

pwm_dat_hold == Set([pwm EXCEPT !.usef = FALSE, !.dat = dma_current_level], engine)

dma_setup == Set(pwm, [Off EXCEPT !.on = TRUE])
dma_stop  == Set(pwm, Off)

-----------------------------------------------------------------------------
(* The playing task                                                        *)

Goto(from, to) == pc = from /\ pc' = to /\ then' = then

Go(p) == pc' = p /\ then' = "idle"

(* AHI calls Stop before FreeAudio, and AHIsub_Start calls it on entry. *)
AHIsub_Start ==
  /\ pc = "idle" /\ held # {"closed"}
  /\ pc' = "stop" /\ then' = "start"
  /\ UNCHANGED <<session, tasks, engine, buffer, output>>

StopOrFree ==
  /\ pc = "idle" /\ held # {"closed"}
  /\ pc' = "stop" /\ then' \in {"idle", "free"}
  /\ UNCHANGED <<session, tasks, engine, buffer, output>>

AHIsub_AllocAudio ==
  /\ pc = "idle" /\ held = {"closed"}
  /\ held' = {}
  /\ UNCHANGED <<pc, then, rate, slavetask, handler, tasks, engine, buffer, output>>

(* AHIsub_Stop: nothing to do without buffers. *)
StopNothing ==
  /\ pc = "stop" /\ "buf" \notin held
  /\ Go(then)
  /\ UNCHANGED <<session, tasks, engine, buffer, output>>

StopSlave ==
  /\ "buf" \in held
  /\ Goto("stop", IF slavetask THEN "dying" ELSE "stop_irq")
  /\ ctrlC' = IF slavetask THEN TRUE ELSE ctrlC
  /\ UNCHANGED <<session, slave, refill, answered, mixes, fillbuf, engine, buffer, output>>

NotAwaited == TRUE   \* mutant: the slave's last words are not waited for
Dead       == answered
SlaveGone ==
  /\ Dead
  /\ Goto("dying", "stop_irq")
  /\ answered' = FALSE
  /\ UNCHANGED <<session, slave, refill, ctrlC, mixes, fillbuf, engine, buffer, output>>

RemoveHandler ==
  /\ Goto("stop_irq", "hold")
  /\ handler' = FALSE
  /\ UNCHANGED <<rate, held, slavetask, tasks, engine, buffer, output>>

(* Off the FIFO before the engine stops. *)
StopEngineFirst == pc = "hold" /\ dma_stop   \* mutant: the other order
TakeOver        == pc = "hold" /\ pwm_dat_hold
Hold ==
  /\ TakeOver
  /\ Goto("hold", "halt")
  /\ UNCHANGED <<session, tasks, buffer, bias>>

Halt ==
  /\ dma_stop
  /\ Goto("halt", "settle")
  /\ UNCHANGED <<session, tasks, buffer, bias>>

Settle ==
  /\ pc = "settle" /\ Go(then)
  /\ pwm_ramp_dc(pwm.dat, Mid(rate))
  /\ held' = {}
  /\ UNCHANGED <<rate, slavetask, handler, tasks, buffer, bias>>

(* AHIsub_Start: the mix buffer, two DMA buffers, the control blocks; an   *)
(* error returns with what there is. *)
Allocate ==
  \E r \in Rates :
    /\ pc = "start"
    /\ rate' = r
    /\ \/ /\ held' = {"mix", "buf", "cb"}
          /\ Go("bias")
       \/ /\ "mix" \in MayFail /\ held' = {} /\ Go("idle")
       \/ /\ "buf" \in MayFail /\ held' \in {{"mix"}, {"mix", "buf"}} /\ Go("idle")
       \/ /\ "cb" \in MayFail /\ held' = {"mix", "buf"} /\ Go("idle")
    /\ buffer' = [b \in {0, 1} |-> [level |-> 0, mix |-> Silence]]
    /\ UNCHANGED <<slavetask, handler, tasks, engine, output>>

(* A standing bias of another rate is taken down, ramped first. *)
OtherRate == bias # None /\ bias # rate
LowerBias ==
  /\ pc = "bias" /\ OtherRate /\ pwm.dat # 0
  /\ pwm_ramp_dc(Mid(bias), 0)
  /\ UNCHANGED <<pc, then, session, tasks, buffer, bias>>

DropBias ==
  /\ pc = "bias" /\ OtherRate /\ pwm.dat = 0
  /\ pwm_stop /\ bias' = None
  /\ UNCHANGED <<pc, then, session, tasks, buffer>>

RaiseBias ==
  /\ bias = None /\ pwm_init(rate)
  /\ Goto("bias", "ramp")
  /\ UNCHANGED <<session, tasks, buffer, bias>>

RampUp ==
  /\ Goto("ramp", "create")
  /\ pwm_ramp_dc(0, Mid(rate)) /\ bias' = rate
  /\ UNCHANGED <<session, tasks, buffer>>

Rearm ==
  /\ bias # None /\ ~OtherRate /\ pwm_rearm(rate)
  /\ Goto("bias", "create")
  /\ UNCHANGED <<session, tasks, buffer, bias>>

(* CreateNewProc and tc_UserData under Forbid. *)
Create ==
  /\ pc = "create"
  /\ \/ slavetask' = TRUE /\ slave' = "born" /\ Go("await")
     \/ "task" \in MayFail /\ Go("idle") /\ UNCHANGED <<slavetask, slave>>
  /\ mixes' = 0 /\ refill' = FALSE /\ ctrlC' = FALSE
  /\ UNCHANGED <<rate, held, handler, answered, fillbuf, engine, buffer, output>>

Await ==
  /\ answered /\ answered' = FALSE
  /\ Goto("await", IF slavetask THEN "arm" ELSE "idle")
  /\ UNCHANGED <<session, slave, refill, ctrlC, mixes, fillbuf, engine, buffer, output>>

(* The handler, then the engine, then the channels onto the FIFO. *)
AddHandler ==
  /\ Goto("arm", "run") /\ handler' = TRUE
  /\ UNCHANGED <<rate, held, slavetask, tasks, engine, buffer, output>>

Run ==
  /\ Goto("run", "fifo") /\ dma_setup
  /\ UNCHANGED <<session, tasks, buffer, bias>>

Play ==
  /\ pc = "fifo" /\ Go("idle") /\ pwm_fifo_enable
  /\ UNCHANGED <<session, tasks, buffer, bias>>

(* AHIsub_FreeAudio: where the bias comes down. *)
FreeRamp ==
  /\ pc = "free" /\ bias # None
  /\ Goto("free", "unbias")
  /\ pwm_ramp_dc(Mid(bias), 0)
  /\ UNCHANGED <<session, tasks, buffer, bias>>

FreeStop ==
  /\ Goto("unbias", "free") /\ pwm_stop /\ bias' = None
  /\ UNCHANGED <<session, tasks, buffer>>

FreeAudio ==
  /\ pc = "free" /\ bias = None /\ Go("idle")
  /\ held' = {"closed"}
  /\ UNCHANGED <<rate, slavetask, handler, tasks, engine, buffer, output>>

-----------------------------------------------------------------------------
(* The slave process                                                       *)

Born ==
  /\ slave = "born"
  /\ \/ /\ slave' = "wait"
        /\ buffer' = [b \in {0, 1} |-> [level |-> Mid(rate), mix |-> Silence]]
        /\ answered' = TRUE
     \/ "signal" \in MayFail /\ slave' = "end" /\ UNCHANGED <<buffer, answered>>
  /\ UNCHANGED <<pc, then, session, refill, ctrlC, mixes, fillbuf, engine, output>>

Woken ==
  /\ slave = "wait" /\ (refill \/ ctrlC)
  /\ slave' = IF ctrlC THEN "end" ELSE "mix"
  /\ refill' = FALSE /\ ctrlC' = FALSE
  /\ UNCHANGED <<pc, then, session, answered, mixes, fillbuf, engine, buffer, output>>

(* PlayerFunc and MixerFunc, then CBADDR says which buffer is being read. *)
OnePlaying == engine.cb   \* mutant
OtherOne   == 1 - engine.cb
Mix ==
  /\ slave = "mix" /\ slave' = "fill"
  /\ fillbuf' = OtherOne
  /\ mixes' = (mixes + 1) % MixMod
  /\ UNCHANGED <<pc, then, session, refill, ctrlC, answered, engine, buffer, output>>

(* convert_mix_to_pwm: a sample scaled to the range. *)
convert_mix_to_pwm(s) == (s * Range[rate]) \div 4

Fill ==
  /\ slave = "fill" /\ slave' = "wait"
  /\ \E s \in 0..3 : buffer' =
       [buffer EXCEPT ![fillbuf] = [level |-> convert_mix_to_pwm(s),
                                    mix |-> (mixes + MixMod - 1) % MixMod]]
  /\ UNCHANGED <<pc, then, session, refill, ctrlC, answered, mixes, fillbuf, engine, output>>

End ==
  /\ slave = "end" /\ slave' = "none"
  /\ slavetask' = FALSE /\ answered' = TRUE
  /\ UNCHANGED <<pc, then, rate, held, handler, refill, ctrlC, mixes, fillbuf, engine, buffer, output>>

-----------------------------------------------------------------------------
(* The engine and its interrupt                                            *)

(* The FIFO drains, and so the engine moves on, only while the channels    *)
(* use it.  The driver assumes that a refill is over within one buffer     *)
(* period. *)
Prompt == ~engine.int /\ (slave = "none" \/ (slave = "wait" /\ ~refill))

Complete ==
  /\ engine.on /\ pwm.usef /\ Prompt
  /\ engine' = [engine EXCEPT !.cb = 1 - @, !.int = TRUE]
  /\ UNCHANGED <<pc, then, session, tasks, buffer, output>>

dma_irq_handler ==
  /\ engine.int
  /\ engine' = [engine EXCEPT !.int = FALSE]
  /\ refill' = (refill \/ (handler /\ slavetask))
  /\ UNCHANGED <<pc, then, session, slave, ctrlC, answered, mixes, fillbuf, buffer, output>>

-----------------------------------------------------------------------------
Init ==
  /\ pc = "idle" /\ then = "idle" /\ rate \in Rates /\ held = {"closed"}
  /\ slave = "none" /\ slavetask = FALSE
  /\ refill = FALSE /\ ctrlC = FALSE /\ answered = FALSE /\ handler = FALSE
  /\ engine = Off /\ mixes = 0 /\ fillbuf = 0
  /\ buffer = [b \in {0, 1} |-> [level |-> 0, mix |-> Silence]]
  /\ bias = None /\ clicked = FALSE
  /\ pwm = [on |-> FALSE, usef |-> FALSE, dat |-> 0, rng |-> 1]

Stop == StopNothing \/ StopSlave \/ SlaveGone \/ RemoveHandler \/ Hold \/ Halt \/ Settle
Start == Allocate \/ LowerBias \/ DropBias \/ RaiseBias \/ RampUp \/ Rearm
           \/ Create \/ Await \/ AddHandler \/ Run \/ Play
Free == FreeRamp \/ FreeStop \/ FreeAudio
Slave == Born \/ Woken \/ Mix \/ Fill \/ End

Next ==
  \/ AHIsub_AllocAudio \/ AHIsub_Start \/ StopOrFree
  \/ Stop \/ Start \/ Free
  \/ Slave \/ Complete \/ dma_irq_handler

Spec == Init /\ [][Next]_vars

-----------------------------------------------------------------------------
TypeOK ==
  /\ rate \in Rates /\ bias \in Rates \union {None}
  /\ held = {"closed"} \/ held \subseteq {"mix", "buf", "cb"}
  /\ engine.cb \in {0, 1}
  /\ \A b \in {0, 1} : buffer[b].level \in 0..Range[rate]

(* Nothing of the driver moves the pin but a ramp that starts where the    *)
(* pin is: not the FIFO taken up or left, not PWEN, not a change of rate.  *)
NoClick == ~clicked

(* The engine never reads a buffer the slave is writing, and neither of    *)
(* them outlives the buffers. *)
BuffersLive ==
  /\ engine.on \/ slave # "none" => "buf" \in held
  /\ slave = "fill" => ~(engine.on /\ engine.cb = fillbuf)

(* While the slave lives the engine plays every mix once and in order,     *)
(* after the silence of both buffers. *)
Follows(a, b) == b.mix = (IF a.mix = Silence THEN 0 ELSE (a.mix + 1) % MixMod)
                   \/ (a.mix = Silence /\ b.mix = Silence)
InOrder ==
  (Complete /\ slavetask /\ ~ctrlC) =>
     Follows(buffer[engine.cb], buffer[engine'.cb])
PlaysInOrder == [][InOrder]_vars
=============================================================================
