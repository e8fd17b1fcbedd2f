----------------------------- MODULE HdmiAudio -----------------------------
(***************************************************************************)
(* The AHI driver of the HDMI port: AHIsub_Start and AHIsub_Stop in the    *)
(* task that plays, the slave that mixes, the DMA engine with its two      *)
(* control blocks, the MAI block that turns words into audio packets and   *)
(* the packet RAM, whose infoframe slot the hardware reads on its own.     *)
(*                                                                         *)
(* A buffer is the number of the mix in it and whether the length of its   *)
(* control block is that mix's.  Samples, cache maintenance and the fixed  *)
(* format registers are left out; the rate arithmetic is kept.             *)
(***************************************************************************)
EXTENDS Integers

CONSTANTS
  Rates,     \* of frequencies[]
  Outputs,   \* the ports of the board
  MayFail,   \* allocations that may fail: "mix", "buf", "cb", "task", "signal"
  Sticks,    \* whether the slot may stay busy for longer than the driver waits
  MixMod     \* bound: mixes are numbered modulo MixMod

VARIABLES
  pc, then,   \* the playing task, and where it goes on after AHIsub_Stop
  rate, soc,  \* dd->samplerate, dd->soc
  held,       \* what the session has allocated
  slave, slavetask, refill, ctrlC, answered, handler,
  engine,     \* the DMA channel: running, control block, CS.INT, the port it feeds
  buffer, mixes, fillbuf,
  mai,        \* per port: MAI_CTL.ENABLE, the rate and divider set, N, and CTS
  slot,       \* per port: the infoframe is enabled, being sent, its rate
  torn,       \* an infoframe was written while it was being sent
  pixel       \* the pixel clock in kHz

session == <<rate, soc, held, slavetask, handler>>
tasks   == <<slave, refill, ctrlC, answered, mixes, fillbuf>>
output  == <<mai, slot, torn>>
vars    == <<pc, then, session, tasks, engine, buffer, output, pixel>>

Silence == -1
Off     == [on |-> FALSE, cb |-> 0, int |-> FALSE, feeds |-> 0]
Blank   == [mix |-> Silence, whole |-> TRUE]

-----------------------------------------------------------------------------
(* Clocks                                                                  *)

N48 == 904481

ByThousands(r) == (N48 * 48) \div (r \div 1000)   \* mutant: kHz, truncated
Divider(r)     == (N48 * 480) \div (r \div 100)

srate_to_n(r) ==
  CASE r = 44100 -> 6272 [] r = 48000 -> 6144 [] OTHER -> (128 * r) \div 1000

(* CTS of a rate at a pixel clock, with the divisions of the code.         *)
Cts(khz, r) == (khz * (srate_to_n(r) \div 128) * 10) \div (r \div 100)

(* The pixel clock the firmware tells, or 1080p60. *)
Told == {pixel, 148500}

-----------------------------------------------------------------------------
(* The playing task                                                        *)

Goto(from, to) == pc = from /\ pc' = to /\ then' = then
Go(p) == pc' = p /\ then' = "idle"

AHIsub_AllocAudio ==
  /\ pc = "idle" /\ held = {"closed"}
  /\ held' = {} /\ soc' \in Outputs /\ \A o \in Outputs : soc' <= o
  /\ UNCHANGED <<pc, then, rate, slavetask, handler, tasks, engine, buffer, output, pixel>>

(* AHI stops before it frees, and AHIsub_Start stops first.                *)
Ask ==
  /\ pc = "idle" /\ held # {"closed"}
  /\ pc' = "stop" /\ then' \in {"idle", "start", "free"}
  /\ UNCHANGED <<session, tasks, engine, buffer, output, pixel>>

AHIsub_FreeAudio ==
  /\ pc = "free" /\ Go("idle")
  /\ held' = {"closed"}
  /\ UNCHANGED <<rate, soc, slavetask, handler, tasks, engine, buffer, output, pixel>>

(* AHIC_Output, at any time.                                               *)
AHIsub_HardwareControl ==
  /\ pc = "idle" /\ held # {"closed"}
  /\ soc' \in Outputs
  /\ UNCHANGED <<pc, then, rate, held, slavetask, handler, tasks, engine, buffer, output, pixel>>

StopSlave ==
  /\ Goto("stop", IF slavetask THEN "dying" ELSE "stop_irq")
  /\ ctrlC' = IF slavetask THEN TRUE ELSE ctrlC
  /\ UNCHANGED <<session, slave, refill, answered, mixes, fillbuf, engine, buffer, output, pixel>>

NotAwaited == TRUE   \* mutant: the slave's last words are not waited for
Dead       == answered
SlaveGone ==
  /\ Dead
  /\ Goto("dying", "stop_irq")
  /\ answered' = FALSE
  /\ UNCHANGED <<session, slave, refill, ctrlC, mixes, fillbuf, engine, buffer, output, pixel>>

RemoveHandler ==
  /\ Goto("stop_irq", "halt")
  /\ handler' = FALSE
  /\ UNCHANGED <<rate, soc, held, slavetask, tasks, engine, buffer, output, pixel>>

dma_stop ==
  /\ Goto("halt", "mai_stop") /\ engine' = Off
  /\ UNCHANGED <<session, tasks, buffer, output, pixel>>

KeptOn(o)  == mai[o]                       \* mutant: MAI_CTL is not written
Stopped(o) == [mai[o] EXCEPT !.on = FALSE]
hdmi_mai_stop ==
  /\ pc = "mai_stop" /\ Go(then)
  /\ mai' = [mai EXCEPT ![soc] = Stopped(soc)]
  /\ held' = {}
  /\ UNCHANGED <<rate, soc, slavetask, handler, tasks, engine, buffer, slot, torn, pixel>>

(* The mix buffer, two DMA buffers, the control blocks.                    *)
Allocate ==
  \E r \in Rates :
    /\ pc = "start"
    /\ rate' = r
    /\ \/ held' = {"mix", "buf", "cb"} /\ Go("reset")
       \/ "mix" \in MayFail /\ held' = {} /\ Go("idle")
       \/ "buf" \in MayFail /\ held' \in {{"mix"}, {"mix", "buf"}} /\ Go("idle")
       \/ "cb" \in MayFail /\ held' = {"mix", "buf"} /\ Go("idle")
    /\ buffer' = [b \in {0, 1} |-> Blank]
    /\ UNCHANGED <<soc, slavetask, handler, tasks, engine, output, pixel>>

(* hdmi_mai_init, up to the infoframe: reset, format, divider, N; CTS is   *)
(* computed only if the register still reads zero. *)
hdmi_mai_init ==
  /\ Goto("reset", "info")
  /\ \E khz \in Told : mai' = [mai EXCEPT ![soc] =
       [on |-> FALSE, rate |-> rate, divider |-> Divider(rate), n |-> srate_to_n(rate),
        cts |-> IF mai[soc].cts = 0 THEN Cts(khz, rate) ELSE mai[soc].cts]]
  /\ UNCHANGED <<session, tasks, engine, buffer, slot, torn, pixel>>

(* hdmi_write_audio_infoframe: the slot is disabled, waited for, written.  *)
DisableSlot ==
  /\ Goto("info", "slot")
  /\ slot' = [slot EXCEPT ![soc].on = FALSE]
  /\ UNCHANGED <<session, tasks, engine, buffer, mai, torn, pixel>>

AtOnce == TRUE   \* mutant: the status bit is not waited for
Idle   == ~slot[soc].sending \/ Sticks
WriteInfoframe ==
  /\ Idle
  /\ Goto("slot", "enable")
  /\ torn' = (torn \/ slot[soc].sending)
  /\ slot' = [slot EXCEPT ![soc].on = TRUE, ![soc].rate = rate]
  /\ UNCHANGED <<session, tasks, engine, buffer, mai, pixel>>

EnableMai ==
  /\ Goto("enable", "create")
  /\ mai' = [mai EXCEPT ![soc].on = TRUE]
  /\ UNCHANGED <<session, tasks, engine, buffer, slot, torn, pixel>>

(* The control blocks name the port; then the slave, under Forbid.         *)
Create ==
  /\ pc = "create"
  /\ \/ slavetask' = TRUE /\ slave' = "born" /\ Go("await")
     \/ "task" \in MayFail /\ Go("idle") /\ UNCHANGED <<slavetask, slave>>
  /\ engine' = [engine EXCEPT !.feeds = soc]
  /\ mixes' = 0 /\ refill' = FALSE /\ ctrlC' = FALSE
  /\ UNCHANGED <<rate, soc, held, handler, answered, fillbuf, buffer, output, pixel>>

Await ==
  /\ answered /\ answered' = FALSE
  /\ Goto("await", IF slavetask THEN "arm" ELSE "idle")
  /\ UNCHANGED <<session, slave, refill, ctrlC, mixes, fillbuf, engine, buffer, output, pixel>>

AddHandler ==
  /\ Goto("arm", "run") /\ handler' = TRUE
  /\ UNCHANGED <<rate, soc, held, slavetask, tasks, engine, buffer, output, pixel>>

dma_setup ==
  /\ pc = "run" /\ Go("idle")
  /\ engine' = [Off EXCEPT !.on = TRUE, !.feeds = engine.feeds]
  /\ UNCHANGED <<session, tasks, buffer, output, pixel>>

-----------------------------------------------------------------------------
(* The slave process                                                       *)

Born ==
  /\ slave = "born"
  /\ \/ /\ slave' = "wait" /\ answered' = TRUE
        /\ buffer' = [b \in {0, 1} |-> Blank]
     \/ "signal" \in MayFail /\ slave' = "end" /\ UNCHANGED <<buffer, answered>>
  /\ UNCHANGED <<pc, then, session, refill, ctrlC, mixes, fillbuf, engine, output, pixel>>

Woken ==
  /\ slave = "wait" /\ (refill \/ ctrlC)
  /\ slave' = IF ctrlC THEN "end" ELSE "mix"
  /\ refill' = FALSE /\ ctrlC' = FALSE
  /\ UNCHANGED <<pc, then, session, answered, mixes, fillbuf, engine, buffer, output, pixel>>

OnePlaying == engine.cb   \* mutant
OtherOne   == 1 - engine.cb
Mix ==
  /\ slave = "mix" /\ slave' = "encode"
  /\ fillbuf' = OtherOne
  /\ mixes' = (mixes + 1) % MixMod
  /\ UNCHANGED <<pc, then, session, refill, ctrlC, answered, engine, buffer, output, pixel>>

(* The samples, then the length in the control block.                      *)
Encode ==
  /\ slave = "encode" /\ slave' = "length"
  /\ buffer' = [buffer EXCEPT ![fillbuf] =
       [mix |-> (mixes + MixMod - 1) % MixMod, whole |-> FALSE]]
  /\ UNCHANGED <<pc, then, session, refill, ctrlC, answered, mixes, fillbuf, engine, output, pixel>>

Length ==
  /\ slave = "length" /\ slave' = "wait"
  /\ buffer' = [buffer EXCEPT ![fillbuf].whole = TRUE]
  /\ UNCHANGED <<pc, then, session, refill, ctrlC, answered, mixes, fillbuf, engine, output, pixel>>

End ==
  /\ slave = "end" /\ slave' = "none"
  /\ slavetask' = FALSE /\ answered' = TRUE
  /\ UNCHANGED <<pc, then, rate, soc, held, handler, refill, ctrlC, mixes, fillbuf, engine, buffer, output, pixel>>

-----------------------------------------------------------------------------
(* The hardware                                                            *)

(* The MAI takes words while it is enabled; a refill is over within one    *)
(* buffer period. *)
Prompt == ~engine.int /\ (slave = "none" \/ (slave = "wait" /\ ~refill))

Complete ==
  /\ engine.on /\ mai[engine.feeds].on /\ Prompt
  /\ engine' = [engine EXCEPT !.cb = 1 - @, !.int = TRUE]
  /\ UNCHANGED <<pc, then, session, tasks, buffer, output, pixel>>

dma_irq_handler ==
  /\ engine.int
  /\ engine' = [engine EXCEPT !.int = FALSE]
  /\ refill' = (refill \/ (handler /\ slavetask))
  /\ UNCHANGED <<pc, then, session, slave, ctrlC, answered, mixes, fillbuf, buffer, output, pixel>>

(* An enabled slot is sent once a frame; a disabled one finishes.          *)
Send ==
  \E o \in Outputs :
    /\ slot[o].on \/ slot[o].sending
    /\ slot' = [slot EXCEPT ![o].sending = ~@]
    /\ UNCHANGED <<pc, then, session, tasks, engine, buffer, mai, torn, pixel>>

-----------------------------------------------------------------------------
Init ==
  /\ pc = "idle" /\ then = "idle" /\ held = {"closed"}
  /\ rate \in Rates /\ soc \in Outputs /\ \A o \in Outputs : soc <= o
  /\ slave = "none" /\ slavetask = FALSE
  /\ refill = FALSE /\ ctrlC = FALSE /\ answered = FALSE /\ handler = FALSE
  /\ engine = Off /\ mixes = 0 /\ fillbuf = 0
  /\ buffer = [b \in {0, 1} |-> Blank]
  /\ mai = [o \in Outputs |-> [on |-> FALSE, rate |-> 0, divider |-> 0, n |-> 0, cts |-> 0]]
  /\ slot = [o \in Outputs |-> [on |-> FALSE, sending |-> FALSE, rate |-> 0]]
  /\ torn = FALSE /\ pixel \in {74250, 148500}

Stop == StopSlave \/ SlaveGone \/ RemoveHandler \/ dma_stop \/ hdmi_mai_stop
Start == Allocate \/ hdmi_mai_init \/ DisableSlot \/ WriteInfoframe \/ EnableMai
           \/ Create \/ Await \/ AddHandler \/ dma_setup
Slave == Born \/ Woken \/ Mix \/ Encode \/ Length \/ End

Next ==
  \/ AHIsub_AllocAudio \/ Ask \/ AHIsub_FreeAudio \/ AHIsub_HardwareControl
  \/ Stop \/ Start \/ Slave
  \/ Complete \/ dma_irq_handler \/ Send

Spec == Init /\ [][Next]_vars

-----------------------------------------------------------------------------
TypeOK ==
  /\ held = {"closed"} \/ held \subseteq {"mix", "buf", "cb"}
  /\ engine.cb \in {0, 1} /\ soc \in Outputs
  /\ \A o \in Outputs : mai[o].rate \in Rates \union {0}

(* The engine runs only into a port that is enabled, and never on buffers  *)
(* the slave is writing or the session has given back; a session that is   *)
(* over leaves no port enabled. *)
SessionClean ==
  /\ engine.on => "buf" \in held /\ (pc # "mai_stop" => mai[engine.feeds].on)
  /\ slave # "none" => "buf" \in held
  /\ slave \in {"encode", "length"} => ~(engine.on /\ engine.cb = fillbuf)
  /\ (held \in {{}, {"closed"}} /\ pc \notin {"stop", "dying", "stop_irq", "halt", "mai_stop"})
        => \A o \in Outputs : ~mai[o].on

(* No infoframe is written while the hardware reads it, and the one that   *)
(* goes out with the sound names its rate. *)
InfoframeTrue == ~torn /\ (engine.on => slot[engine.feeds].rate = rate)

(* a * b / c without a product wider than the numbers *)
MulDiv(a, b, c) == (a \div c) * b + ((a % c) * b) \div c
Near(x, y) == 1000 * (x - y) <= y /\ 1000 * (y - x) <= y

(* An enabled port runs within 0.1 % of the rate it was started for: its   *)
(* divider of the HSM clock, and the CTS that a first start computes. *)
ClockFits ==
  \A o \in Outputs : mai[o].on =>
    /\ Near(mai[o].divider \div 1000, MulDiv(N48 * 480, 100, mai[o].rate) \div 1000)
    /\ \A khz \in Told : Near(Cts(khz, mai[o].rate) \div 100,
         MulDiv((khz * srate_to_n(mai[o].rate)) \div 128, 1000, mai[o].rate) \div 100)

(* While the slave lives the engine plays every mix once, in order and at  *)
(* its own length, after the silence of both buffers. *)
Follows(a, b) == \/ b.mix = (IF a.mix = Silence THEN 0 ELSE (a.mix + 1) % MixMod)
                 \/ a.mix = Silence /\ b.mix = Silence
InOrder ==
  (Complete /\ slavetask /\ ~ctrlC) =>
     Follows(buffer[engine.cb], buffer[engine'.cb]) /\ buffer[engine'.cb].whole
PlaysInOrder == [][InOrder]_vars
=============================================================================
