---------------------------- MODULE WifiInterrupt ----------------------------
(***************************************************************************)
(* The card interrupt of the wireless chip: from a frame the chip has, by  *)
(* way of DAT1, the Arasan controller and sdio_irq_handler, to the pump of *)
(* bwfm.device, which drains the FIFO and arms the interrupt again         *)
(* (aros/arch/m68k-emu68/soc/wifi: sdio/sdio_init.c, bwfm/bwfm_init.c).    *)
(*                                                                         *)
(* The interrupt is a level, masked by the handler.  The chip may doze: it *)
(* then announces a frame that it does not move to the FIFO.  The chip is  *)
(* external, and so is the pump, whose order of calls is the one that      *)
(* BWFMClearInt's comment gives.                                           *)
(***************************************************************************)
EXTENDS Integers

CONSTANT MaxFrames   \* bound: frames of the chip

VARIABLES
    chip, f2,      \* frames the chip holds back, and frames in the FIFO
    doze,          \* DEVICE_CTL_CA_INT_ONLY
    intstatus,     \* SDPCMD_INTSTATUS
    mail,          \* the chip waits for its mailbox to be read
    ien,           \* the sources that reach DAT1: CCCR and INT_ENABLE
    signalEnable,  \* SDHCI_SIGNAL_ENABLE
    signal,        \* the signal of the pump
    pump, ist,     \* where the pump is, and what it read
    frames         \* frames and messages so far

chipVars == <<chip, f2, doze, intstatus, mail, frames>>
hostVars == <<ien, signalEnable, signal>>
pumpVars == <<pump, ist>>
vars     == <<chipVars, hostVars, pumpVars>>

Init ==
    /\ chip = 0 /\ f2 = 0 /\ doze = FALSE /\ intstatus = {} /\ mail = FALSE
    /\ ien = FALSE /\ signalEnable = FALSE /\ signal = FALSE
    /\ pump = "start" /\ ist = {} /\ frames = 0

-----------------------------------------------------------------------------
(* The chip.                                                               *)

Frame == /\ frames < MaxFrames /\ frames' = frames + 1
         /\ intstatus' = intstatus \cup {"frame"}
         /\ IF doze THEN chip' = chip + 1 /\ UNCHANGED f2
                    ELSE f2' = f2 + 1 /\ UNCHANGED chip
         /\ UNCHANGED <<doze, mail, hostVars, pumpVars>>

\* A message; the next one waits until this one is acknowledged.
Message == /\ ~mail /\ frames < MaxFrames /\ frames' = frames + 1
           /\ mail' = TRUE /\ intstatus' = intstatus \cup {"host"}
           /\ UNCHANGED <<chip, f2, doze, hostVars, pumpVars>>

\* It dozes off with nothing to say, once the interrupt is in use.
Doze == /\ ien /\ ~doze /\ intstatus = {} /\ f2 = 0 /\ frames < MaxFrames
        /\ doze' = TRUE
        /\ UNCHANGED <<chip, f2, intstatus, mail, frames, hostVars, pumpVars>>

-----------------------------------------------------------------------------
(* The host.                                                               *)

Dat1 == ien /\ intstatus # {}

\* SDIOSetInterrupt.
SetInterrupt == /\ pump = "start" /\ pump' = "wait"
                /\ ien' = TRUE /\ signalEnable' = TRUE
                /\ UNCHANGED <<chipVars, signal, ist>>

\* sdio_irq_handler.
Handler == /\ Dat1 /\ signalEnable
           /\ signalEnable' = FALSE /\ signal' = TRUE
           /\ UNCHANGED <<chipVars, ien, pumpVars>>

Wake == /\ pump = "wait" /\ signal
        /\ signal' = FALSE /\ pump' = "clear"
        /\ UNCHANGED <<chipVars, ien, signalEnable, ist>>

\* BWFMClearInt: the chip is woken and moves what it held back; then it is
\* asked, a message is read and acknowledged, and what was read is cleared,
\* whatever has come since.
LetDoze == doze   \* mutant: CA_INT_ONLY stays set
Woken == FALSE

WakeChip == /\ pump = "clear" /\ pump' = "ask"
            /\ doze' = Woken
            /\ IF doze' THEN UNCHANGED <<chip, f2>> ELSE f2' = f2 + chip /\ chip' = 0
            /\ UNCHANGED <<intstatus, mail, frames, hostVars, ist>>
Ask == /\ pump = "ask" /\ pump' = "w1c"
       /\ ist' = intstatus
       /\ UNCHANGED <<chipVars, hostVars>>

\* The message is acknowledged before its bit is cleared.
ClearIst == /\ pump = "w1c" /\ pump' = "drain"
            /\ mail' = IF "host" \in ist THEN FALSE ELSE mail
            /\ intstatus' = intstatus \ ist /\ ist' = {}
            /\ UNCHANGED <<chip, f2, doze, frames, hostVars>>

Drain == /\ pump = "drain" /\ f2 > 0 /\ f2' = f2 - 1
         /\ UNCHANGED <<chip, doze, intstatus, mail, frames, hostVars, pumpVars>>

\* SDIOAckInterrupt, once the FIFO is empty.
ArmNothing == signalEnable   \* mutant: the interrupt stays masked
Armed == TRUE

Ack == /\ pump = "drain" /\ f2 = 0 /\ pump' = "wait"
       /\ signalEnable' = Armed
       /\ UNCHANGED <<chipVars, ien, signal, ist>>

Host == SetInterrupt \/ Handler \/ Wake \/ WakeChip \/ Ask \/ ClearIst \/ Drain \/ Ack
Next == Frame \/ Message \/ Doze \/ Host

\* The interrupt is delivered, and the pump runs.
Fairness == WF_vars(Host)
Spec == Init /\ [][Next]_vars /\ Fairness

-----------------------------------------------------------------------------
(* Properties.                                                             *)

TypeOK ==
    /\ chip \in 0..MaxFrames /\ f2 \in 0..MaxFrames /\ frames \in 0..MaxFrames
    /\ intstatus \subseteq {"frame", "host"} /\ ist \subseteq {"frame", "host"}
    /\ chip > 0 => doze
    /\ mail => "host" \in intstatus
    /\ pump \in {"start", "wait", "clear", "ask", "w1c", "drain"}

\* A frame or a message never waits for the next one to bring it in: not one
\* that comes while the pump drains, clears or arms, nor one that the chip
\* announces and holds back.
Served == f2 + chip > 0 \/ mail ~> f2 + chip = 0 /\ ~mail
=============================================================================
