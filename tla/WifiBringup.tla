----------------------------- MODULE WifiBringup -----------------------------
(***************************************************************************)
(* How bwfm.resource (aros/arch/m68k-emu68/soc/wifi/bwfm/bwfm_init.c)      *)
(* brings the wireless chip up: BWFMAttach finds and halts its cores,      *)
(* BWFMStartFirmware loads and starts them.                                *)
(*                                                                         *)
(* Everything the driver says to the chip above the bus goes through one   *)
(* 32 KB window whose base it keeps a copy of (bwfm_bar0), and the bytes   *)
(* that move the window are written without a result.  The chip is         *)
(* external: what its cores are, and what its firmware waits for.          *)
(* bwfm_Sem is held throughout, so no two calls interleave.  The clocks of *)
(* the attach, the size of the memory and the reset of one core are each   *)
(* done or not.                                                            *)
(***************************************************************************)
EXTENDS Integers

CONSTANTS
    Windows,   \* windows the image spans
    Sampled,   \* those that one of the eight words of bwfm_verify_upload lies in
    MaxFaults  \* bound: bytes and blocks lost on the bus

WindowAssumption == Windows \in Nat \ {0} /\ MaxFaults \in Nat

CoreId   == {"cc", "d11", "sdiodev", "cr4", "cm3", "ca7", "mem"}
Image    == 1..Windows
Regs     == 0              \* the window the registers of the cores are in
Nvram    == Windows + 1
NoWindow == -1

VARIABLES
    erom,                \* the cores the chip has
    cores,               \* bwfm_cores
    attached, bwfm_bar0,
    window,              \* where the chip's window is
    ram,                 \* [window of the image: what it holds]
    cpu,                 \* halted or running
    version, ioe, iordy, fwready,   \* what the two sides say of their readiness
    at, k,               \* where BWFMStartFirmware is
    result,
    used,                \* history: cores dereferenced without looking for NULL
    faults

busVars   == <<bwfm_bar0, window, faults>>
chipVars  == <<cpu, version, ioe, iordy, fwready>>
foundVars == <<erom, cores, attached, used>>
vars == <<foundVars, busVars, ram, chipVars, at, k, result>>

Init ==
    /\ erom \in SUBSET CoreId
    /\ cores = {} /\ attached = FALSE
    /\ bwfm_bar0 = NoWindow /\ window = NoWindow
    /\ ram = [w \in Image |-> "old"]
    /\ cpu = "running" /\ version = FALSE /\ ioe = FALSE /\ iordy = FALSE /\ fwready = FALSE
    /\ at = "idle" /\ k = 1 /\ result = "none"
    /\ used = {} /\ faults = 0

-----------------------------------------------------------------------------
(* The bus.                                                                *)

Fault == faults < MaxFaults /\ faults' = faults + 1

\* bwfm_backplane: the copy follows whether or not the window did.
Backplane(w) ==
    /\ bwfm_bar0' = w
    /\ IF bwfm_bar0 = w THEN UNCHANGED <<window, faults>>
       ELSE \/ window' = w /\ UNCHANGED faults
            \/ Fault /\ UNCHANGED window

Fail == at' = "idle" /\ result' = "failed"

\* A transfer that fails, where the code looks at its result.
Broken(here) ==
    /\ at = here /\ Fault /\ Fail
    /\ UNCHANGED <<foundVars, bwfm_bar0, window, ram, chipVars, k>>

\* The firmware, once it runs and the host has said its version, sees to
\* function 2, and reports when that is up; code that is not the image does
\* neither.
Booting == /\ cpu = "running" /\ \A w \in Image : ram[w] = "image"
           /\ version /\ ioe /\ ~iordy
Readying == iordy /\ ~fwready

-----------------------------------------------------------------------------
(* BWFMAttach.                                                             *)

\* What bwfm_do_attach requires of the chip.
NoMemoryCheck(c) ==   \* mutant: a CM3 without its memory is let through
    c \cap {"cr4", "cm3", "ca7"} # {} /\ {"cc", "d11", "sdiodev"} \subseteq c
Required(c) == /\ c \cap {"cr4", "cm3", "ca7"} # {}
               /\ "cm3" \in c => "mem" \in c
               /\ {"cc", "d11", "sdiodev"} \subseteq c

\* bwfm_set_passive: a CR4 first, else a CM3; a CA7 is left alone.
PassiveUses(c) == IF "cr4" \notin c /\ "cm3" \in c THEN {"d11", "mem"} ELSE {}
Passive(c) == IF c \cap {"cr4", "cm3"} = {} THEN "running" ELSE "halted"

\* bwfm_do_attach, which reads a chip it does not reach as one without cores.
Attach ==
    /\ at = "idle" /\ ~attached
    /\ Backplane(Regs)
    /\ cores' = IF window' = Regs THEN erom ELSE {}
    /\ IF Required(cores')
       THEN /\ attached' = TRUE
            /\ used' = used \cup PassiveUses(cores') \cup {"cc"}
            /\ cpu' = Passive(cores')
       ELSE UNCHANGED <<attached, used, cpu>>
    /\ UNCHANGED <<erom, ram, version, ioe, iordy, fwready, at, k, result>>

-----------------------------------------------------------------------------
(* BWFMStartFirmware.                                                      *)

\* The device, which is external, tries again after a failure and not after a success.
Start ==
    /\ at = "idle" /\ attached /\ result # "ok"
    /\ at' = "upload" /\ k' = 1 /\ result' = "none"
    /\ UNCHANGED <<foundVars, busVars, ram, chipVars>>

\* bwfm_ram_write, one window at a time, to wherever the chip's window is.
Upload ==
    /\ at = "upload"
    /\ Backplane(k)
    /\ ram' = [w \in Image |-> IF w # window' THEN ram[w]
                               ELSE IF w = k THEN "image" ELSE "other"]
    /\ k' = k + 1
    /\ at' = IF k = Windows THEN "verify" ELSE "upload"
    /\ UNCHANGED <<foundVars, chipVars, result>>

\* bwfm_verify_upload: the first bytes, which are the image's own, and eight
\* words.  What is read through another window is not what was written.
FirstBytes == {1}   \* mutant: the words are not compared
Checked == {1} \cup Sampled

Reads(w) == window' = w /\ ram[w] = "image"

Verify ==
    /\ at = "verify" /\ k > Windows
    /\ k' = 0 /\ Backplane(1)
    /\ IF Reads(1) THEN UNCHANGED <<at, result>> ELSE Fail
    /\ UNCHANGED <<foundVars, ram, chipVars>>

Sample ==
    /\ at = "verify" /\ k < Windows
    /\ k' = k + 1
    /\ IF k' \in Checked THEN Backplane(k') ELSE UNCHANGED busVars
    /\ IF k' \in Checked => Reads(k') THEN UNCHANGED <<at, result>> ELSE Fail
    /\ UNCHANGED <<foundVars, ram, chipVars>>

Verified ==
    /\ at = "verify" /\ k = Windows
    /\ at' = "nvram"
    /\ UNCHANGED <<foundVars, busVars, ram, chipVars, k, result>>

\* The NVRAM ends the memory; nobody reads it back.
WriteNvram ==
    /\ at = "nvram"
    /\ Backplane(Nvram)
    /\ ram' = [w \in Image |-> IF w = window' THEN "other" ELSE ram[w]]
    /\ at' = "active"
    /\ UNCHANGED <<foundVars, chipVars, k, result>>

\* "Waiting first deadlocks BCM43430".
ReadyFirst == "ready"   \* mutant: FWREADY is waited for before function 2
AfterActive == "function2"

\* bwfm_set_active, the request for the HT clock, and the version of SDPCM in
\* the mailbox, all of them registers.
SetActive ==
    /\ at = "active"
    /\ Backplane(Regs)
    /\ used' = used \cup {"sdiodev"} \cup
               (IF "cr4" \notin cores /\ "cm3" \in cores THEN {"mem"} ELSE {})
    /\ IF cores \cap {"cr4", "cm3"} = {}
       THEN Fail /\ UNCHANGED <<cpu, version>>
       ELSE /\ at' = AfterActive /\ UNCHANGED result
            /\ IF window' = Regs THEN cpu' = "running" /\ version' = TRUE
                                 ELSE UNCHANGED <<cpu, version>>
    /\ UNCHANGED <<erom, cores, attached, ram, ioe, iordy, fwready, k>>

\* SDIOEnableFunction(2), which is bytes and needs no window.
Enable2 ==
    /\ at = "function2" /\ ioe' = TRUE
    /\ UNCHANGED <<foundVars, busVars, ram, cpu, version, iordy, fwready, at, k, result>>

Ready2 ==
    /\ at = "function2" /\ ioe /\ iordy
    /\ at' = "ready"
    /\ UNCHANGED <<foundVars, busVars, ram, chipVars, k, result>>

FwReady ==
    /\ at = "ready" /\ fwready /\ window = Regs
    /\ at' = "idle" /\ result' = "ok"
    /\ UNCHANGED <<foundVars, busVars, ram, chipVars, k>>

\* Either wait runs out when the chip is not getting there.
Stuck == \/ at = "function2" /\ ioe /\ ~iordy /\ ~Booting
         \/ at = "ready" /\ (window # Regs \/ (~fwready /\ ~Readying))
GiveUp ==
    /\ Stuck /\ Fail
    /\ UNCHANGED <<foundVars, busVars, ram, chipVars, k>>

-----------------------------------------------------------------------------
(* The firmware.                                                           *)

Boot == Booting /\ iordy' = TRUE
        /\ UNCHANGED <<foundVars, busVars, ram, cpu, version, ioe, fwready, at, k, result>>
Report == Readying /\ fwready' = TRUE
          /\ UNCHANGED <<foundVars, busVars, ram, cpu, version, ioe, iordy, at, k, result>>

Next == \/ Attach \/ Start \/ Upload \/ Verify \/ Sample \/ Verified \/ WriteNvram
        \/ SetActive \/ Enable2 \/ Ready2 \/ FwReady \/ GiveUp
        \/ \E here \in {"upload", "verify", "nvram"} : Broken(here)
        \/ Boot \/ Report

Spec == Init /\ [][Next]_vars

-----------------------------------------------------------------------------
(* Properties.                                                             *)

TypeOK ==
    /\ cores \in {{}, erom} /\ attached \in BOOLEAN /\ used \subseteq CoreId
    /\ bwfm_bar0 \in NoWindow..Nvram /\ window \in NoWindow..Nvram
    /\ ram \in [Image -> {"old", "image", "other"}]
    /\ cpu \in {"halted", "running"} /\ version \in BOOLEAN /\ ioe \in BOOLEAN
    /\ iordy \in BOOLEAN /\ fwready \in BOOLEAN
    /\ at \in {"idle", "upload", "verify", "nvram", "active", "function2", "ready"}
    /\ k \in 0..Windows + 1 /\ result \in {"none", "ok", "failed"}
    /\ faults \in 0..MaxFaults

\* "This one check makes every later bwfm_get_core() of these safe": whatever
\* cores a chip has, none is used that it lacks.
NoNullCore == used \subseteq cores

\* A chip that answers is brought up: the bus, the clock and the two sides'
\* announcements come in an order in which neither waits for the other.
HealthyChipStarts ==
    result = "failed" => faults > 0 \/ cores \cap {"cr4", "cm3"} = {}

\* "The 4-byte window then samples words across the whole blob, which is where
\* a short, misaddressed or partially-failed upload shows up": what verified
\* is the image, although the window may have been elsewhere unnoticed.  It
\* holds of an image with a word sampled in each of its windows.
VerifiedIsImage == at = "nvram" => \A w \in Image : ram[w] = "image"
EveryWindow == Image \subseteq {1} \cup Sampled

\* No core that was not found, a chip without faults starts, and what verified
\* is the image.
RadioKept == /\ TypeOK /\ NoNullCore /\ HealthyChipStarts
             /\ EveryWindow => VerifiedIsImage

\* What they follow from: nothing is used before the attach; the windows before
\* k are loaded, and those compared before it are the image; and while no
\* transfer was lost, the window is where its copy says and each step finds
\* what the last one left.
Found == /\ attached => Required(cores)
         /\ ~attached => used = {} /\ result = "none" /\ at = "idle"
Walk == /\ at = "upload" => k \in Image
        /\ at = "verify" /\ k <= Windows =>
             \A w \in Image : (w = 1 \/ w \in Sampled) /\ w <= k => ram[w] = "image"
        /\ EveryWindow => VerifiedIsImage
Whole == \A w \in Image : ram[w] = "image"
Unhurt == faults = 0 =>
    /\ window = bwfm_bar0
    /\ at = "upload" => \A w \in Image : w < k => ram[w] = "image"
    /\ at \in {"verify", "nvram", "active", "function2", "ready"} => Whole
    /\ at \in {"function2", "ready"} => window = Regs /\ cpu = "running" /\ version
    /\ at = "ready" => ioe /\ iordy
IInv == TypeOK /\ NoNullCore /\ Found /\ Walk /\ Unhurt /\ HealthyChipStarts
=============================================================================
