------------------------------- MODULE SdioHost -------------------------------
(***************************************************************************)
(* sdio.resource (aros/arch/m68k-emu68/soc/wifi/sdio/sdio_init.c): the     *)
(* polled Arasan controller in front of the wireless chip.                 *)
(*                                                                         *)
(* sdio_Sem admits one call at a time; a call issues commands, and a       *)
(* command waits for one status bit after another, each of which may come  *)
(* late, come as an error, or never come.  The controller, the chip, the   *)
(* wires between them and the caller are external.                         *)
(* One function stands for the two that bwfm.resource uses, one direction  *)
(* for both, and of the registers of the chip those remain that the two    *)
(* sides have to agree about.  Register pacing and the pins are left out.  *)
(***************************************************************************)
EXTENDS Integers

CONSTANTS
    Ready5,     \* tries of CMD5: 100
    ReadyF,     \* tries of IORx: 50
    Block,      \* the size bwfm.resource sets: 64 and 512
    MaxBlocks,  \* SDIO_ARG_COUNT_MASK: 511
    MaxBytes,   \* of byte mode: 512
    MaxLen      \* bound: bytes of one CMD53 call

LimitAssumption == {Ready5, ReadyF, Block, MaxBlocks, MaxBytes, MaxLen} \subseteq Nat \ {0}

VARIABLES
    card,       \* the chip: [state, wide, size]
    doing,      \* what it does for the command on the wire, and in which order
    status,     \* INT_STATUS
    stale,      \* history: the bits of it that an earlier command left
    r5,         \* the response carries error flags
    sdio_Present, hostwide, fast, BlkSize,
    call, at,   \* the call, and its command
    stage,      \* where that command is
    retries, len, count,
    taken       \* history: a wait has just ended on a stale bit

chipVars == <<card, doing, r5>>
regVars  == <<status, stale, taken>>
hostVars == <<sdio_Present, hostwide, fast, BlkSize>>
callVars == <<call, at, retries, len>>
vars == <<chipVars, regVars, hostVars, callVars, stage, count>>

\* sdio_init: the controller is up, the chip has no power.
Init ==
    /\ card = [state |-> "off", wide |-> FALSE, size |-> 0]
    /\ doing = "nothing" /\ r5 = FALSE
    /\ status = {} /\ stale = {} /\ taken = FALSE
    /\ sdio_Present = FALSE /\ hostwide = FALSE /\ fast = FALSE /\ BlkSize = 0
    /\ call = "none" /\ at = "none" /\ stage = "idle"
    /\ retries = 0 /\ len = 0 /\ count = 0

-----------------------------------------------------------------------------
(* The chip.                                                               *)

\* What a command the chip accepts does to it.  The size goes in two halves;
\* between them it is neither.
Effect(c) == CASE c = "cmd0"    -> [card EXCEPT !.state = "idle", !.wide = FALSE]
               [] c = "cmd3"    -> [card EXCEPT !.state = "standby"]
               [] c = "cmd7"    -> [card EXCEPT !.state = "selected"]
               [] c = "wrwidth" -> [card EXCEPT !.wide = TRUE]
               [] c = "size0"   -> [card EXCEPT !.size = IF @ = Block THEN Block ELSE 1]
               [] c = "size1"   -> [card EXCEPT !.size = Block]
               [] OTHER         -> card

\* The commands whose response carries flags, which sdio_rw_direct and
\* sdio_rw_extended look at.
Direct(c) == c \in {"rdwidth", "wrwidth", "size0", "size1", "rdioe", "wrioe", "rdior",
                    "bytes", "blocks"}
HasData(c) == c \in {"bytes", "blocks"}

\* The response, good or bad; what a bad one answers may have been done.
Respond ==
    /\ doing = "respond" /\ card.state # "off"
    /\ \/ /\ r5' \in (IF Direct(at) THEN BOOLEAN ELSE {FALSE})
          /\ status' = status \cup {"response"}
          /\ card' = IF r5' THEN card ELSE Effect(at)
          /\ doing' = IF HasData(at) /\ ~r5' THEN "fill" ELSE "nothing"
       \/ /\ status' = status \cup {"error"}
          /\ card' \in {card, Effect(at)}
          /\ doing' = "nothing" /\ UNCHANGED r5
    /\ UNCHANGED <<stale, taken, hostVars, callVars, stage, count>>

\* One block of data, and the end of it.
Transfer ==
    /\ doing \in {"fill", "finish"}
    /\ \/ status' = status \cup {IF doing = "fill" THEN "ready" ELSE "done"}
       \/ status' = status \cup {"error"}
    /\ doing' = "nothing"
    /\ UNCHANGED <<card, r5, stale, taken, hostVars, callVars, stage, count>>

-----------------------------------------------------------------------------
(* sdio_command.                                                           *)

\* What an earlier command left in INT_STATUS when a command is issued.
LeftAlone == status   \* mutant: INT_STATUS is not cleared first
Left == {}

Issue ==
    /\ stage = "issue"
    /\ status' = Left /\ stale' = Left
    /\ taken' = FALSE
    /\ doing' = "respond" /\ r5' = FALSE /\ stage' = "response"
    /\ UNCHANGED <<card, hostVars, callVars, count>>

Wanted == CASE stage = "response" -> "response"
            [] stage = "data"     -> "ready"
            [] stage = "end"      -> "done"

Waiting == stage \in {"response", "data", "end"}

\* The wait is over, on the bit it is for or on an error, which the last of
\* the three takes for the end as well.
Arrived ==
    /\ Waiting
    /\ \E b \in status \cap {Wanted, "error"} :
         /\ taken' = (b \in stale)
         /\ IF "error" \in status /\ stage # "end"
            THEN /\ status' = {} /\ stale' = {}
                 /\ stage' = "reset" /\ UNCHANGED <<doing, count>>
            ELSE /\ status' = status \ {Wanted} /\ stale' = stale \ {Wanted}
                 /\ CASE stage = "response" /\ HasData(at) ->
                           stage' = "data" /\ UNCHANGED <<doing, count>>
                      [] stage = "data" ->
                           /\ count' = count - 1
                           /\ doing' = IF count' = 0 THEN "finish" ELSE "fill"
                           /\ stage' = IF count' = 0 THEN "end" ELSE "data"
                      [] OTHER -> stage' = "ok" /\ UNCHANGED <<doing, count>>
    /\ UNCHANGED <<card, r5, hostVars, callVars>>

\* A wait runs out, the one for the circuits to be free before a command
\* included.  The one for the response clears the status, and a late response
\* may still come before the reset.
TimeOut ==
    /\ \/ stage = "issue"
       \/ Waiting /\ status \cap {Wanted, "error"} = {}
    /\ IF stage = "response" THEN status' = {} /\ stale' = {}
                             ELSE UNCHANGED <<status, stale>>
    /\ stage' = "reset" /\ taken' = FALSE
    /\ UNCHANGED <<chipVars, hostVars, callVars, count>>

\* sdio_softreset of the command and data circuits.
Reset ==
    /\ stage = "reset"
    /\ doing' = "nothing" /\ stage' = "failed"
    /\ UNCHANGED <<card, r5, regVars, hostVars, callVars, count>>

-----------------------------------------------------------------------------
(* The calls.                                                              *)

Return == call' = "none" /\ at' = "none" /\ stage' = "idle"

Go(c) == at' = c /\ stage' = "issue" /\ UNCHANGED call

\* sdio_rw_extended: whole blocks while there is one, at most MaxBlocks of
\* them, and the rest as bytes.
BlockMode(l) == BlkSize > 0 /\ l >= BlkSize
Blocks(l) == LET n == l \div BlkSize IN IF n > MaxBlocks THEN MaxBlocks ELSE n
Moved == IF at = "blocks" THEN Blocks(len) * BlkSize
         ELSE IF len > MaxBytes THEN MaxBytes ELSE len

GoExt(l) == /\ len' = l
            /\ at' = IF BlockMode(l) THEN "blocks" ELSE "bytes"
            /\ count' = IF BlockMode(l) THEN Blocks(l) ELSE 1
            /\ stage' = "issue"

Calling(name) ==
    /\ call = "none"
    /\ call' = name
    /\ UNCHANGED <<doing, r5, regVars, hostVars>>

\* SDIOProbe; a second one reports the first.  The chip is power-cycled.
Probe ==
    /\ Calling("probe")
    /\ IF sdio_Present
       THEN at' = "none" /\ stage' = "return" /\ UNCHANGED <<card, retries>>
       ELSE /\ card' = [state |-> "idle", wide |-> FALSE, size |-> 0]
            /\ at' = "cmd0" /\ stage' = "issue" /\ retries' = Ready5
    /\ UNCHANGED <<len, count>>

\* The other calls follow a probe that found the chip.
SetBlockSize ==
    /\ sdio_Present /\ Calling("size")
    /\ at' = "size0" /\ stage' = "issue"
    /\ UNCHANGED <<card, retries, len, count>>

EnableFunction ==
    /\ sdio_Present /\ Calling("enable")
    /\ at' = "rdioe" /\ stage' = "issue" /\ retries' = ReadyF
    /\ UNCHANGED <<card, len, count>>

Ext ==
    /\ sdio_Present /\ Calling("ext")
    /\ \E l \in 1..MaxLen : GoExt(l)
    /\ UNCHANGED <<card, retries>>

Done == /\ stage = "return" /\ Return
        /\ UNCHANGED <<chipVars, regVars, hostVars, retries, len, count>>

\* A command is over.
Good == stage = "ok" /\ ~r5
Over == stage \in {"ok", "failed"}

\* The host goes to four bits when the chip has said that it did.
WidensAnyway == at = "wrwidth"   \* mutant: whatever the chip says
Widens == at = "wrwidth" /\ Good

\* The host's copy of the size follows when both halves are in.
CacheEarly == at = "size0" /\ Good   \* mutant: when one is
Cache == at = "size1" /\ Good

\* sdio_do_probe: CMD0 and CMD8 are advisory, the width is optional.
ProbeStep ==
    /\ Over /\ call = "probe"
    /\ CASE at = "cmd0" -> Go("cmd8") /\ UNCHANGED <<retries, hostVars>>
         [] at = "cmd8" -> Go("cmd5") /\ UNCHANGED <<retries, hostVars>>
         [] at = "cmd5" -> /\ IF Good THEN Go("cmd5w") ELSE Return
                           /\ UNCHANGED <<retries, hostVars>>
         [] at = "cmd5w" ->
              /\ \/ Good /\ Go("cmd3") /\ UNCHANGED retries
                 \/ Good /\ retries > 1 /\ Go("cmd5w") /\ retries' = retries - 1
                 \/ (Good => retries = 1) /\ Return /\ UNCHANGED retries
              /\ UNCHANGED hostVars
         [] at = "cmd3" -> /\ IF Good THEN Go("cmd7") ELSE Return
                           /\ UNCHANGED <<retries, hostVars>>
         [] at = "cmd7" -> /\ IF Good THEN Go("rdwidth") ELSE Return
                           /\ UNCHANGED <<retries, hostVars>>
         [] at = "rdwidth" /\ Good -> Go("wrwidth") /\ UNCHANGED <<retries, hostVars>>
         [] OTHER -> /\ hostwide' = Widens
                     /\ fast' = TRUE /\ sdio_Present' = TRUE
                     /\ Return /\ UNCHANGED <<retries, BlkSize>>
    /\ UNCHANGED <<chipVars, regVars, len, count>>

\* SDIOSetBlockSize.
SizeStep ==
    /\ Over /\ call = "size"
    /\ IF at = "size0" /\ Good THEN Go("size1") ELSE Return
    /\ BlkSize' = IF Cache THEN Block ELSE BlkSize
    /\ UNCHANGED <<chipVars, regVars, sdio_Present, hostwide, fast, retries, len, count>>

\* SDIOEnableFunction.
EnableStep ==
    /\ Over /\ call = "enable"
    /\ \/ Good /\ at = "rdioe" /\ Go("wrioe") /\ UNCHANGED retries
       \/ Good /\ at = "wrioe" /\ Go("rdior") /\ UNCHANGED retries
       \/ Good /\ at = "rdior" /\ retries > 1 /\ Go("rdior") /\ retries' = retries - 1
       \/ (Good => at = "rdior") /\ Return /\ UNCHANGED retries
    /\ UNCHANGED <<chipVars, regVars, hostVars, len, count>>

ExtStep ==
    /\ Over /\ call = "ext"
    /\ IF Good /\ len > Moved
       THEN GoExt(len - Moved) /\ UNCHANGED call
       ELSE Return /\ len' = 0 /\ count' = 0
    /\ UNCHANGED <<chipVars, regVars, hostVars, retries>>

Next == \/ Respond \/ Transfer
        \/ Issue \/ Arrived \/ TimeOut \/ Reset
        \/ Probe \/ SetBlockSize \/ EnableFunction \/ Ext \/ Done
        \/ ProbeStep \/ SizeStep \/ EnableStep \/ ExtStep

Spec == Init /\ [][Next]_vars

-----------------------------------------------------------------------------
(* Properties.                                                             *)

Bit == {"response", "ready", "done", "error"}

TypeOK ==
    /\ card \in [state : {"off", "idle", "standby", "selected"}, wide : BOOLEAN,
                 size : {0, 1, Block}]
    /\ doing \in {"nothing", "respond", "fill", "finish"} /\ r5 \in BOOLEAN
    /\ status \subseteq Bit /\ stale \subseteq status /\ taken \in BOOLEAN
    /\ sdio_Present \in BOOLEAN /\ hostwide \in BOOLEAN /\ fast = sdio_Present
    /\ BlkSize \in {0, Block}
    /\ stage \in {"idle", "issue", "response", "data", "end", "reset", "ok", "failed", "return"}
    /\ len \in 0..MaxLen /\ count \in 0..MaxBlocks

\* A response, a block or an end that comes after its command was given up is
\* never taken for that of a later one.
StatusIsOurs == ~taken

\* Both sides cut a transfer into blocks of one size, also after a
\* SDIOSetBlockSize that failed half-way and whose failure bwfm.resource
\* ignores; and its count is never zero, which means endless.
BlocksAgree ==
    at = "blocks" => /\ card.size = BlkSize
                     /\ stage \in {"issue", "response", "data"} => count \in 1..MaxBlocks

\* The host leaves one bit and the slow clock only after the chip did, and a
\* later probe does not put it back.
HostNarrowFirst == /\ hostwide => card.wide
                   /\ sdio_Present => card.state = "selected"

RadioKept == TypeOK /\ StatusIsOurs /\ BlocksAgree /\ HostNarrowFirst

\* What they follow from.  A call is at one of its own commands, and those after
\* the probe find the chip that it left.
ProbeOnly == {"cmd0", "cmd8", "cmd5", "cmd5w", "cmd3", "cmd7", "rdwidth", "wrwidth"}
Busy == stage \notin {"idle", "return"}
CallsAt ==
    \/ call = "none" /\ at = "none" /\ stage = "idle"
    \/ call = "probe" /\ at = "none" /\ stage = "return"
    \/ call = "probe" /\ at \in ProbeOnly /\ Busy /\ ~sdio_Present
    \/ call = "size" /\ at \in {"size0", "size1"} /\ Busy /\ sdio_Present
    \/ call = "enable" /\ at \in {"rdioe", "wrioe", "rdior"} /\ Busy /\ sdio_Present
    \/ call = "ext" /\ at \in {"bytes", "blocks"} /\ Busy /\ sdio_Present

\* What the chip was told and answered to without complaint, it did.
Applied ==
    /\ at = "cmd7" => card.state = "selected"
    /\ at = "wrwidth" => card.wide
    /\ at = "size1" => card.size = Block
Landed ==
    /\ doing = "respond" => stage \in {"response", "reset"}
    /\ doing = "respond" /\ stage = "response" => status = {}
    /\ stage = "response" /\ "response" \in status /\ "error" \notin status /\ ~r5 => Applied
    /\ stage \in {"data", "end", "ok"} /\ ~r5 => Applied

Agreed ==
    /\ hostwide => sdio_Present /\ card.wide
    /\ BlkSize # 0 => sdio_Present /\ card.size = Block
    /\ sdio_Present \/ at \in {"rdwidth", "wrwidth"} => card.state = "selected"
    /\ at = "blocks" => BlkSize # 0
    /\ HasData(at) /\ stage \in {"issue", "response", "data"} => count \in 1..MaxBlocks
    /\ stage = "data" => HasData(at)
IInv == TypeOK /\ stale = {} /\ ~taken /\ CallsAt /\ Landed /\ Agreed

\* "Both card (CCCR) and host (Arasan HOST_CONTROL) must agree": the code
\* leaves the host at one bit when the answer of a chip that did switch is
\* damaged.
WidthsAgree == sdio_Present /\ call = "none" => hostwide = card.wide
=============================================================================
