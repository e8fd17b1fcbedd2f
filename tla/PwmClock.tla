------------------------------ MODULE PwmClock ------------------------------
(***************************************************************************)
(* The clock of the PWM block, which two parties may program: the firmware *)
(* over the mailbox, whose answers are not to be trusted, and the driver   *)
(* straight in the clock manager.  A rate is a name; rates are compared    *)
(* within the 1 % of pwm_rate_ok.                                          *)
(***************************************************************************)
CONSTANTS Rates, Refuses   \* whether the firmware may refuse to enable or set it

VARIABLES
  pc,
  target,   \* samplerate * range
  mailbox,  \* mbox.resource is there
  claim,    \* the rate the firmware keeps the clock at, or None
  cm,       \* the generator: running, and the rate its divisor gives
  got,      \* the firmware said it set the rate
  again,    \* the firmware was tried twice
  owned     \* pwm_fw_owned

vars == <<pc, target, mailbox, claim, cm, got, again, owned>>
None == "none"

RateAssumption == None \notin Rates /\ Refuses \in BOOLEAN

-----------------------------------------------------------------------------
(* The firmware (external)                                                 *)

(* SETCLKSTATE off: the firmware forgets the clock, and it stops.          *)
pwm_fw_release_clock ==
  /\ claim' = IF mailbox THEN None ELSE claim
  /\ cm' = IF mailbox THEN [cm EXCEPT !.run = FALSE] ELSE cm

(* SETCLKSTATE on and SETCLKRATE: an answer that may come from a cache,    *)
(* with the old divisor left in place or the generator not started. *)
Programs ==
  /\ mailbox /\ got' = TRUE /\ claim' = target
  /\ cm' \in [run : BOOLEAN, rate : {cm.rate, target}]

(* A refusal is undone before it is reported. *)
Fails ==
  /\ ~mailbox \/ Refuses
  /\ got' = FALSE /\ pwm_fw_release_clock

pwm_fw_set_clock == Programs \/ Fails

(* A change of display mode retunes the PLL, and the firmware derives the  *)
(* clocks it keeps again. *)
Retune ==
  /\ claim # None
  /\ cm' = [cm EXCEPT !.rate = claim]
  /\ UNCHANGED <<pc, target, mailbox, claim, got, again, owned>>

-----------------------------------------------------------------------------
(* The driver                                                              *)

Goto(from, to) == pc = from /\ pc' = to

pwm_clock_setup ==
  /\ pc \in {"off", "on"} /\ pc' = "release"
  /\ target' \in Rates
  /\ cm' = [cm EXCEPT !.run = FALSE]
  /\ again' = FALSE
  /\ UNCHANGED <<mailbox, claim, got, owned>>

Release ==
  /\ Goto("release", "set")
  /\ pwm_fw_release_clock
  /\ UNCHANGED <<target, mailbox, got, again, owned>>

SetClock ==
  /\ pc = "set" /\ pwm_fw_set_clock
  /\ pc' = IF got' THEN "start" ELSE "direct"
  /\ UNCHANGED <<target, mailbox, again, owned>>

(* ENAB alone, and no longer than its budget. *)
pwm_cm_start ==
  /\ Goto("start", "verify")
  /\ \E run \in {cm.run, TRUE} : cm' = [cm EXCEPT !.run = run]
  /\ UNCHANGED <<target, mailbox, claim, got, again, owned>>

(* The registers say whether it is true; the firmware gets a second try.   *)
TrustsReply == got   \* mutant: the mailbox is believed
Verified    == cm.run /\ cm.rate = target
Verify ==
  /\ pc = "verify"
  /\ pc' = CASE Verified -> "on" [] ~Verified /\ ~again -> "release"
             [] OTHER -> "direct"
  /\ again' = TRUE
  /\ owned' = (owned \/ Verified)
  /\ UNCHANGED <<target, mailbox, claim, cm, got>>

(* The claim is taken back before the clock manager is programmed. *)
ReleaseClaim ==
  /\ Goto("direct", "program")
  /\ IF got \/ owned THEN pwm_fw_release_clock ELSE UNCHANGED <<claim, cm>>
  /\ owned' = FALSE
  /\ UNCHANGED <<target, mailbox, got, again>>

pwm_clock_setup_cm ==
  /\ Goto("program", "on")
  /\ cm' = [run |-> TRUE, rate |-> target]
  /\ UNCHANGED <<target, mailbox, claim, got, again, owned>>

(* A clock the firmware keeps is left running. *)
pwm_clock_stop ==
  /\ Goto("on", "off")
  /\ cm' = IF owned THEN cm ELSE [cm EXCEPT !.run = FALSE]
  /\ UNCHANGED <<target, mailbox, claim, got, again, owned>>

-----------------------------------------------------------------------------
Init ==
  /\ pc = "off" /\ target \in Rates /\ mailbox \in BOOLEAN
  /\ claim = None /\ got = FALSE /\ again = FALSE /\ owned = FALSE
  /\ cm = [run |-> FALSE, rate |-> None]

Next ==
  \/ pwm_clock_setup \/ Release \/ SetClock \/ pwm_cm_start \/ Verify
  \/ ReleaseClaim \/ pwm_clock_setup_cm \/ pwm_clock_stop \/ Retune

Spec == Init /\ [][Next]_vars

(* A sound plays at the rate it asked for, whatever the firmware answered, *)
(* and a display mode set later does not change it: the driver knows       *)
(* whether the clock is its own. *)
ClockRight ==
  pc = "on" => /\ cm.run /\ cm.rate = target
               /\ claim \in {target, None} /\ (owned <=> claim # None)

-----------------------------------------------------------------------------
(* The inductive invariant                                                 *)

TypeOK ==
  /\ pc \in {"off", "release", "set", "start", "verify", "direct", "program", "on"}
  /\ target \in Rates /\ claim \in Rates \cup {None}
  /\ cm \in [run : BOOLEAN, rate : Rates \cup {None}]
  /\ mailbox \in BOOLEAN /\ got \in BOOLEAN /\ again \in BOOLEAN /\ owned \in BOOLEAN

(* What the firmware keeps the clock at, it was told in this setup and the *)
(* driver still knows of it, or the driver is about to take it back. *)
Claimed ==
  /\ ~mailbox => claim = None
  /\ pc \in {"set", "program"} => claim = None
  /\ pc \in {"start", "verify"} => got /\ claim = target
  /\ pc = "direct" => got \/ claim = None
  /\ pc = "program" => ~owned

IInv == TypeOK /\ Claimed /\ ClockRight
=============================================================================
