----------------------------- MODULE OtgRootHub -----------------------------
(***************************************************************************)
(* The root hub that usb2otg.device simulates over the host port register: *)
(* the class requests of a task, the interrupt transfers that wait for a   *)
(* port change, the software interrupt and the watchdog that answer them,  *)
(* the core reset of the wedge recovery and the port bring-up after it.    *)
(*                                                                         *)
(* The port register is the set of its bits.  Speed and over-current bits  *)
(* and descriptors are left out.  The class driver (external) sends any    *)
(* sequence of requests.                                                   *)
(***************************************************************************)
EXTENDS Naturals, Sequences, SequencesExt

CONSTANTS
  Readers,    \* interrupt transfers on the status endpoint
  Recovery,    \* USB2OTG_ENABLE_CORE_RESET_RECOVERY
  MaxPlugs,    \* bound: connects and disconnects
  MaxResets    \* bound: escalated core resets

VARIABLES
  port,        \* HPRT
  pc,          \* the task: in OpenUnit, ready, or inside a class request
  feature, oldval,
  queue,       \* hu_IOPendingQueue
  changed,     \* hu_HubPortChanged
  caused,      \* hu_PendingInt
  recover,     \* hu_PortRecoverState
  forced,      \* hu_PortForceDisconnect, hu_PortForceConnChange
  vacated,     \* the last status read reported the port as vacated
  plugs, resets

task == <<pc, feature, oldval>>
hub  == <<queue, changed, caused>>
rec  == <<recover, forced, vacated>>
vars == <<port, task, hub, rec, plugs, resets>>

Change == {"det", "enchg"}
SC     == Change \union {"ena"}   \* write one to clear; to enable, to disable
None   == "none"

-----------------------------------------------------------------------------
(* The port register                                                       *)

(* A write: the bits that clear, the reset that ends in an enabled port,   *)
(* the resume that ends a suspend, the power without which there is none. *)
Written(v) ==
  LET reset == "rst" \in v
      up    == "rst" \in port /\ ~reset /\ "conn" \in port /\ "pwr" \in v
      ena   == up \/ ("ena" \in port /\ "ena" \notin v /\ ~reset /\ "pwr" \in v)
  IN  (v \intersect {"pwr", "rst", "res"})
        \union {b \in {"conn"} \intersect port : "pwr" \in v}
        \union {b \in Change : b \in port /\ b \notin v}
        \union {b \in {"enchg"} : ena # ("ena" \in port)}
        \union {b \in {"ena"} : ena}
        \union {b \in {"susp"} : b \in v /\ "res" \notin v}

Raw      == port           \* mutant: the bits that clear are written back
Harmless == port \ SC
hostport_rmw(set, clear) == port' = Written((Harmless \ clear) \union set)

Connect ==
  /\ plugs < MaxPlugs /\ plugs' = plugs + 1
  /\ "pwr" \in port /\ "conn" \notin port
  /\ port' = port \union {"conn", "det"}
  /\ UNCHANGED <<task, hub, rec, resets>>

Disconnect ==
  /\ plugs < MaxPlugs /\ plugs' = plugs + 1
  /\ "conn" \in port
  /\ port' = (port \ {"conn", "ena"}) \union {"det"}
                \union {b \in {"enchg"} : "ena" \in port}
  /\ UNCHANGED <<task, hub, rec, resets>>

-----------------------------------------------------------------------------
(* OpenUnit                                                                *)

Opened == pc \notin {"power", "look", "assert", "release", "report"}

Goto(from, to) == pc = from /\ pc' = to /\ UNCHANGED <<feature, oldval>>

OpenPower ==
  /\ Goto("power", "look")
  /\ hostport_rmw({"pwr"}, {})
  /\ UNCHANGED <<hub, rec, plugs, resets>>

OpenLook ==
  /\ Goto("look", IF "conn" \in port THEN "assert" ELSE "ready")
  /\ UNCHANGED <<port, hub, rec, plugs, resets>>

OpenAssert ==
  /\ Goto("assert", "release")
  /\ hostport_rmw({"rst"}, {})
  /\ UNCHANGED <<hub, rec, plugs, resets>>

OpenRelease ==
  /\ Goto("release", "report")
  /\ hostport_rmw({}, {"rst"})
  /\ UNCHANGED <<hub, rec, plugs, resets>>

OpenReport ==
  /\ Goto("report", "ready")
  /\ changed' = (changed \/ "conn" \in port)
  /\ UNCHANGED <<port, queue, caused, rec, plugs, resets>>

-----------------------------------------------------------------------------
(* The requests of the class driver                                        *)

(* cmdIntXFer: a change already known is told at once.                     *)
cmdIntXFer(r) ==
  /\ pc = "ready" /\ r \notin ToSet(queue)
  /\ queue' = IF changed THEN queue ELSE Append(queue, r)
  /\ changed' = FALSE
  /\ UNCHANGED <<port, task, caused, rec, plugs, resets>>

AbortIO(r) ==
  /\ pc = "ready"
  /\ \E i \in 1..Len(queue) : queue[i] = r /\ queue' = RemoveAt(queue, i)
  /\ UNCHANGED <<port, task, changed, caused, rec, plugs, resets>>

SetFeature ==
  /\ pc = "ready"
  /\ \/ hostport_rmw({"susp"}, {}) \/ hostport_rmw({"pwr"}, {})
  /\ UNCHANGED <<task, hub, rec, plugs, resets>>

(* SET_FEATURE(PORT_RESET), with its waits.                                *)
PortReset ==
  /\ Goto("ready", "reset")
  /\ UNCHANGED <<port, hub, rec, plugs, resets>>

ResetAssert ==
  /\ Goto("reset", "hold")
  /\ hostport_rmw({"rst"}, {})
  /\ UNCHANGED <<hub, rec, plugs, resets>>

ResetRelease ==
  /\ Goto("hold", "settle")
  /\ hostport_rmw({}, {"rst"})
  /\ UNCHANGED <<hub, rec, plugs, resets>>

ResetDone ==
  /\ Goto("settle", "ready")
  /\ changed' = TRUE /\ caused' = TRUE
  /\ UNCHANGED <<port, queue, rec, plugs, resets>>

(* CLEAR_FEATURE: the register is read, then written with the bit of the   *)
(* feature, then read again. *)
Features == {"ENABLE", "SUSPEND", "POWER", "C_CONNECTION", "C_ENABLE", "C_SUSPEND", "C_RESET"}

ClearFeature ==
  /\ pc = "ready" /\ pc' = "clear"
  /\ feature' \in Features /\ oldval' = Harmless
  /\ UNCHANGED <<port, hub, rec, plugs, resets>>

newval ==
  CASE feature = "ENABLE"       -> oldval \union {"ena"}
    [] feature = "SUSPEND"      -> oldval \union {"res"}
    [] feature = "POWER"        -> oldval \ {"pwr"}
    [] feature = "C_CONNECTION" -> oldval \union {"det"}
    [] feature = "C_ENABLE"     -> oldval \union {"enchg"}
    [] feature = "C_RESET"      -> oldval \ {"rst"}
    [] OTHER                    -> oldval

ClearWrite ==
  /\ Goto("clear", "after")
  /\ port' = Written(newval)
  /\ forced' = IF feature = "C_CONNECTION"
               THEN [disconnect |-> FALSE, connect |-> forced.disconnect] ELSE forced
  /\ UNCHANGED <<hub, recover, vacated, plugs, resets>>

ClearSignal ==
  /\ Goto("after", "ready")
  /\ changed' = (changed \/ port \intersect Change # {} \/ forced.connect)
  /\ UNCHANGED <<port, queue, caused, rec, plugs, resets>>

GetStatus ==
  /\ pc = "ready"
  /\ vacated' = ("conn" \notin port \/ forced.disconnect)
  /\ UNCHANGED <<port, task, hub, recover, forced, plugs, resets>>

-----------------------------------------------------------------------------
(* The software interrupts                                                 *)

Left(known) == IF known THEN <<>> ELSE queue

Dropped(known) == FALSE   \* mutant: the flag falls though nobody waits
Still(known)   == known /\ queue = <<>>
PendingIO(known) == queue' = Left(known) /\ changed' = Still(known)

PendingInt ==
  /\ caused /\ caused' = FALSE
  /\ PendingIO(changed)
  /\ UNCHANGED <<port, task, rec, plugs, resets>>

(* The core soft reset of the wedge recovery ends with the port powered.   *)
core_reset_recover == port' = {"pwr"} /\ changed' = TRUE

Escalate ==
  /\ Opened /\ resets < MaxResets /\ resets' = resets + 1
  /\ core_reset_recover
  /\ UNCHANGED <<task, queue, caused, rec, plugs>>

split_fsm_recover ==
  /\ Recovery /\ Opened /\ resets < MaxResets /\ resets' = resets + 1
  /\ recover' = 10
  /\ UNCHANGED <<port, task, hub, forced, vacated, plugs>>

(* Every 150 ms.                                                           *)
Watchdog ==
  /\ recover = 0
  /\ PendingIO(changed)
  /\ UNCHANGED <<port, task, caused, rec, plugs, resets>>

(* A visit that finds a split interrupt transfer wedged for good.          *)
WatchdogPokes ==
  /\ recover = 0
  /\ PendingIO(TRUE)
  /\ UNCHANGED <<port, task, caused, rec, plugs, resets>>

(* The same visit with a port recovery under way, after its answers.       *)
Recovering(from, to) ==
  /\ recover = from /\ recover' = to
  /\ queue' = Left(changed)
  /\ UNCHANGED <<task, vacated, plugs, resets>>

PowerCycle ==
  /\ Recovering(10, 1)
  /\ core_reset_recover
  /\ UNCHANGED <<caused, forced>>

AwaitConnect ==
  /\ \/ "conn" \in port /\ Recovering(1, 4)
     \/ "conn" \notin port /\ Recovering(1, 0)   \* after ten seconds
  /\ changed' = Still(changed)
  /\ UNCHANGED <<port, caused, forced>>

Debounced ==
  /\ Recovering(4, 2)
  /\ hostport_rmw({"rst"}, {}) /\ changed' = Still(changed)
  /\ UNCHANGED <<caused, forced>>

Released ==
  /\ Recovering(2, 3)
  /\ hostport_rmw({}, {"rst"}) /\ changed' = Still(changed)
  /\ UNCHANGED <<caused, forced>>

(* An unplug is shown first, then the plug.                                *)
Report ==
  /\ Recovering(3, 0)
  /\ forced' = [disconnect |-> TRUE, connect |-> FALSE]
  /\ changed' = TRUE /\ caused' = TRUE
  /\ UNCHANGED port

-----------------------------------------------------------------------------
Init ==
  /\ port \in {{}, {"pwr"}, {"pwr", "conn", "det"}}
  /\ pc = "power" /\ feature = None /\ oldval = {}
  /\ queue = <<>> /\ changed = FALSE /\ caused = FALSE
  /\ recover = 0 /\ forced = [disconnect |-> FALSE, connect |-> FALSE]
  /\ vacated = FALSE /\ plugs = 0 /\ resets = 0

OpenUnit == OpenPower \/ OpenLook \/ OpenAssert \/ OpenRelease \/ OpenReport
Ports    == SetFeature \/ PortReset \/ ClearFeature \/ GetStatus
Waits    == ResetAssert \/ ResetRelease \/ ResetDone \/ ClearWrite \/ ClearSignal
Visit    == Watchdog \/ PowerCycle \/ AwaitConnect \/ Debounced \/ Released \/ Report

Next ==
  \/ OpenUnit \/ Ports \/ Waits
  \/ \E r \in Readers : cmdIntXFer(r) \/ AbortIO(r)
  \/ PendingInt \/ Escalate \/ split_fsm_recover \/ Visit \/ WatchdogPokes
  \/ Connect \/ Disconnect

Spec == Init /\ [][Next]_vars

(* Readers in progress end and both software interrupts run.              *)
Fairness == WF_vars(OpenUnit) /\ WF_vars(Waits) /\ WF_vars(PendingInt) /\ WF_vars(Visit)
FairSpec == Spec /\ Fairness

-----------------------------------------------------------------------------
Bits == {"pwr", "conn", "ena", "rst", "susp", "res"} \union Change
TypeOK ==
  /\ port \subseteq Bits
  /\ recover \in {0, 1, 2, 3, 4, 10} /\ ToSet(queue) \subseteq Readers

(* Two steps that write the register for one purpose never do another's:   *)
(* a change of the port is forgotten only by the request that names it,    *)
(* and a port is disabled only by one that asks for it, or by a reset.     *)
AsAsked ==
   LET gone(b) == b \in port /\ b \notin port'
       asked(f) == pc = "clear" /\ feature = f
       again == port' = {"pwr"}
   IN /\ gone("det") => asked("C_CONNECTION") \/ again
      /\ gone("enchg") => asked("C_ENABLE") \/ again
      /\ gone("ena") => \/ asked("ENABLE") \/ asked("POWER") \/ again
                       \/ "conn" \notin port' \/ "rst" \in port'
OnlyAsked == [][AsAsked]_vars

(* A change that was raised is told to somebody: the flag outlives every   *)
(* visit that finds nobody waiting. *)
TellsOrKeeps ==
  (changed /\ ~changed') =>
     Len(queue') < Len(queue) \/ \E r \in Readers : cmdIntXFer(r)
ToldOrKept == [][TellsOrKeeps]_vars

(* The inductive invariant: what a CLEAR_FEATURE remembers of the register *)
(* clears nothing when it is written back.                                 *)
IInv ==
  /\ TypeOK /\ queue \in Seq(Readers) /\ changed \in BOOLEAN
  /\ pc \in {"clear", "after"} => feature \in Features
  /\ oldval \subseteq {"pwr", "conn", "rst", "susp", "res"}

(* What the root hub promises, all of it that is no liveness.              *)
RootHubTells == []TypeOK /\ [][AsAsked /\ TellsOrKeeps]_vars

(* Everybody who waits when a port change is raised is told of it (not     *)
(* with two that wait: cmdIntXFer tells the one that comes and forgets).   *)
Told == \A r \in Readers : (changed /\ r \in ToSet(queue)) ~> r \notin ToSet(queue)

(* A change that the port shows is raised (of a port that connects later   *)
(* than the driver looks it is not). *)
ConnectTold == "det" \in port ~> (changed \/ "det" \notin port)

(* A port recovery shows the class driver an empty port before the device  *)
(* that came back. *)
VacancySeen == [][(forced.disconnect /\ ~forced'.disconnect) => vacated]_vars

(* A port does not go on resuming for ever. *)
ResumeEnds == "res" \in port ~> "res" \notin port
=============================================================================
