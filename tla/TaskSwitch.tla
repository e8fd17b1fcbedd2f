----------------------------- MODULE TaskSwitch -----------------------------
(***************************************************************************)
(* Exec's task switch on this port: Wait's voluntary switch, the           *)
(* involuntary one, the dispatcher with its idle loop, and the accounting  *)
(* hook every dispatch passes through.                                     *)
(*                                                                         *)
(* Disable only counts here: what keeps a handler away is the SR's mask,   *)
(* which the dispatcher raises and the voluntary switch leaves at zero     *)
(* ("move.w #0x2000,%sr").  So a handler's Signal may fall anywhere but in *)
(* the dispatcher; where in the voluntary switch is the parameter Windows. *)
(*                                                                         *)
(* Every task waits for one signal.  Priorities are equal; FPU and AMMX    *)
(* state, task exceptions (TF_EXCEPT), ex_LaunchPoint and the frame's own  *)
(* layout are left out.  Exec's Wait, Signal, core_Switch and              *)
(* core_Dispatch are outside the repository; a Signal sent by a task is    *)
(* taken as one step.                                                      *)
(***************************************************************************)
EXTENDS Integers, Sequences, SequencesExt, FiniteSets

CONSTANTS
  Task,      \* the tasks
  Windows,   \* the points of the voluntary switch where a handler may run:
             \* a subset of {"checked", "listed"}
  MaxNow     \* bound: ticks of the counter

TaskAssumption == IsFiniteSet(Task) /\ MaxNow \in Nat

VARIABLES
  pc,        \* "user", in Wait's switch, in the dispatcher, or "idle"
  masked,    \* the SR keeps interrupts away
  this,      \* ThisTask
  state,     \* tc_State of each task: "run", "ready", "wait"
  ready,     \* TaskReady
  waiting,   \* TaskWait, as the sequence the switch appends to
  recvd,     \* the tasks whose signal is pending
  nest,      \* IDNestCnt
  saved,     \* tc_IDNestCnt of each task
  own,       \* history: the nesting each task believes in
  now,       \* CNTVALLO
  stamp,     \* usage_RunStamp
  charged,   \* usage_RunTask
  busy,      \* iet_private2 of each task: what it has been charged
  ran        \* history: how long each task was really on the CPU

switch == <<pc, masked, this, state, ready, waiting, recvd, nest, saved, own>>
usage  == <<now, stamp, charged, busy, ran>>
vars   == <<switch, usage>>

Init ==
  /\ pc = "user" /\ masked = FALSE
  /\ this \in Task /\ charged = this
  /\ state = [t \in Task |-> IF t = this THEN "run" ELSE "ready"]
  /\ \E q \in SetToSeqs(Task \ {this}) : ready = q
  /\ waiting = <<>> /\ recvd = {}
  /\ nest = -1 /\ saved = [t \in Task |-> -1] /\ own = [t \in Task |-> -1]
  /\ now = 0 /\ stamp = 0
  /\ busy = [t \in Task |-> 0] /\ ran = [t \in Task |-> 0]

(***************************************************************************)
(* The running task.                                                       *)
(***************************************************************************)

\* Disable and Enable, one level deep.
Disable == /\ pc = "user" /\ nest = -1
           /\ nest' = 0 /\ own' = [own EXCEPT ![this] = 0]
           /\ UNCHANGED <<pc, masked, this, state, ready, waiting, recvd, saved, usage>>
Enable  == /\ pc = "user" /\ nest = 0
           /\ nest' = -1 /\ own' = [own EXCEPT ![this] = -1]
           /\ UNCHANGED <<pc, masked, this, state, ready, waiting, recvd, saved, usage>>

\* Wait: a pending signal is taken at once, else the voluntary switch.
Take == /\ pc = "user" /\ this \in recvd
        /\ recvd' = recvd \ {this}
        /\ UNCHANGED <<pc, masked, this, state, ready, waiting, nest, saved, own, usage>>
Wait == /\ pc = "user" /\ this \notin recvd
        /\ pc' = "entry"
        /\ UNCHANGED <<masked, this, state, ready, waiting, recvd, nest, saved, own, usage>>

\* m68k_VoluntarySwitch: the frame is saved, IDNestCnt counts one more, the signals
\* are looked at again; with one pending the task goes on, and Wait restores its
\* nesting.
NotAgain == FALSE
Pending == this \in recvd
Recheck ==
  /\ pc = "entry"
  /\ IF Pending THEN pc' = "user" /\ UNCHANGED nest
                       ELSE pc' = "checked" /\ nest' = nest + 1
  /\ UNCHANGED <<masked, this, state, ready, waiting, recvd, saved, own, usage>>
Commit ==
  /\ pc = "checked" /\ pc' = "listed"
  /\ state' = [state EXCEPT ![this] = "wait"]
  /\ UNCHANGED <<masked, this, ready, waiting, recvd, nest, saved, own, usage>>
\* tc_IDNestCnt keeps the raised count; Wait takes it down again when it returns.
KeepNothing == saved
KeepNest == [saved EXCEPT ![this] = nest - 1]
Insert ==
  /\ pc = "listed" /\ pc' = "dispatch"
  /\ waiting' = Append(waiting, this)
  /\ saved' = KeepNest /\ nest' = -1
  /\ UNCHANGED <<masked, this, state, ready, recvd, own, usage>>

\* The involuntary Switch, on the way out of an interrupt, where Exec's counts allow.
Preempt ==
  /\ pc = "user" /\ nest < 0 /\ ready # <<>>
  /\ pc' = "dispatch"
  /\ state' = [state EXCEPT ![this] = "ready"]
  /\ ready' = Append(ready, this)
  /\ saved' = [saved EXCEPT ![this] = nest]
  /\ UNCHANGED <<masked, this, waiting, recvd, nest, own, usage>>

(***************************************************************************)
(* __Dispatch_this, the idle loop and the accounting hook.                 *)
(***************************************************************************)

LeaveOpen == FALSE
Mask == TRUE
Close ==
  /\ pc = "dispatch" /\ pc' = "look"
  /\ masked' = Mask
  /\ UNCHANGED <<this, state, ready, waiting, recvd, nest, saved, own, usage>>

\* emu68_CpuUsageDispatch: the interval since the last dispatch goes to the task that
\* was dispatched then.
Forget == busy
Account == [busy EXCEPT ![charged] = @ + (now - stamp)]
Dispatch ==
  /\ pc = "look" /\ ready # <<>>
  /\ pc' = "user" /\ masked' = FALSE
  /\ this' = Head(ready) /\ ready' = Tail(ready)
  /\ state' = [state EXCEPT ![Head(ready)] = "run"]
  /\ nest' = saved[Head(ready)]
  /\ busy' = Account /\ charged' = Head(ready) /\ stamp' = now
  /\ UNCHANGED <<waiting, recvd, saved, own, now, ran>>

\* Nothing to run: the nesting is dropped, and STOP opens the mask as it sleeps.
Empty ==
  /\ pc = "look" /\ ready = <<>>
  /\ pc' = "stop" /\ nest' = -1
  /\ UNCHANGED <<masked, this, state, ready, waiting, recvd, saved, own, usage>>
Stop ==
  /\ pc = "stop" /\ pc' = "idle" /\ masked' = FALSE
  /\ UNCHANGED <<this, state, ready, waiting, recvd, nest, saved, own, usage>>

(***************************************************************************)
(* Outside: Signal, and time.                                              *)
(***************************************************************************)

\* Remove takes a node off the list it is on.
Unlink(q, t) ==
  LET i == CHOOSE i \in 1..Len(q) : q[i] = t
  IN  [j \in 1..(Len(q) - 1) |-> IF j < i THEN q[j] ELSE q[j + 1]]
\* Signal: the bit is set; a task whose state says that it waits is made ready.
Post(t) ==
  /\ recvd' = recvd \cup {t}
  /\ IF state[t] = "wait"
       THEN /\ state' = [state EXCEPT ![t] = "ready"]
            /\ ready' = Append(ready, t)
            /\ waiting' = IF t \in ToSet(waiting) THEN Unlink(waiting, t) ELSE waiting
       ELSE UNCHANGED <<state, ready, waiting>>
\* From a handler, wherever the mask and the bound on the windows let it in; a CPU
\* that slept goes round the idle loop again.
Handler(t) ==
  /\ ~masked /\ t \notin recvd
  /\ pc \in {"checked", "listed"} => pc \in Windows
  /\ Post(t)
  /\ pc' = IF pc = "idle" THEN "dispatch" ELSE pc
  /\ UNCHANGED <<masked, this, nest, saved, own, usage>>
\* From the running task to another.
Send(t) ==
  /\ pc = "user" /\ t # this /\ t \notin recvd
  /\ Post(t)
  /\ UNCHANGED <<pc, masked, this, nest, saved, own, usage>>

Tick ==
  /\ now < MaxNow /\ now' = now + 1
  /\ ran' = IF pc = "idle" THEN ran ELSE [ran EXCEPT ![this] = @ + 1]
  /\ UNCHANGED <<switch, stamp, charged, busy>>

Cpu == Recheck \/ Commit \/ Insert \/ Close \/ Dispatch \/ Empty \/ Stop
Next ==
  \/ Disable \/ Enable \/ Take \/ Wait \/ Preempt
  \/ Cpu
  \/ \E t \in Task : Handler(t) \/ Send(t)
  \/ Tick

\* The CPU goes on; a task neither keeps interrupts disabled nor the CPU for ever: its
\* quantum ends.
Fairness == WF_vars(Cpu) /\ SF_vars(Enable) /\ SF_vars(Preempt)
Spec == Init /\ [][Next]_vars /\ Fairness

(***************************************************************************)
(* What the switch must keep.                                              *)
(***************************************************************************)

TypeOK ==
  /\ pc \in {"user", "entry", "checked", "listed", "dispatch", "look", "stop", "idle"}
  /\ masked \in BOOLEAN /\ this \in Task /\ recvd \subseteq Task
  /\ state \in [Task -> {"run", "ready", "wait"}]
  /\ ready \in Seq(Task) /\ waiting \in Seq(Task)
  /\ nest \in -1..1 /\ saved \in [Task -> -1..0] /\ own \in [Task -> -1..0]
  /\ now \in 0..MaxNow /\ stamp \in 0..now /\ charged \in Task
  /\ busy \in [Task -> 0..stamp] /\ ran \in [Task -> 0..now]

\* A task that waits has no signal pending ("Only the signal recheck and
\* scheduler-list commit below form the critical section"), and is on the list that
\* its state names, once.
NoLostWakeup == \A t \in Task : t \in ToSet(waiting) => t \notin recvd
Once(q) == \A i, j \in 1..Len(q) : q[i] = q[j] => i = j
OnItsList ==
  /\ \A t \in Task : t \in ToSet(ready) <=> state[t] = "ready"
  /\ \A t \in Task : t \in ToSet(waiting) <=> state[t] = "wait" /\ ~(pc = "listed" /\ t = this)
  /\ Once(ready) /\ Once(waiting)

\* The CPU does not sleep on STOP with a task ready: nothing can become ready between
\* the look at the list and the sleep.
NoSleepOverReady == pc = "idle" => ready = <<>>

\* A task that has the CPU has the interrupt nesting it left with, whatever the tasks
\* that ran meanwhile did to the one counter.
NestIsOwn == pc = "user" => nest = own[this]

\* No tick is lost or charged twice: what all tasks have been charged is the time to
\* the last dispatch, and no task was charged less than it ran.
Some(S) == CHOOSE t \in S : TRUE
Sum(f) ==
  LET sum[S \in SUBSET Task] == IF S = {} THEN 0 ELSE f[Some(S)] + sum[S \ {Some(S)}]
  IN  sum[Task]
Unbilled(t) == IF t = charged THEN now - stamp ELSE 0
NoneUndercharged == \A t \in Task : busy[t] + Unbilled(t) >= ran[t]
EveryTickCharged == Sum(busy) = stamp /\ NoneUndercharged

\* "the interval between two consecutive dispatches belongs entirely to whoever was
\* current during it": a task is charged what it ran.  The idle loop is current too,
\* and has no name: the code charges its sleep to the task that went to wait.
ChargedWhatItRan == \A t \in Task : busy[t] + Unbilled(t) = ran[t]

\* The inductive invariant, in parts.  Who has the CPU and what its state says:
\* between Wait's commit and the dispatch it has the CPU and may be made ready.
Holding == pc \in {"user", "entry", "checked"}
Holder ==
  /\ charged = this
  /\ \A t \in Task : state[t] = "run" <=> Holding /\ t = this
  /\ pc = "listed" => state[this] \in {"wait", "ready"}
\* TaskReady holds every ready task once.
ReadyList == Once(ready) /\ \A t \in Task : t \in ToSet(ready) <=> state[t] = "ready"
\* With the mask up nothing becomes ready between the look and the sleep.
Sleep ==
  /\ pc \in {"look", "stop"} => masked
  /\ pc \in {"stop", "idle"} => ready = <<>>
\* The nesting a task left with is in tc_IDNestCnt, or in the counter.
Nesting ==
  /\ pc \in {"user", "entry"} => nest = own[this]
  /\ pc \in {"checked", "listed"} => nest = own[this] + 1
  /\ \A t \in Task : (t = this /\ (Holding \/ pc = "listed")) \/ saved[t] = own[t]
IInv == TypeOK /\ Holder /\ ReadyList /\ Sleep /\ Nesting /\ NoneUndercharged

\* TaskWait, where no handler runs in the voluntary switch (Windows is empty).
WaitList ==
  /\ Once(waiting)
  /\ \A t \in Task : t \in ToSet(waiting) <=> state[t] = "wait" /\ ~(pc = "listed" /\ t = this)
  /\ \A t \in Task : t \in ToSet(waiting) => t \notin recvd
  /\ pc \in {"checked", "listed"} => this \notin recvd
  /\ pc = "listed" => state[this] = "wait"

\* What the switch promises, all of it that is no liveness.
TasksKept ==
  /\ TypeOK /\ NoLostWakeup /\ OnItsList /\ NoSleepOverReady /\ NestIsOwn
  /\ EveryTickCharged

\* A signalled task runs.
SignalledRuns == \A t \in Task : t \in recvd ~> this = t /\ pc = "user"
=============================================================================
