------------------------------- MODULE V3dJobs -------------------------------
(***************************************************************************)
(* Jobs of the VideoCore IV 3D engine: vc4_v3d.c, and the submission, wait *)
(* and reclaim paths of vc4_drm_aros.c and vc4_galliumclass.c              *)
(* (aros/arch/m68k-emu68/hidd/vc4gallium).                                 *)
(*                                                                         *)
(* A job is binned on control thread 0 and then rendered on thread 1; the  *)
(* engine's interrupt is masked, so the latches, the hand-off from thread  *)
(* 0 to thread 1 and the counters are only seen by whoever polls: a client *)
(* that holds render_lock, or the service task, which takes no lock.  What *)
(* runs between Disable and Enable is one step, everything else is not.    *)
(* A job is its sequence number; command lists, their validation and the   *)
(* buffers of the client are left out.                                     *)
(***************************************************************************)
EXTENDS Integers

CONSTANTS
    Client,     \* tasks that submit, wait and create buffers
    Pools,      \* VC4_NUM_POOL_SETS
    Count,      \* values of the engine's frame counters: 256
    Pressure,   \* the firmware's heap may run dry
    Hangs,      \* control threads may hang
    Needs,      \* bound: requests for memory of one binner
    Probes,     \* bound: waits with no timeout, in all
    MaxJobs     \* bound: jobs

\* Sizes: Pools < Count, so that a pool set is waited for before a counter
\* comes round.
EngineAssumption ==
    /\ Pools \in Nat \ {0} /\ Count \in Nat \ {0} /\ Needs \in Nat /\ MaxJobs \in Nat
    /\ Pressure \in BOOLEAN /\ Hangs \in BOOLEAN /\ "free" \notin Client

VARIABLES
    ct0, ct1,           \* the job on each control thread, or 0
    hung,               \* threads that will not finish
    BFC, RFC,           \* frames binned and rendered, modulo Count
    INTCTL,             \* latched events
    bmoom, bpos,        \* the binner waits for memory; memory it was given
    needs,              \* requests it can still make
    pending_render,     \* the job whose render is to be started, or 0
    seqno, finished_seqno,
    last_bfc, last_rfc, bfc_completed, rfc_completed,
    overflow_handed,
    pool_seqno, pool_idx,
    built,              \* the job each pool set was filled for, 0 once freed
    render_lock,        \* its owner, or "free"
    pc, want, ret,      \* of each client
    probes,
    polling, signal,    \* the service task polls; it was signalled
    binned, rendered, killed    \* history: jobs that came so far

engine  == <<ct0, ct1, hung, BFC, RFC, bmoom, bpos, needs, binned, rendered>>
counts  == <<finished_seqno, last_bfc, last_rfc, bfc_completed, rfc_completed>>
pools   == <<pool_seqno, pool_idx, built>>
clients == <<render_lock, pc, want, ret, probes>>
service == <<polling, signal>>
vars    == <<engine, INTCTL, pending_render, seqno, counts, overflow_handed, pools,
             clients, service, killed>>

Next1 == seqno + 1      \* the number the job being prepared will get

Init ==
    /\ ct0 = 0 /\ ct1 = 0 /\ hung = {} /\ BFC = 0 /\ RFC = 0 /\ INTCTL = {}
    /\ bmoom = FALSE /\ bpos = FALSE /\ needs = 0
    /\ pending_render = 0 /\ seqno = 0 /\ finished_seqno = 0
    /\ last_bfc = 0 /\ last_rfc = 0 /\ bfc_completed = 0 /\ rfc_completed = 0
    /\ overflow_handed = 0
    /\ pool_seqno = [p \in 0..Pools - 1 |-> 0] /\ pool_idx = 0
    /\ built = [p \in 0..Pools - 1 |-> 0]
    /\ render_lock = "free" /\ pc = [c \in Client |-> "idle"]
    /\ want = [c \in Client |-> 0] /\ ret = [c \in Client |-> "idle"] /\ probes = 0
    /\ polling = FALSE /\ signal = FALSE /\ binned = {} /\ rendered = {} /\ killed = {}

-----------------------------------------------------------------------------
(* The engine.                                                             *)

NeedMemory ==
    /\ ct0 # 0 /\ ~bmoom /\ needs > 0
    /\ needs' = needs - 1
    /\ IF bpos THEN bpos' = FALSE /\ UNCHANGED <<bmoom, INTCTL>>
       ELSE bmoom' = TRUE /\ INTCTL' = INTCTL \cup {"OUTOMEM"} /\ UNCHANGED bpos
    /\ UNCHANGED <<ct0, ct1, hung, BFC, RFC, binned, rendered, pending_render, seqno, counts,
                   overflow_handed, pools, clients, service, killed>>

BinDone ==
    /\ ct0 # 0 /\ ~bmoom /\ 0 \notin hung
    /\ ct0' = 0 /\ BFC' = (BFC + 1) % Count
    /\ INTCTL' = INTCTL \cup {"FLDONE"} /\ binned' = binned \cup {ct0}
    /\ UNCHANGED <<ct1, hung, RFC, bmoom, bpos, needs, rendered, pending_render, seqno,
                   counts, overflow_handed, pools, clients, service, killed>>

\* The command list begins with a wait for the semaphore its binner ends with.
RenderDone ==
    /\ ct1 \in binned /\ 1 \notin hung
    /\ ct1' = 0 /\ RFC' = (RFC + 1) % Count
    /\ rendered' = rendered \cup {ct1}
    /\ UNCHANGED <<binned, ct0, hung, BFC, INTCTL, bmoom, bpos, needs, pending_render, seqno,
                   counts, overflow_handed, pools, clients, service, killed>>

Hang ==
    /\ Hangs
    /\ \E e \in {0, 1} \ hung : /\ IF e = 0 THEN ct0 # 0 ELSE ct1 # 0
                                /\ hung' = hung \cup {e}
    /\ UNCHANGED <<ct0, ct1, BFC, RFC, bmoom, bpos, needs, binned, rendered, INTCTL,
                   pending_render, seqno, counts, overflow_handed, pools, clients,
                   service, killed>>

-----------------------------------------------------------------------------
(* What runs under Disable.                                                *)

KickBlind ==   \* mutant: the renderer is not looked at
    IF pending_render # 0
    THEN ct1' = (IF ct1 = 0 THEN pending_render ELSE ct1) /\ pending_render' = 0
    ELSE UNCHANGED <<ct1, pending_render>>

\* vc4_v3d_kick_pending_render: "NEVER write CT1CA while the previous render is
\* still running", the write would be ignored.
Kick ==
    IF pending_render # 0 /\ ct1 = 0
    THEN ct1' = pending_render /\ pending_render' = 0
    ELSE UNCHANGED <<ct1, pending_render>>

\* vc4_v3d_service_interrupts: feed a binner without memory, once; hand over
\* to the renderer; clear what was read.
Feed ==
    LET oom == "OUTOMEM" \in INTCTL \/ bmoom IN
    /\ overflow_handed' = IF oom THEN IF overflow_handed = 0 THEN 1 ELSE 2
                          ELSE overflow_handed
    /\ IF oom /\ overflow_handed = 0
       THEN bmoom' = FALSE /\ bpos' = ~bmoom
       ELSE UNCHANGED <<bmoom, bpos>>

Service ==
    /\ Feed
    /\ IF "FLDONE" \in INTCTL THEN Kick ELSE UNCHANGED <<ct1, pending_render>>
    /\ INTCTL' = {}
    /\ UNCHANGED <<ct0, hung, BFC, RFC, needs, binned, rendered>>

NeverReached(bins) == FALSE   \* mutant: only the latch starts a render
Reached(bins)      == bins >= seqno

\* vc4_v3d_advance_counters: differences modulo Count since the last look; the
\* render of a binned job is started from here too; an idle engine whose
\* counter agrees with seqno is believed.
Advance ==
    LET bins == bfc_completed + ((BFC - last_bfc) % Count)
        done == rfc_completed + ((RFC - last_rfc) % Count)
    IN  /\ last_bfc' = BFC /\ last_rfc' = RFC
        /\ IF Reached(bins) THEN Kick ELSE UNCHANGED <<ct1, pending_render>>
        /\ LET resync == /\ done < seqno /\ pending_render' = 0
                         /\ RFC = seqno % Count /\ ct0 = 0 /\ ct1' = 0
           IN  /\ bfc_completed' = IF resync THEN seqno ELSE bins
               /\ rfc_completed' = IF resync THEN seqno ELSE done
        /\ finished_seqno' = IF rfc_completed' > seqno THEN seqno ELSE rfc_completed'
    /\ UNCHANGED <<ct0, hung, BFC, RFC, INTCTL, bmoom, bpos, needs, binned, rendered, overflow_handed>>

-----------------------------------------------------------------------------
(* Clients.  render_lock nests: the wait of a submission keeps it.         *)

Goto(c, l) == pc' = [pc EXCEPT ![c] = l]
Lock(c)    == render_lock = "free" /\ render_lock' = c
At(c, l)   == pc[c] = l

WaitFor(c, s, r, l) == /\ want' = [want EXCEPT ![c] = s]
                       /\ ret' = [ret EXCEPT ![c] = r] /\ Goto(c, l)

\* A wait that began a submission goes on with the lock, any other gives it back.
Leave(c) == /\ Goto(c, ret[c])
            /\ render_lock' = IF ret[c] = "build" THEN c ELSE "free"

\* v3d_wait_seqno serves before it counts, vc4_aros_wait_idle counts first.
BeginWait(c) ==
    /\ At(c, "idle") /\ Lock(c)
    /\ \/ \E s \in finished_seqno + 1..seqno : WaitFor(c, s, "idle", "serve")
       \/ finished_seqno < seqno /\ WaitFor(c, seqno, "idle", "count")
    /\ UNCHANGED <<engine, INTCTL, pending_render, seqno, counts, overflow_handed, pools,
                   probes, service, killed>>

\* A wait without a timeout serves and counts once.
BeginProbe(c) ==
    /\ At(c, "idle") /\ Lock(c) /\ finished_seqno < seqno /\ probes < Probes
    /\ probes' = probes + 1
    /\ WaitFor(c, 0, "idle", "serve")
    /\ UNCHANGED <<engine, INTCTL, pending_render, seqno, counts, overflow_handed, pools,
                   service, killed>>

Serve(c) ==
    /\ At(c, "serve") /\ Service /\ Goto(c, "count")
    /\ UNCHANGED <<seqno, counts, pools, render_lock, want, ret, probes, service, killed>>

CountFrames(c) ==
    /\ At(c, "count") /\ Advance
    /\ IF finished_seqno' >= want[c] THEN Leave(c)
       ELSE Goto(c, "serve") /\ UNCHANGED render_lock
    /\ UNCHANGED <<seqno, pools, want, ret, probes, service, killed>>

\* The budget of a wait is used up: both threads are reset, "the reset killed
\* EVERY in-flight job".
ResetOnly  == UNCHANGED <<last_bfc, last_rfc>>   \* mutant: no new snapshot
Resnapshot == last_bfc' = BFC /\ last_rfc' = RFC

TimeOut(c) ==
    /\ At(c, "serve") /\ finished_seqno < want[c]
    /\ ct0' = 0 /\ ct1' = 0 /\ hung' = {} /\ bmoom' = FALSE /\ needs' = 0
    /\ pending_render' = 0
    /\ finished_seqno' = seqno /\ bfc_completed' = seqno /\ rfc_completed' = seqno
    /\ Resnapshot
    /\ killed' = killed \cup ((1..seqno) \ rendered)
    /\ Leave(c)
    /\ UNCHANGED <<BFC, RFC, bpos, binned, rendered, INTCTL, seqno, overflow_handed, pools, want,
                   ret, probes, service>>

-----------------------------------------------------------------------------
(* do_submit_cl.                                                           *)

Alternate == FALSE   \* mutant: two sets are thought to be enough
InFlight == pool_seqno[pool_idx] > finished_seqno

\* A pool set in flight is waited for.
BeginSubmit(c) ==
    /\ At(c, "idle") /\ Lock(c) /\ seqno < MaxJobs
    /\ IF InFlight
       THEN WaitFor(c, pool_seqno[pool_idx], "build", "serve")
       ELSE Goto(c, "build") /\ UNCHANGED <<want, ret>>
    /\ UNCHANGED <<engine, INTCTL, pending_render, seqno, counts, overflow_handed, pools,
                   probes, service, killed>>

\* The pool set is filled with the lists of the job; the overspill buffer is
\* its own.  Out of memory, or on a list that does not validate, it ends here.
Build(c) ==
    /\ At(c, "build")
    /\ built' = [built EXCEPT ![pool_idx] = Next1]
    /\ \/ /\ overflow_handed' = 0 /\ bpos' = FALSE
          /\ Goto(c, "drain") /\ UNCHANGED render_lock
       \/ /\ Goto(c, "idle") /\ render_lock' = "free"
          /\ UNCHANGED <<overflow_handed, bpos>>
    /\ UNCHANGED <<ct0, ct1, hung, BFC, RFC, bmoom, needs, binned, rendered, INTCTL,
                   pending_render, seqno, counts, pool_seqno, pool_idx, want, ret,
                   probes, service, killed>>

\* The job before must have been binned and its render started.
Busy == ct0 # 0 \/ pending_render # 0

Drain(c) ==
    /\ At(c, "drain")
    /\ \/ Busy /\ Service /\ Goto(c, "drain2")
       \/ (~Busy \/ hung # {}) /\ Goto(c, "stash")
          /\ UNCHANGED <<engine, INTCTL, pending_render, overflow_handed>>
    /\ UNCHANGED <<seqno, counts, pools, render_lock, want, ret, probes, service, killed>>

Drain2(c) ==
    /\ At(c, "drain2") /\ Advance /\ Goto(c, "drain")
    /\ UNCHANGED <<seqno, pools, render_lock, want, ret, probes, service, killed>>

\* "Stash CT1 addresses BEFORE writing CT0EA".
Stash(c) ==
    /\ At(c, "stash")
    /\ pending_render' = Next1 /\ Goto(c, "start")
    /\ UNCHANGED <<engine, INTCTL, seqno, counts, overflow_handed, pools, render_lock,
                   want, ret, probes, service, killed>>

Start(c) ==
    /\ At(c, "start") /\ Goto(c, "kick")
    /\ IF ct0 = 0 THEN ct0' = Next1 /\ needs' = Needs ELSE UNCHANGED <<ct0, needs>>
    /\ UNCHANGED <<ct1, hung, BFC, RFC, bmoom, bpos, binned, rendered, INTCTL, pending_render,
                   seqno, counts, overflow_handed, pools, render_lock, want, ret, probes,
                   service, killed>>

Signal == signal' = TRUE

KickJob(c) ==
    /\ At(c, "kick") /\ Service /\ Signal /\ Goto(c, "tag")
    /\ UNCHANGED <<polling, seqno, counts, pools, render_lock, want, ret, probes, killed>>

Tag(c) ==
    /\ At(c, "tag")
    /\ seqno' = Next1
    /\ pool_seqno' = [pool_seqno EXCEPT ![pool_idx] = Next1]
    /\ pool_idx' = (pool_idx + 1) % Pools
    /\ Goto(c, "idle") /\ render_lock' = "free"
    /\ UNCHANGED <<engine, INTCTL, pending_render, counts, overflow_handed, built, want,
                   ret, probes, service, killed>>

-----------------------------------------------------------------------------
(* gpu_mem_reclaim, after an allocation failed: wait for the newest job,    *)
(* then free every pool set.                                                *)

BeginReclaim(c) ==
    /\ Pressure /\ At(c, "idle")
    /\ IF finished_seqno < seqno
       THEN Lock(c) /\ WaitFor(c, seqno, "free", "serve")
       ELSE Goto(c, "free") /\ UNCHANGED <<render_lock, want, ret>>
    /\ UNCHANGED <<engine, INTCTL, pending_render, seqno, counts, overflow_handed, pools,
                   probes, service, killed>>

Free(c) ==
    /\ At(c, "free") /\ Goto(c, "idle")
    /\ built' = [p \in DOMAIN built |-> 0]
    /\ pool_seqno' = [p \in DOMAIN built |-> 0]
    /\ UNCHANGED <<engine, INTCTL, pending_render, seqno, counts, overflow_handed,
                   pool_idx, render_lock, want, ret, probes, service, killed>>

-----------------------------------------------------------------------------
(* The service task: from a submission on, until the render is started.    *)

Wake ==
    /\ ~polling /\ signal /\ polling' = TRUE /\ signal' = FALSE
    /\ UNCHANGED <<engine, INTCTL, pending_render, seqno, counts, overflow_handed, pools,
                   clients, killed>>

Poll ==
    /\ polling
    /\ IF pending_render = 0 THEN UNCHANGED <<engine, INTCTL, pending_render, overflow_handed>>
                             ELSE Service
    /\ polling' = (pending_render' # 0)
    /\ UNCHANGED <<seqno, counts, pools, clients, signal, killed>>

-----------------------------------------------------------------------------
Engine == NeedMemory \/ BinDone \/ RenderDone
Task(c) == \/ BeginWait(c) \/ BeginProbe(c) \/ Serve(c) \/ CountFrames(c) \/ TimeOut(c)
           \/ BeginSubmit(c) \/ Build(c) \/ Drain(c) \/ Drain2(c) \/ Stash(c) \/ Start(c)
           \/ KickJob(c) \/ Tag(c) \/ BeginReclaim(c) \/ Free(c)

Next == Engine \/ Hang \/ Wake \/ Poll \/ \E c \in Client : Task(c)

\* The engine goes on, and tasks that have something to do are scheduled.
Loop(c) == \/ Serve(c) \/ CountFrames(c) \/ Drain(c) \/ Drain2(c)
           \/ Start(c) \/ KickJob(c)
Fair == /\ WF_vars(NeedMemory) /\ WF_vars(BinDone) /\ WF_vars(RenderDone)
        /\ WF_vars(Wake) /\ WF_vars(Poll)
        /\ \A c \in Client : WF_vars(Loop(c))

Spec == Init /\ [][Next]_vars /\ Fair
-----------------------------------------------------------------------------
(* Properties.                                                             *)

TypeOK ==
    /\ pending_render \in 0..Next1 /\ seqno \in 0..MaxJobs
    /\ overflow_handed \in 0..2 /\ pool_idx \in 0..Pools - 1
    /\ render_lock = "free" <=> \A c \in Client : pc[c] \in {"idle", "free"}

\* A job reported as finished has been rendered or died in a reset, with
\* counters that wrap, are only sampled now and then, and are skewed by every
\* reset.
FenceHonest == 1..finished_seqno \subseteq rendered \cup killed

\* No finished binner leaves a job behind: it is rendered, or its render is
\* running or waits for its start ("the frame is then silently dropped").
NoRenderDropped ==
    hung = {} => \A j \in 1..seqno :
                    j \in rendered \cup killed \cup {ct0, ct1, pending_render}

\* The buffers of a job are its own until it has ended.
PoolSafe ==
    \A j \in {ct0, ct1, pending_render} \ {0} : built[(j - 1) % Pools] = j

\* Three sentences of the code that do not hold; the README says how.
\* "Guarantees the binner's FLUSH has committed per-tile sublist writes to
\* memory before the renderer fetches them": no render is kicked before.
RenderAfterBin == ct1 # 0 => ct1 \in binned

\* "Feed the binner the per-frame overspill BO": a binner that asks for the
\* first time has not been passed over.
FirstRequestFed == bmoom /\ needs = Needs - 1 => overflow_handed = 0

\* "Start CT1 on FLDONE even if no wait path polls".
RenderStarts == \A j \in 1..MaxJobs : pending_render = j ~> pending_render # j

\* A wait for jobs that do not hang ends by polling alone: the budget is never
\* what ends it.
HealthyWaitEnds ==
    \A c \in Client :
        pc[c] \in {"serve", "drain"}
            ~> pc[c] \notin {"serve", "count", "drain", "drain2"}

-----------------------------------------------------------------------------
(* The inductive invariant.                                                *)

Labels == {"idle", "serve", "count", "build", "drain", "drain2", "stash", "start",
           "kick", "tag", "free"}

\* The job being prepared counts from the moment its render is stashed; its
\* binner may run from a step later.
Stashed == \E c \in Client : pc[c] \in {"start", "kick", "tag"}
Started == \E c \in Client : pc[c] \in {"kick", "tag"}
Jobs    == 1..IF Stashed THEN Next1 ELSE seqno
Begun   == 1..IF Started THEN Next1 ELSE seqno
Ended   == rendered \cup killed
Active  == {ct0, ct1, pending_render} \ {0}

Numbers ==
    /\ seqno \in Nat /\ finished_seqno \in 0..seqno /\ rfc_completed \in Nat
    /\ RFC \in 0..Count - 1 /\ last_rfc \in 0..Count - 1
    /\ pc \in [Client -> Labels] /\ ret \in [Client -> {"idle", "build", "free"}]
    /\ hung \subseteq {0, 1}

\* Whoever is on its way has the lock, and has it alone.
Locked == \A c \in Client : pc[c] \notin {"idle", "free"} <=> render_lock = c

\* Jobs are binned, stashed and rendered in their order, each once.
Order ==
    /\ ct0 \in {0} \cup Begun /\ ct1 \in {0} \cup Jobs /\ pending_render \in {0} \cup Jobs
    /\ binned \subseteq Begun /\ rendered \subseteq binned /\ killed \subseteq 1..seqno
    /\ Active \cap Ended = {} /\ \A b \in binned : ct0 # 0 => b < ct0
    /\ pending_render # 0 => ct1 < pending_render /\ ct0 <= pending_render
    /\ 0 \in hung => ct0 # 0
    /\ 1 \in hung => ct1 # 0
    /\ \A c \in Client :
         /\ pc[c] = "stash" => hung # {} \/ ~Busy
         /\ pc[c] = "start" => pending_render \in {0, Next1}

\* Only a thread that hangs makes the code forget a job, and it is one that comes
\* after what that thread stands at.
Lost(j)   == (0 \in hung /\ ct0 <= j) \/ (1 \in hung /\ ct1 < j)
Accounted == \A j \in Jobs : j \in Ended \cup {ct1, pending_render} \/ Lost(j)

\* What the counters say has happened, had they been looked at now, has.
Frames  == rfc_completed + ((RFC - last_rfc) % Count)
Counted == 1..Frames \subseteq Ended /\ 1..finished_seqno \subseteq Ended

IInv == Numbers /\ Locked /\ Order /\ Accounted /\ Counted

\* A job that is being prepared has a number left.
Preparing(c) == \/ pc[c] \in Labels \ {"idle", "serve", "count", "free"}
                \/ pc[c] \in {"serve", "count"} /\ ret[c] = "build"
Limited ==
    /\ seqno <= MaxJobs /\ overflow_handed \in 0..2
    /\ render_lock \in Client \cup {"free"}
    /\ \A c \in Client : Preparing(c) => seqno < MaxJobs

\* Whether a client may free the pools under another one's hands.
Alone == Pressure => \A c, d \in Client : c = d

Tags ==
    /\ want \in [Client -> 0..seqno] /\ pool_seqno \in [0..Pools - 1 -> 0..seqno]
    /\ built \in [0..Pools - 1 -> Nat] /\ pool_idx = seqno % Pools
    /\ finished_seqno <= rfc_completed

\* A pool set is filled only when the job it was filled for before has ended.
Pooled ==
    /\ \A j \in 1..seqno : j <= finished_seqno \/ j <= pool_seqno[(j - 1) % Pools]
    /\ \A c \in Client :
         /\ pc[c] \in {"serve", "count"} =>
              /\ ret[c] = "build" => want[c] = pool_seqno[pool_idx]
              /\ ret[c] = "free"  => want[c] = seqno /\ Pressure
         /\ pc[c] = "build" => pool_seqno[pool_idx] <= finished_seqno
         /\ pc[c] \in {"drain", "drain2", "stash", "start", "kick", "tag"} =>
              built[pool_idx] = Next1
         /\ pc[c] = "free" => finished_seqno = seqno /\ Pressure
    /\ PoolSafe
PInv == IInv /\ Tags /\ Pooled

\* What the jobs of the engine promise, all of it.
JobsKept == TypeOK /\ FenceHonest /\ NoRenderDropped /\ PoolSafe
=============================================================================
