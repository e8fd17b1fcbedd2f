------------------------------ MODULE MCProgress ------------------------------
(* What the guest must get done in the end, on small instances: of the       *)
(* console, the task switch, the Bluetooth UART, the Wi-Fi chip's interrupt, *)
(* the V3D's jobs, the planes of the display and the previous USB driver's   *)
(* queues, of which a behaviour runs one.                                    *)
EXTENDS Naturals, Sequences

VARIABLES
    machine,
    whole, console_ready, line, head, tail, data, pos, next_core, scanned,
    wire,
    pc, masked, this, state, ready, waiting, recvd, nest, saved, own, now,
    stamp, charged, busy, ran,
    hci_unit, task, opens, owner, powered, hci_enabled, quit, out, fifo,
    ring, rx, claim, lost, queue, replies, framed,
    chip, f2, doze, intstatus, mail, ien, signalEnable, wifi_signal, pump,
    ist, frames,
    ct0, ct1, hung, BFC, RFC, INTCTL, bmoom, bpos, needs, pending_render,
    seqno, finished_seqno, last_bfc, last_rfc, bfc_completed, rfc_completed,
    overflow_handed, pool_seqno, pool_idx, built, render_lock, job_pc, want,
    job_ret, probes, polling, signal, binned, rendered, killed,
    hvs_lock, hvs_Active, lists, hvs_head, scan, slot, base, ovl, CurVisible,
    owed, front, pages, ref, pinned, displaced, app, prev, page, rendering,
    denise, composing, cursor, mode, modes,
    unit

\* A bulk pipe of one device, and an interrupt pipe of another.
OtgReq  == {"b1", "i1"}
OtgKind == [r \in OtgReq |-> IF r = "b1" THEN "bulk" ELSE "int"]
OtgPipe == [r \in OtgReq |-> IF r = "b1" THEN "p1" ELSE "p2"]
OtgDev  == [r \in OtgReq |-> IF r = "b1" THEN "d1" ELSE "d2"]

C == INSTANCE ConsoleRings
    WITH Cores <- 2, Char <- {"x", "nl"}, NL <- "nl", LineMax <- 2,
         RingSize <- 2
T == INSTANCE TaskSwitch
    WITH Task <- {"t1", "t2", "t3"}, Windows <- {}, MaxNow <- 0
U == INSTANCE BtUart
    WITH Packets <- 2, Length <- 3, Ring <- 6, Buf <- 4, Reads <- 2,
         Claims <- {2, 5}, Opens <- 1, unit <- hci_unit,
         enabled <- hci_enabled
W == INSTANCE WifiInterrupt
    WITH MaxFrames <- 3, signal <- wifi_signal
J == INSTANCE V3dJobs
    WITH Client <- {"a"}, Pools <- 2, Count <- 3, Pressure <- TRUE,
         Hangs <- FALSE, Needs <- 0, Probes <- 1, MaxJobs <- 2, pc <- job_pc,
         ret <- job_ret
D == INSTANCE DisplayPlanes
    WITH BO <- {}, Slots <- 2, Moves <- TRUE, Late <- FALSE, MaxModes <- 2,
         lock <- hvs_lock, head <- hvs_head
A == INSTANCE OtgRequests
    WITH Req <- OtgReq, Kind <- OtgKind, Split <- {}, Pipe <- OtgPipe,
         Dev <- OtgDev, Interval <- [r \in OtgReq |-> 3], Limit <- 1,
         Slots <- 1, MaxFaults <- 0, Jams <- FALSE

consoleVars == <<whole, console_ready, line, head, tail, data, pos,
                 next_core, scanned, wire>>
taskVars == <<pc, masked, this, state, ready, waiting, recvd, nest, saved,
              own, now, stamp, charged, busy, ran>>
hciVars == <<hci_unit, task, opens, owner, powered, hci_enabled, quit, out,
             fifo, ring, rx, claim, lost, queue, replies, framed>>
wifiVars == <<chip, f2, doze, intstatus, mail, ien, signalEnable,
              wifi_signal, pump, ist, frames>>
jobsVars == <<ct0, ct1, hung, BFC, RFC, INTCTL, bmoom, bpos, needs,
              pending_render, seqno, finished_seqno, last_bfc, last_rfc,
              bfc_completed, rfc_completed, overflow_handed, pool_seqno,
              pool_idx, built, render_lock, job_pc, want, job_ret, probes,
              polling, signal, binned, rendered, killed>>
displayVars == <<hvs_lock, hvs_Active, lists, hvs_head, scan, slot, base,
                 ovl, CurVisible, owed, front, pages, ref, pinned, displaced,
                 app, prev, page, rendering, denise, composing, cursor, mode,
                 modes>>
queuesVars == <<unit>>
all == <<machine, consoleVars, taskVars, hciVars, wifiVars, jobsVars,
         displayVars, queuesVars>>

\* The machine m moves, and no other.
Turn(m) ==
    /\ machine = m /\ UNCHANGED machine
    /\ IF m = "console" THEN TRUE ELSE UNCHANGED consoleVars
    /\ IF m = "task" THEN TRUE ELSE UNCHANGED taskVars
    /\ IF m = "hci" THEN TRUE ELSE UNCHANGED hciVars
    /\ IF m = "wifi" THEN TRUE ELSE UNCHANGED wifiVars
    /\ IF m = "jobs" THEN TRUE ELSE UNCHANGED jobsVars
    /\ IF m = "display" THEN TRUE ELSE UNCHANGED displayVars
    /\ IF m = "queues" THEN TRUE ELSE UNCHANGED queuesVars

\* What tells two states of a behaviour apart: the machine that moves.
Moving ==
    <<machine, CASE machine = "console" -> consoleVars
             [] machine = "task" -> taskVars
             [] machine = "hci" -> hciVars
             [] machine = "wifi" -> wifiVars
             [] machine = "jobs" -> jobsVars
             [] machine = "display" -> displayVars
             [] machine = "queues" -> queuesVars>>

MInit ==
    /\ machine \in {"console", "task", "hci", "wifi", "jobs", "display",
                   "queues"}
    /\ C!Init /\ (machine # "console" => whole)
    /\ T!Init /\ (machine # "task" => ready = <<"t2", "t3">>)
    /\ U!Init /\ (machine # "hci" => owner = "nobody")
    /\ W!Init
    /\ J!Init
    /\ D!Init
    /\ A!Init

MNext ==
    \/ Turn("console") /\ C!Next
    \/ Turn("task") /\ T!Next
    \/ Turn("hci") /\ U!Next
    \/ Turn("wifi") /\ W!Next
    \/ Turn("jobs") /\ J!Next
    \/ Turn("display") /\ D!Next /\ UNCHANGED cursor
    \/ Turn("queues") /\ A!Next

\* Steps that are taken if they stay possible.
Weak ==
    /\ WF_consoleVars(machine = "console" /\ C!Drain)
    /\ WF_taskVars(machine = "task" /\ T!Cpu)
    /\ WF_hciVars(machine = "hci" /\ U!Handler)
    /\ WF_hciVars(machine = "hci" /\ U!UnitTask)
    /\ WF_hciVars(machine = "hci" /\ U!Opened)
    /\ WF_hciVars(machine = "hci" /\ U!Closed)
    /\ WF_wifiVars(machine = "wifi" /\ W!Host)
    /\ WF_jobsVars(machine = "jobs" /\ J!NeedMemory)
    /\ WF_jobsVars(machine = "jobs" /\ J!BinDone)
    /\ WF_jobsVars(machine = "jobs" /\ J!RenderDone)
    /\ WF_jobsVars(machine = "jobs" /\ J!Wake)
    /\ WF_jobsVars(machine = "jobs" /\ J!Poll)
    /\ WF_jobsVars(machine = "jobs" /\ J!Loop("a"))
    /\ WF_displayVars(machine = "display" /\ D!Frame)
    /\ WF_displayVars(machine = "display" /\ D!SetLatch)
    /\ WF_displayVars(machine = "display" /\ D!FlipLatch)
    /\ WF_displayVars(machine = "display" /\ D!DeniseLatch)
    /\ WF_queuesVars(machine = "queues" /\ A!PendingInt)
    /\ WF_queuesVars(machine = "queues" /\ A!Frame)
    /\ WF_queuesVars(machine = "queues" /\ A!Watchdog)
    /\ WF_queuesVars(machine = "queues" /\ A!BeginIO("i1"))
    /\ \A c \in A!Chan : WF_queuesVars(machine = "queues" /\ A!ChannelInt(c))

\* Steps that are taken if they are possible again and again.
Strong ==
    /\ SF_taskVars(machine = "task" /\ T!Enable)
    /\ SF_taskVars(machine = "task" /\ T!Preempt)
    /\ SF_displayVars(machine = "display" /\ D!DeniseTick)

MFairness == Weak /\ Strong

MSpec == MInit /\ [][MNext]_all /\ MFairness

\* No core keeps the console from another.
NoLockout == C!NoLockout

\* A task that was signalled runs.
SignalledRuns == T!SignalledRuns

\* What a radio brings reaches its reader: every Wi-Fi frame and message, and
\* every packet of the Bluetooth UART.
RadioDelivers == []W!TypeOK /\ W!Served /\ U!AllFramed

\* A wait for a job of a healthy V3D ends, and the chipset's picture returns
\* after a change of mode, while the pointer rests.
GraphicsReturns == J!HealthyWaitEnds /\ D!PictureReturns

\* A bulk request that is listed leaves the list.
BulkRetried == A!BulkRetried
===============================================================================
