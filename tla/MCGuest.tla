------------------------------- MODULE MCGuest -------------------------------
(* The guest's kernel and drivers on small instances, of which a behaviour   *)
(* runs one: the console (of two cores, and of one), the system timer, the   *)
(* task switch and the map of the machine, in which an access that faults is *)
(* answered; the Wi-Fi chip's transport (with frames, and with sends only),  *)
(* its SDIO host and its bring-up, the Bluetooth UART, the SD host, the      *)
(* mailbox (with callers only, and with a splitter only), and of the         *)
(* previous USB driver the queues (with a hub, and with two bulk pipes), one *)
(* transfer and the root hub (with a plug, and with a reset); and of what    *)
(* makes pictures and sound the V3D's jobs and the two command lists it is   *)
(* given, the planes of the display (with two buffers, and with one and the  *)
(* pointer), the frames OpenGL presents, PWM audio (without faults at two    *)
(* rates, with faults at one), its clock and HDMI audio.                     *)
EXTENDS Naturals, Sequences, TLC

\* The machine that runs, and its variables, which are another's in another
\* behaviour: a machine of n variables has the first n.
VARIABLES machine, v1, v2, v3, v4, v5, v6, v7, v8, v9, v10, v11, v12, v13,
          v14, v15, v16, v17, v18, v19, v20, v21, v22, v23, v24, v25, v26,
          v27, v28, v29, v30

\* Rectangles of tiles that a render list draws.
Corners == {<< <<0, 0>>, <<0, 0>> >>, << <<1, 1>>, <<2, 2>> >>,
            << <<0, 0>>, <<2, 1>> >>}

\* Draws by index, wide and narrow, and by count.
Prims ==
    {[op |-> "indexed", wide |-> TRUE, off |-> o, count |-> 3, max |-> 0] :
        o \in {0, 2}}
    \cup {[op |-> "indexed", wide |-> FALSE, off |-> 0, count |-> 3, max |-> 2],
          [op |-> "array", first |-> 1, count |-> 3]}

\* Shader records: two interleaved attributes of a large and a small buffer,
\* and one attribute that does not advance.
Recs ==
    {[attrs |-> <<[bo |-> 1, off |-> 0, size |-> 4, stride |-> 8],
                  [bo |-> 2, off |-> 4, size |-> 4, stride |-> 8]>>,
      tex |-> <<1, 0, 0>>, words |-> <<3, 1, 1>>,
      p0 |-> << <<2>>, <<>>, <<>> >>],
     [attrs |-> <<[bo |-> 1, off |-> 16, size |-> 12, stride |-> 0]>>,
      tex |-> <<2, 0, 0>>, words |-> <<2, 0, 2>>,
      p0 |-> << <<2, 1>>, <<>>, <<>> >>]}

TopOf == [r \in 1..2 |-> 4 * (r + 1)]  \* the PWM range at a rate
Faults == {"mix", "buf", "cb", "task", "signal"}

\* Requests of the previous driver: a control and a bulk pipe of one device, an
\* interrupt pipe and a second bulk pipe of another behind the same hub.
OtgKind == "c1" :> "ctrl" @@ "b1" :> "bulk" @@ "b2" :> "bulk" @@ "i1" :> "int"
OtgPipe == "c1" :> "p1" @@ "b1" :> "p2" @@ "b2" :> "p4" @@ "i1" :> "p3"
OtgDev  == "c1" :> "d1" @@ "b1" :> "d1" @@ "b2" :> "d2" @@ "i1" :> "d2"
OtgInterval == "i1" :> 3

\* One pipe each way, and devices that end a read short at any odd length.
OtgEnds  == {[num |-> 1, in |-> TRUE], [num |-> 2, in |-> FALSE]}
Lengths  == {0, 1, 4, 6, 7}
OddShort == [n \in Lengths |-> {n} \cup {k \in 1..n : k % 2 = 1}]

\* The classic map of two units a page, a region that is offered over two of
\* its own, and one behind the frame whose owner only reads.
Layout == [chip |-> 4, cia |-> 6, cia_end |-> 8, rtc |-> 10, rtc_end |-> 12,
           custom |-> 14, custom_end |-> 16, end |-> 18, frame_end |-> 20,
           desc_end |-> 22]
Offered ==
    {[base |-> 4, size |-> 4, kind |-> "DIRECT", host |-> 40, ops |-> {}],
     [base |-> 22, size |-> 2, kind |-> "EXTERNAL", host |-> 0,
      ops |-> {"read"}]}

Link == INSTANCE SdpcmLink
    WITH MaxSub <- 2, Slots <- 1, Seqnrs <- 16, Window <- 2, Tries <- 1,
         Ticks <- 1, Attempts <- 1, Loaded <- FALSE, MaxFrames <- 3,
         MaxWork <- 3, FifoMax <- 2, f2 <- v1, torn <- v2, nextId <- v3, todo <- v4,
         sends <- v5, held <- v6, online <- v7, glom_q <- v8, glom_i <- v9,
         evlisten <- v10, evring <- v11, txseq <- v12, txmax <- v13,
         reqid <- v14, op <- v15, cmd <- v16, reply <- v17, tries <- v18,
         tick <- v19, attempt <- v20, result <- v21, ops <- v22,
         posting <- v23, net <- v24
Credit == INSTANCE SdpcmLink
    WITH MaxSub <- 2, Slots <- 1, Seqnrs <- 16, Window <- 2, Tries <- 1,
         Ticks <- 1, Attempts <- 1, Loaded <- FALSE, MaxFrames <- 0,
         MaxWork <- 3, FifoMax <- 2, f2 <- v1, torn <- v2, nextId <- v3, todo <- v4,
         sends <- v5, held <- v6, online <- v7, glom_q <- v8, glom_i <- v9,
         evlisten <- v10, evring <- v11, txseq <- v12, txmax <- v13,
         reqid <- v14, op <- v15, cmd <- v16, reply <- v17, tries <- v18,
         tick <- v19, attempt <- v20, result <- v21, ops <- v22,
         posting <- v23, net <- v24
Console == INSTANCE ConsoleRings
    WITH Cores <- 2, Char <- {"x", "nl"}, NL <- "nl", LineMax <- 2,
         RingSize <- 2, whole <- v1, console_ready <- v2, line <- v3,
         head <- v4, tail <- v5, data <- v6, pos <- v7, next_core <- v8,
         scanned <- v9, wire <- v10
OneRing == INSTANCE ConsoleRings
    WITH Cores <- 1, Char <- {"x", "nl"}, NL <- "nl", LineMax <- 3,
         RingSize <- 5, whole <- v1, console_ready <- v2, line <- v3,
         head <- v4, tail <- v5, data <- v6, pos <- v7, next_core <- v8,
         scanned <- v9, wire <- v10
Timer == INSTANCE SystemTimer
    WITH Word <- 44, Interval <- 2, Margin <- 2, Retries <- 2,
         MaxUnread <- 4, MaxLate <- 2, clo <- v1, chi <- v2, compare <- v3,
         cs <- v4, at <- v5, target <- v6, retries <- v7,
         systimer_next <- v8, late <- v9, wait <- v10, tbp_CLO <- v11,
         tb_Elapsed <- v12, now <- v13
Tasks == INSTANCE TaskSwitch
    WITH Task <- {"t1", "t2", "t3"}, Windows <- {}, MaxNow <- 1, pc <- v1,
         masked <- v2, this <- v3, state <- v4, ready <- v5, waiting <- v6,
         recvd <- v7, nest <- v8, saved <- v9, own <- v10, now <- v11,
         stamp <- v12, charged <- v13, busy <- v14, ran <- v15
Map == INSTANCE MachineMap
    WITH Page <- 2, Space <- 26, Capacity <- 12, Entries <- 1,
         Layout <- Layout, Extra <- Offered, Probes <- {3, 13, 23},
         Sizes <- {2}, PCs <- {1}, rigel <- v1, vecpage <- v2, at <- v3,
         todo <- v4, regions <- v5, mmu <- v6, last <- v7, bus_table <- v8,
         direct_fault <- v9
Sdio == INSTANCE SdioHost
    WITH Ready5 <- 2, ReadyF <- 2, Block <- 2, MaxBlocks <- 2, MaxBytes <- 3,
         MaxLen <- 7, card <- v1, doing <- v2, status <- v3, stale <- v4,
         r5 <- v5, sdio_Present <- v6, hostwide <- v7, fast <- v8,
         BlkSize <- v9, call <- v10, at <- v11, stage <- v12, retries <- v13,
         len <- v14, count <- v15, taken <- v16
Bringup == INSTANCE WifiBringup
    WITH Windows <- 3, Sampled <- {1, 2, 3}, MaxFaults <- 2, erom <- v1,
         cores <- v2, attached <- v3, bwfm_bar0 <- v4, window <- v5,
         ram <- v6, cpu <- v7, version <- v8, ioe <- v9, iordy <- v10,
         fwready <- v11, at <- v12, k <- v13, result <- v14, used <- v15,
         faults <- v16
Hci == INSTANCE BtUart
    WITH Packets <- 2, Length <- 3, Ring <- 2, Buf <- 4, Reads <- 2,
         Claims <- {2, 5}, Opens <- 2, unit <- v1, task <- v2, opens <- v3,
         owner <- v4, powered <- v5, enabled <- v6, quit <- v7, out <- v8,
         fifo <- v9, ring <- v10, rx <- v11, claim <- v12, lost <- v13,
         queue <- v14, replies <- v15, framed <- v16
Card == INSTANCE SdHost
    WITH Blocks <- 2, Depth <- 1, Commands <- 5, Shared <- FALSE, pc <- v1,
         cmd <- v2, result <- v3, buf <- v4, edge <- v5, bounce <- v6,
         dma <- v7, line <- v8, asked <- v9, blc <- v10, fifo <- v11,
         crossing <- v12, card <- v13, sent <- v14, stored <- v15,
         wrote <- v16
Mail == INSTANCE Mailbox
    WITH Callers <- {"gpu", "wifi", "audio"}, Splitters <- {}, Depth <- 2,
         MaxCalls <- 6, Unlucky <- {"gpu"}, pc <- v1, owner <- v2,
         outbox <- v3, inbox <- v4, serving <- v5, buffer <- v6,
         result <- v7, calls <- v8, late <- v9
Splitter == INSTANCE Mailbox
    WITH Callers <- {}, Splitters <- {"sd"}, Depth <- 2, MaxCalls <- 6,
         Unlucky <- {"gpu"}, pc <- v1, owner <- v2, outbox <- v3,
         inbox <- v4, serving <- v5, buffer <- v6, result <- v7, calls <- v8,
         late <- v9
Queues == INSTANCE OtgRequests
    WITH Req <- {"c1", "i1"}, Kind <- OtgKind, Split <- {"c1", "i1"},
         Pipe <- OtgPipe, Dev <- OtgDev, Interval <- OtgInterval, Limit <- 1,
         Slots <- 1, MaxFaults <- 1, Jams <- FALSE, unit <- v1
Bulks == INSTANCE OtgRequests
    WITH Req <- {"b1", "b2"}, Kind <- OtgKind, Split <- {"b2"},
         Pipe <- OtgPipe, Dev <- OtgDev, Interval <- OtgInterval, Limit <- 1,
         Slots <- 1, MaxFaults <- 0, Jams <- FALSE, unit <- v1
Transfer == INSTANCE OtgTransfer
    WITH Pipes <- OtgEnds, MaxPkt <- 2, Most <- 4, Lengths <- Lengths,
         Limit <- 1, SizeCounts <- TRUE, MidBurst <- FALSE,
         Answers <- OddShort, req <- v1, actual <- v2, pid <- v3, chan <- v4,
         tries <- v5, result <- v6, dev <- v7, told <- v8, has <- v9,
         stage <- v10, spoiled <- v11
Port == INSTANCE OtgRootHub
    WITH Readers <- {"r1"}, Recovery <- TRUE, MaxPlugs <- 1, MaxResets <- 0,
         port <- v1, pc <- v2, feature <- v3, oldval <- v4, queue <- v5,
         changed <- v6, caused <- v7, recover <- v8, forced <- v9,
         vacated <- v10, plugs <- v11, resets <- v12
Reset == INSTANCE OtgRootHub
    WITH Readers <- {"r1"}, Recovery <- TRUE, MaxPlugs <- 0, MaxResets <- 1,
         port <- v1, pc <- v2, feature <- v3, oldval <- v4, queue <- v5,
         changed <- v6, caused <- v7, recover <- v8, forced <- v9,
         vacated <- v10, plugs <- v11, resets <- v12
Jobs == INSTANCE V3dJobs
    WITH Client <- {"a"}, Pools <- 2, Count <- 3, Pressure <- TRUE,
         Hangs <- TRUE, Needs <- 1, Probes <- 0, MaxJobs <- 3, ct0 <- v1,
         ct1 <- v2, hung <- v3, BFC <- v4, RFC <- v5, INTCTL <- v6,
         bmoom <- v7, bpos <- v8, needs <- v9, pending_render <- v10,
         seqno <- v11, finished_seqno <- v12, last_bfc <- v13,
         last_rfc <- v14, bfc_completed <- v15, rfc_completed <- v16,
         overflow_handed <- v17, pool_seqno <- v18, pool_idx <- v19,
         built <- v20, render_lock <- v21, pc <- v22, want <- v23,
         ret <- v24, probes <- v25, polling <- v26, signal <- v27,
         binned <- v28, rendered <- v29, killed <- v30
Render == INSTANCE V3dRenderList
    WITH Corners <- Corners, Side <- 64, Blank <- FALSE, args <- v1,
         list <- v2, offset <- v3, xi <- v4, yi <- v5, stage <- v6,
         buffer <- v7, pending <- v8, pos <- v9, open <- v10, waited <- v11,
         memory <- v12
Bin == INSTANCE V3dBinList
    WITH Prims <- Prims, Recs <- Recs, Configs <- {<<3, 1>>, <<2, 2>>},
         Max <- <<1, 1>>, BO <- <<128, 32>>,
         Index <- << <<0, 3, 1, 2>>, <<1, 1, 0, 0>> >>, Spoils <- TRUE,
         MaxPackets <- 3, cl <- v1, records <- v2, stage <- v3, i <- v4,
         tiles <- v5, bin_tiles <- v6, current <- v7, out <- v8,
         shader_rec_p <- v9, maxes <- v10, index_size <- v11,
         index_used <- v12, indices <- v13, attr_size <- v14,
         attr_used <- v15, vertices <- v16, recs_out <- v17, uni_src <- v18,
         uniforms <- v19
Planes == INSTANCE DisplayPlanes
    WITH BO <- {"a", "b"}, Slots <- 2, Moves <- FALSE, Late <- FALSE, MaxModes <- 1,
         lock <- v1, hvs_Active <- v2, lists <- v3, head <- v4, scan <- v5,
         slot <- v6, base <- v7, ovl <- v8, CurVisible <- v9, owed <- v10,
         front <- v11, pages <- v12, ref <- v13, pinned <- v14,
         displaced <- v15, app <- v16, prev <- v17, page <- v18,
         rendering <- v19, denise <- v20, composing <- v21, cursor <- v22,
         mode <- v23, modes <- v24
Pointer == INSTANCE DisplayPlanes
    WITH BO <- {"a"}, Slots <- 2, Moves <- TRUE, Late <- FALSE, MaxModes <- 1,
         lock <- v1, hvs_Active <- v2, lists <- v3, head <- v4, scan <- v5,
         slot <- v6, base <- v7, ovl <- v8, CurVisible <- v9, owed <- v10,
         front <- v11, pages <- v12, ref <- v13, pinned <- v14,
         displaced <- v15, app <- v16, prev <- v17, page <- v18,
         rendering <- v19, denise <- v20, composing <- v21, cursor <- v22,
         mode <- v23, modes <- v24
Frames == INSTANCE GlPresent
    WITH Last <- 9, Addresses <- {1, 2}, MaxScreens <- 2, MaxFrames <- 5,
         MaxResources <- 2, MaxFaults <- 1, gl <- v1, seqno <- v2,
         finished <- v3, fresh <- v4, screens <- v5, resources <- v6,
         faults <- v7
Pwm == INSTANCE PwmAudio
    WITH Rates <- {1, 2}, Range <- TopOf, MayFail <- {}, MixMod <- 3,
         pc <- v1, then <- v2, rate <- v3, held <- v4, slave <- v5,
         slavetask <- v6, refill <- v7, ctrlC <- v8, answered <- v9,
         handler <- v10, engine <- v11, buffer <- v12, mixes <- v13,
         fillbuf <- v14, bias <- v15, pwm <- v16, clicked <- v17
PwmFaults == INSTANCE PwmAudio
    WITH Rates <- {1}, Range <- TopOf, MayFail <- Faults, MixMod <- 3,
         pc <- v1, then <- v2, rate <- v3, held <- v4, slave <- v5,
         slavetask <- v6, refill <- v7, ctrlC <- v8, answered <- v9,
         handler <- v10, engine <- v11, buffer <- v12, mixes <- v13,
         fillbuf <- v14, bias <- v15, pwm <- v16, clicked <- v17
PwmClk == INSTANCE PwmClock
    WITH Rates <- {"a", "b"}, Refuses <- TRUE, pc <- v1, target <- v2,
         mailbox <- v3, claim <- v4, cm <- v5, got <- v6, again <- v7,
         owned <- v8
Hdmi == INSTANCE HdmiAudio
    WITH Rates <- {44100, 48000}, Outputs <- {1}, MayFail <- Faults,
         Sticks <- FALSE, MixMod <- 3, pc <- v1, then <- v2, rate <- v3,
         soc <- v4, held <- v5, slave <- v6, slavetask <- v7, refill <- v8,
         ctrlC <- v9, answered <- v10, handler <- v11, engine <- v12,
         buffer <- v13, mixes <- v14, fillbuf <- v15, mai <- v16,
         slot <- v17, torn <- v18, pixel <- v19

\* The variables from the k-th on, and that they stay nothing.
Rest25 == <<v25, v26, v27, v28, v29, v30>>
Rest20 == <<v20, v21, v22, v23, v24, Rest25>>
Rest18 == <<v18, v19, Rest20>>
Rest17 == <<v17, Rest18>>
Rest16 == <<v16, Rest17>>
Rest14 == <<v14, v15, Rest16>>
Rest13 == <<v13, Rest14>>
Rest12 == <<v12, Rest13>>
Rest11 == <<v11, Rest12>>
Rest10 == <<v10, Rest11>>
Rest9 == <<v9, Rest10>>
Rest8 == <<v8, Rest9>>
Rest2 == <<v2, v3, v4, v5, v6, v7, Rest8>>

Nothing25 == v25 = 0 /\ v26 = 0 /\ v27 = 0 /\ v28 = 0 /\ v29 = 0 /\ v30 = 0
Nothing20 == v20 = 0 /\ v21 = 0 /\ v22 = 0 /\ v23 = 0 /\ v24 = 0 /\ Nothing25
Nothing18 == v18 = 0 /\ v19 = 0 /\ Nothing20
Nothing17 == v17 = 0 /\ Nothing18
Nothing16 == v16 = 0 /\ Nothing17
Nothing14 == v14 = 0 /\ v15 = 0 /\ Nothing16
Nothing13 == v13 = 0 /\ Nothing14
Nothing12 == v12 = 0 /\ Nothing13
Nothing11 == v11 = 0 /\ Nothing12
Nothing10 == v10 = 0 /\ Nothing11
Nothing9 == v9 = 0 /\ Nothing10
Nothing8 == v8 = 0 /\ Nothing9
Nothing2 ==
    /\ v2 = 0 /\ v3 = 0 /\ v4 = 0 /\ v5 = 0 /\ v6 = 0 /\ v7 = 0
    /\ Nothing8

all == <<machine, v1, v2, v3, v4, v5, v6, v7, v8, v9, v10, v11, v12, v13,
         v14, v15, v16, v17, v18, v19, v20, v21, v22, v23, v24, v25, v26,
         v27, v28, v29, v30>>

\* What has done all that its bounds allow stops.
MayStop ==
    machine \notin {"console", "onering", "timer", "sdio", "pwm", "pwm_faults",
                    "hdmi", "pwmclock", "display", "pointer", "map"}

MInit ==
    \/ machine = "link" /\ Link!Init /\ Nothing25
    \/ machine = "credit" /\ Credit!Init /\ Nothing25
    \/ machine = "console" /\ Console!Init /\ Nothing11
    \/ machine = "onering" /\ OneRing!Init /\ Nothing11
    \/ machine = "timer" /\ Timer!Init /\ Nothing14
    \/ machine = "task" /\ Tasks!Init /\ Nothing16
    \/ machine = "map" /\ Map!Init /\ Nothing10
    \/ machine = "sdio" /\ Sdio!Init /\ Nothing17
    \/ machine = "bringup" /\ Bringup!Init /\ Nothing17
    \/ machine = "hci" /\ Hci!Init /\ Nothing17
    \/ machine = "sdhost" /\ Card!Init /\ Nothing17
    \/ machine = "mailbox" /\ Mail!Init /\ Nothing10
    \/ machine = "splitter" /\ Splitter!Init /\ Nothing10
    \/ machine = "queues" /\ Queues!Init /\ Nothing2
    \/ machine = "bulks" /\ Bulks!Init /\ Nothing2
    \/ machine = "transfer" /\ Transfer!Init /\ Nothing12
    \/ machine = "port" /\ Port!Init /\ Nothing13
    \/ machine = "reset" /\ Reset!Init /\ Nothing13
    \/ machine = "jobs" /\ Jobs!Init
    \/ machine = "render" /\ Render!Init /\ Nothing13
    \/ machine = "bin" /\ Bin!Init /\ Nothing20
    \/ machine = "display" /\ Planes!Init /\ Nothing25
    \/ machine = "pointer" /\ Pointer!Init /\ Nothing25
    \/ machine = "frames" /\ Frames!Init /\ Nothing8
    \/ machine = "pwm" /\ Pwm!Init /\ Nothing18
    \/ machine = "pwm_faults" /\ PwmFaults!Init /\ Nothing18
    \/ machine = "pwmclock" /\ PwmClk!Init /\ Nothing9
    \/ machine = "hdmi" /\ Hdmi!Init /\ Nothing20

MNext ==
    \/ machine = "link" /\ Link!Next /\ UNCHANGED <<machine, Rest25>>
    \/ machine = "credit" /\ Credit!Next /\ UNCHANGED <<machine, Rest25>>
    \/ machine = "console" /\ Console!Next /\ UNCHANGED <<machine, Rest11>>
    \/ machine = "onering" /\ OneRing!Next /\ UNCHANGED <<machine, Rest11>>
    \/ machine = "timer" /\ Timer!Next /\ UNCHANGED <<machine, Rest14>>
    \/ machine = "task" /\ Tasks!Next /\ UNCHANGED <<machine, Rest16>>
    \/ machine = "map" /\ Map!Next /\ UNCHANGED <<machine, Rest10>>
    \/ machine = "sdio" /\ Sdio!Next /\ UNCHANGED <<machine, Rest17>>
    \/ machine = "bringup" /\ Bringup!Next /\ UNCHANGED <<machine, Rest17>>
    \/ machine = "hci" /\ Hci!Next /\ UNCHANGED <<machine, Rest17>>
    \/ machine = "sdhost" /\ Card!Next /\ UNCHANGED <<machine, Rest17>>
    \/ machine = "mailbox" /\ Mail!Next /\ UNCHANGED <<machine, Rest10>>
    \/ machine = "splitter" /\ Splitter!Next /\ UNCHANGED <<machine, Rest10>>
    \/ machine = "queues" /\ Queues!Next /\ UNCHANGED <<machine, Rest2>>
    \/ machine = "bulks" /\ Bulks!Next /\ UNCHANGED <<machine, Rest2>>
    \/ machine = "transfer" /\ Transfer!Next /\ UNCHANGED <<machine, Rest12>>
    \/ machine = "port" /\ Port!Next /\ UNCHANGED <<machine, Rest13>>
    \/ machine = "reset" /\ Reset!Next /\ UNCHANGED <<machine, Rest13>>
    \/ machine = "jobs" /\ Jobs!Next /\ UNCHANGED machine
    \/ machine = "render" /\ Render!Next /\ UNCHANGED <<machine, Rest13>>
    \/ machine = "bin" /\ Bin!Next /\ UNCHANGED <<machine, Rest20>>
    \/ machine = "display" /\ Planes!Next /\ UNCHANGED <<machine, Rest25>>
    \/ machine = "pointer" /\ Pointer!Next /\ UNCHANGED <<machine, Rest25>>
    \/ machine = "frames" /\ Frames!Next /\ UNCHANGED <<machine, Rest8>>
    \/ machine = "pwm" /\ Pwm!Next /\ UNCHANGED <<machine, Rest18>>
    \/ machine = "pwm_faults" /\ PwmFaults!Next /\ UNCHANGED <<machine, Rest18>>
    \/ machine = "pwmclock" /\ PwmClk!Next /\ UNCHANGED <<machine, Rest9>>
    \/ machine = "hdmi" /\ Hdmi!Next /\ UNCHANGED <<machine, Rest20>>
    \/ MayStop /\ UNCHANGED all

MSpec == MInit /\ [][MNext]_all

\* The lines of the cores reach the wire as their rings' promise allows
\* (ConsoleLog), and the rings stay within their indices.
Implements ==
    /\ [](machine = "console" => Console!TypeOK)
    /\ [](machine = "onering" => OneRing!TypeOK)
    /\ machine = "console" => Console!Log!Init
    /\ machine = "onering" => OneRing!Log!Init
    /\ [][/\ machine = "console" => [Console!Log!Next]_(Console!Log!vars)
          /\ machine = "onering" => [OneRing!Log!Next]_(OneRing!Log!vars)]_all

\* The heartbeat is armed ahead of the counter and on its grid, and the
\* EClock that two contexts advance adds up to it.
ClockKept == machine = "timer" => Timer!ClockKept

\* No task sleeps on a signal it has, every task is where its state says, the
\* CPU does not sleep over a ready task, a nest count is its task's own, and
\* every tick is charged to somebody.
TasksKept == machine = "task" => Tasks!TasksKept

\* An address has one meaning, which the MMU and the bus agree on: direct
\* memory does not fault, a trapped address is never served from memory, and
\* what faults inside a region is answered.
MapRight == machine = "map" => Map!MapRight

\* Frames reach the network once and in order, a window the chip closed is not
\* written to, and an answer is taken by the command that waits for it.
LinkKept ==
    /\ [](machine = "link" =>
            Link!TypeOK /\ Link!InOrderOnce /\ Link!CreditRespected)
    /\ [](machine = "credit" => Credit!TypeOK /\ Credit!CreditRespected)
    /\ [][/\ machine = "link" => Link!TakesOurs
          /\ machine = "credit" => Credit!TakesOurs]_all

\* A status is of the command that asked, both ends of the SDIO bus agree on
\* the block size and the card is never wider than its host; no core that the
\* enumeration did not find is touched, a chip without faults starts, and what
\* was verified is the image. What Bluetooth frames is a packet, a read is
\* answered once, and a unit that is in use has a task.
RadioKept ==
    /\ machine = "sdio" => Sdio!RadioKept
    /\ machine = "bringup" => Bringup!RadioKept
    /\ machine = "hci" => Hci!RadioKept

\* A read returns what the card sent, a write that succeeded is on the card,
\* and the client's buffer comes back.
CardKept == machine = "sdhost" => Card!CardKept

\* An answer is the caller's own, and none is taken from its mailbox unseen.
MailKept ==
    /\ machine = "mailbox" => Mail!MailKept
    /\ machine = "splitter" => Splitter!MailKept

\* A request of the previous driver is held in one place at most, and a hub's
\* translator has one split at a time; data arrives once, what is reported is
\* what moved, the toggle is the device's, and a control transfer is over when
\* its status stage is.
OtgKept ==
    /\ machine = "queues" =>
         Queues!TypeOK /\ Queues!HeldOnce /\ Queues!HubHasOne
    /\ machine = "bulks" =>
         Bulks!TypeOK /\ Bulks!HeldOnce /\ Bulks!HubHasOne
    /\ machine = "transfer" =>
         /\ Transfer!TypeOK /\ Transfer!DataOnce /\ Transfer!NeverAhead
         /\ Transfer!ToggleInStep /\ Transfer!ControlWhole

\* A write of the port register does only what was asked for, and a change of
\* the port is kept until somebody is told.
RootHubTells ==
    /\ [](machine = "port" => Port!TypeOK)
    /\ [](machine = "reset" => Reset!TypeOK)
    /\ [][/\ machine = "port" => Port!AsAsked /\ Port!TellsOrKeeps
          /\ machine = "reset" => Reset!AsAsked /\ Reset!TellsOrKeeps]_all

\* A fence that is reported is true, no render of a finished binner is
\* dropped, and the buffers of a job in flight are its own.
JobsKept == machine = "jobs" => Jobs!JobsKept

\* A render list stores every tile of its rectangle once and ends with its
\* list; a bin list reads only the client's vertices, indices and uniforms,
\* of which it has copies that suffice.
ListsRight ==
    /\ machine = "render" =>
         /\ Render!TypeOK /\ Render!EveryTileStored
         /\ Render!EndsWithList /\ Render!ListFits
    /\ machine = "bin" =>
         /\ Bin!TypeOK /\ Bin!VerticesTheirs /\ Bin!IndicesTheirs
         /\ Bin!ScratchKept /\ Bin!UniformsTheirs /\ Bin!MemoryEnough

\* What the scaler shows is alive and is never what is being rendered; of the
\* frames that OpenGL presents no buffer in use has been given back, only drawn
\* ones are shown, and the next is drawn where it is not seen.
PlanesKept ==
    /\ machine = "display" =>
         Planes!TypeOK /\ Planes!ShownAlive /\ Planes!RenderHidden
    /\ machine = "pointer" =>
         Pointer!TypeOK /\ Pointer!ShownAlive /\ Pointer!RenderHidden
    /\ machine = "frames" =>
         /\ Frames!TypeOK /\ Frames!RefsHeld /\ Frames!ShownDrawn
         /\ Frames!TargetHidden /\ Frames!BoundRight

\* Sound starts and ends without a click, no buffer is freed under the engine,
\* the clocks fit the rate, HDMI's infoframe is true of what it carries, and
\* the buffers play in order.
SoundKept ==
    /\ [](machine = "pwm" => Pwm!TypeOK /\ Pwm!NoClick /\ Pwm!BuffersLive)
    /\ [](machine = "pwm_faults" =>
            PwmFaults!TypeOK /\ PwmFaults!NoClick /\ PwmFaults!BuffersLive)
    /\ [](machine = "pwmclock" => PwmClk!ClockRight)
    /\ [](machine = "hdmi" => /\ Hdmi!TypeOK /\ Hdmi!SessionClean
                             /\ Hdmi!InfoframeTrue /\ Hdmi!ClockFits)
    /\ [][/\ machine = "pwm" => Pwm!InOrder
          /\ machine = "pwm_faults" => PwmFaults!InOrder
          /\ machine = "hdmi" => Hdmi!InOrder]_all

ASSUME /\ Console!CoresAssumption /\ Console!CharAssumption
       /\ Console!SizeAssumption /\ OneRing!CoresAssumption
       /\ OneRing!SizeAssumption
ASSUME Timer!WordAssumption /\ Timer!PeriodAssumption /\ Timer!RoomAssumption
ASSUME /\ Map!PageAssumption /\ Map!BelowTop /\ Map!LayoutAssumption
       /\ Map!SizesAssumption
ASSUME Link!SizeAssumption /\ Credit!SizeAssumption /\ Frames!SizeAssumption
ASSUME Sdio!LimitAssumption /\ Bringup!WindowAssumption /\ Hci!StreamAssumption
ASSUME Bringup!EveryWindow
ASSUME Card!SizeAssumption /\ Jobs!EngineAssumption /\ PwmClk!RateAssumption
==============================================================================
