------------------------------- MODULE SdHost -------------------------------
(***************************************************************************)
(* The SD card's bus on the SDHOST controller: SendCmd, the one routine    *)
(* that issues a command, moves its data by DMA and waits for all of it,   *)
(* polling, with every wait bounded.  The layer above (sdcard.device)      *)
(* calls it from one task: a data command, then the CMD12 that ends the    *)
(* transfer, whatever the first one reported.                              *)
(*                                                                         *)
(* Outside the driver: the card, the controller with its FIFO and data     *)
(* state machine, the DMA channel, and the rest of the machine, which may  *)
(* run (interrupts, pre-emption) while SendCmd polls.  A block stands for  *)
(* its 128 words; a block is named by the command it belongs to and its    *)
(* place.  SDHSTS is left out: SendCmd and BusIRQ clear it and nothing     *)
(* reads it but messages.  Power, clock divider and bus width              *)
(* (SoftReset, SetClock, SetBusWidth) are left out: they run before any    *)
(* data command.                                                           *)
(***************************************************************************)
EXTENDS Naturals, Sequences

CONSTANTS
  Blocks,      \* the longest transfer, in blocks
  Depth,       \* what the FIFO holds, in blocks
  Commands,    \* bound: how many commands are sent
  Shared       \* TRUE: a buffer read into directly shares its first cache line

SizeAssumption ==
  Blocks \in Nat /\ Depth \in Nat /\ Commands \in Nat /\ Shared \in BOOLEAN

VARIABLES
  pc,          \* where SendCmd is; "idle" between calls
  cmd,         \* the command: its number, kind, blocks, and its buffer's path
  result,      \* what the last SendCmd returned: "ok" or "error"
  buf,         \* the caller's buffer: a sequence of blocks
  edge,        \* the line shared with the buffer is dirty in the CPU's cache
  bounce,      \* the driver's own buffer
  dma,         \* the channel: its direction and the blocks still to move
  line,        \* SDCMD: "done", "new" (not answered yet), "fail"
  asked,       \* the command SDCMD holds
  blc,         \* SDHBLC: blocks the controller still accepts
  fifo,        \* the blocks in the FIFO
  crossing,    \* the block between the FIFO and the card, if any
  card,        \* the card's mode, "tran", "data" or "rcv", and for which command
  sent,        \* blocks of the running read the card has sent
  stored,      \* the blocks of the last write command the card has kept
  wrote        \* the last data command, when it was a write that returned 0

vars == <<pc, cmd, result, buf, edge, bounce, dma, line, asked, blc, fifo, crossing,
          card, sent, stored, wrote>>
driver   == <<pc, cmd, result, wrote>>
medium   == <<card, sent, stored, crossing>>
memory   == <<buf, bounce, edge>>

Block(n, k) == <<n, k>>
Whole(n, len) == [k \in 1..len |-> Block(n, k)]     \* a transfer, complete
Old == <<0, 0>>                                     \* what was there before
None == <<0, 1>>
Quiet == [kind |-> "stop", n |-> 0]
Stopped == [way |-> "none", left |-> 0]
Kinds == {"read", "write", "stop"}

Init ==
  /\ pc = "idle" /\ result = "ok" /\ wrote = 0
  /\ cmd = [n |-> 0, kind |-> "stop", len |-> 0, direct |-> TRUE]
  /\ buf = <<>> /\ bounce = <<>> /\ edge = FALSE
  /\ dma = Stopped /\ line = "done" /\ asked = Quiet /\ blc = 0 /\ fifo = <<>>
  /\ crossing = None /\ card = [mode |-> "tran", n |-> 0] /\ sent = 0 /\ stored = <<>>

HasData == cmd.kind # "stop"

\* A caller: reads and writes alternate with the CMD12 that ends each.  A read
\* finds its buffer full of old data; a write brings its blocks.
Call(kind, len, direct) ==
  /\ pc = "idle" /\ cmd.n < Commands
  /\ (cmd.kind = "stop") <=> (kind # "stop")
  /\ cmd' = [n |-> cmd.n + 1, kind |-> kind, len |-> len, direct |-> direct]
  /\ pc' = "before"
  /\ buf' = CASE kind = "read"  -> [k \in 1..len |-> Old]
              [] kind = "write" -> Whole(cmd.n + 1, len)
              [] OTHER          -> buf
  /\ edge' = FALSE
  /\ wrote' = IF kind = "stop" THEN wrote ELSE 0
  /\ UNCHANGED <<result, bounce, dma, line, asked, blc, fifo, medium>>

Return(r) == pc' = "idle" /\ result' = r

\* A channel left running by the failed command.
GiveUpOnly == Return("error") /\ UNCHANGED <<dma, fifo>>
\* done: with an error on a data command the channel is reset and the FIFO
\* drained, so that the CMD12 that follows can be issued.
GiveUp ==
  /\ Return("error")
  /\ IF HasData THEN dma' = Stopped /\ fifo' = <<>> ELSE UNCHANGED <<dma, fifo>>

\* sdhost_wait_cmd_idle before anything: a quarter of a second, then an error.
Ready ==
  /\ pc = "before" /\ line # "new"
  /\ pc' = "clear"
  /\ UNCHANGED <<cmd, result, wrote, memory, dma, line, asked, blc, fifo, medium>>
Busy ==
  /\ pc = "before" /\ line = "new"
  /\ Return("error")
  /\ UNCHANGED <<cmd, wrote, memory, dma, line, asked, blc, fifo, medium>>

\* sdhost_flush_fifo, which reads up to 32 words of a 16 word FIFO.
NoFlush == UNCHANGED fifo
Flush == fifo' = <<>>
Clear ==
  /\ pc = "clear" /\ Flush
  /\ pc' = IF HasData THEN "setup" ELSE "issue"
  /\ UNCHANGED <<cmd, result, wrote, memory, dma, line, asked, blc, medium>>

\* The data path: the caller's own buffer where it is aligned and reachable, else
\* the bounce buffer, else no path at all.  sdhost_dma_setup cleans the lines of
\* the buffer and resets the channel.
Setup ==
  /\ pc = "setup"
  /\ pc' = "issue" /\ blc' = cmd.len
  /\ bounce' = CASE cmd.direct          -> bounce
                 [] cmd.kind = "write"  -> buf
                 [] OTHER               -> [k \in 1..cmd.len |-> Old]
  /\ edge' = FALSE /\ dma' = Stopped
  /\ UNCHANGED <<cmd, result, wrote, buf, line, asked, fifo, medium>>
NoPath ==
  /\ pc = "setup" /\ ~cmd.direct
  /\ GiveUp /\ blc' = cmd.len
  /\ UNCHANGED <<cmd, wrote, memory, line, asked, medium>>

\* SDARG, SDCMD, and the channel armed with nothing in between.
Issue ==
  /\ pc = "issue"
  /\ line' = "new" /\ asked' = [kind |-> cmd.kind, n |-> cmd.n]
  /\ dma' = IF HasData THEN [way |-> cmd.kind, left |-> cmd.len] ELSE dma
  /\ pc' = IF HasData THEN "moving" ELSE "settle"
  /\ UNCHANGED <<cmd, result, wrote, memory, blc, fifo, medium>>

\* sdhost_dma_wait: the end of the transfer, or a second gone by and the channel
\* reset.  A read then drops the lines of its buffer -- writing back whatever
\* somebody dirtied in them -- and copies the bounce buffer out.
Dropped(b) == IF edge /\ Len(b) > 0 THEN [b EXCEPT ![1] = Old] ELSE b
Moved ==
  /\ pc = "moving" /\ dma.left = 0
  /\ dma' = Stopped
  /\ IF cmd.kind = "read"
       THEN pc' = "settle" /\ buf' = IF cmd.direct THEN Dropped(buf) ELSE bounce
       ELSE pc' = "writing" /\ UNCHANGED buf
  /\ edge' = FALSE
  /\ UNCHANGED <<cmd, result, wrote, bounce, line, asked, blc, fifo, medium>>
MoveTimeout ==
  /\ pc = "moving" /\ dma.left > 0
  /\ GiveUp
  /\ UNCHANGED <<cmd, wrote, memory, line, asked, blc, medium>>

\* sdhost_wait_write_done: the FIFO empty and the data state machine back.
FifoEmpty == fifo = <<>>
Flushed == fifo = <<>> /\ crossing = None
Written ==
  /\ pc = "writing" /\ Flushed
  /\ pc' = "settle"
  /\ UNCHANGED <<cmd, result, wrote, memory, dma, line, asked, blc, fifo, medium>>
WriteTimeout ==
  /\ pc = "writing" /\ ~Flushed
  /\ GiveUp
  /\ UNCHANGED <<cmd, wrote, memory, line, asked, blc, medium>>

\* The last wait for the command line; its failure is not looked at.  SDCMD_FAIL is.
\* Only CMD12, which waits for a busy card, can outlast that wait.
NeverRefused == FALSE
Refused == line = "fail"
Settle ==
  /\ pc = "settle" /\ (line # "new" \/ cmd.kind = "stop")
  /\ IF Refused THEN GiveUp /\ UNCHANGED wrote
     ELSE /\ Return("ok") /\ UNCHANGED <<dma, fifo>>
          /\ wrote' = IF cmd.kind = "write" THEN cmd.n ELSE wrote
  /\ UNCHANGED <<cmd, memory, line, asked, blc, medium>>

(***************************************************************************)
(* Outside.                                                                *)
(***************************************************************************)

\* The card takes the command on the line -- CMD12 always, a data command only
\* when no transfer runs -- or does not answer.  CMD12 makes it drop the block
\* that is still crossing.
Take ==
  /\ line = "new" /\ (card.mode = "tran" \/ asked.kind = "stop")
  /\ line' = "done"
  /\ card' = [n |-> asked.n, mode |-> CASE asked.kind = "read"  -> "data"
                                        [] asked.kind = "write" -> "rcv"
                                        [] OTHER                -> "tran"]
  /\ sent' = 0
  /\ stored' = IF asked.kind = "write" THEN <<>> ELSE stored
  /\ crossing' = IF asked.kind = "stop" THEN None ELSE crossing
  /\ UNCHANGED <<driver, memory, dma, asked, blc, fifo>>
NoAnswer ==
  /\ line = "new" /\ line' = "fail"
  /\ UNCHANGED <<driver, memory, dma, asked, blc, fifo, medium>>

\* A block from the card, while the controller still counts blocks.
Send ==
  /\ card.mode = "data" /\ blc > 0 /\ Len(fifo) < Depth
  /\ sent' = IF sent < Blocks THEN sent + 1 ELSE sent
  /\ blc' = blc - 1
  /\ fifo' = Append(fifo, Block(card.n, sent + 1))
  /\ UNCHANGED <<driver, memory, dma, line, asked, card, stored, crossing>>

\* A block to the card: out of the FIFO, over the bus, kept.
Cross ==
  /\ card.mode = "rcv" /\ fifo # <<>> /\ crossing = None
  /\ crossing' = Head(fifo) /\ fifo' = Tail(fifo)
  /\ UNCHANGED <<driver, memory, dma, line, asked, blc, card, sent, stored>>
Keep ==
  /\ card.mode = "rcv" /\ crossing # None
  /\ stored' = Append(stored, crossing) /\ crossing' = None
  /\ UNCHANGED <<driver, memory, dma, line, asked, blc, fifo, card, sent>>

\* The channel moves a block, whatever SendCmd is doing.
Fetch ==
  /\ dma.way = "read" /\ dma.left > 0 /\ fifo # <<>>
  /\ fifo' = Tail(fifo) /\ dma' = [dma EXCEPT !.left = @ - 1]
  /\ LET k == cmd.len - dma.left + 1 IN
     IF cmd.direct
       THEN k \in DOMAIN buf /\ buf' = [buf EXCEPT ![k] = Head(fifo)] /\ UNCHANGED bounce
       ELSE k \in DOMAIN bounce /\ bounce' = [bounce EXCEPT ![k] = Head(fifo)] /\ UNCHANGED buf
  /\ UNCHANGED <<driver, edge, line, asked, blc, medium>>
Feed ==
  /\ dma.way = "write" /\ dma.left > 0 /\ Len(fifo) < Depth
  /\ LET src == IF cmd.direct THEN buf ELSE bounce
         k   == cmd.len - dma.left + 1
     IN k \in DOMAIN src /\ fifo' = Append(fifo, src[k])
  /\ dma' = [dma EXCEPT !.left = @ - 1]
  /\ UNCHANGED <<driver, memory, line, asked, blc, medium>>

\* A neighbour of the buffer is written by a handler or by a task that pre-empts
\* the poll: the shared line becomes dirty, with the buffer's old bytes in it.  A
\* buffer that is written to the card may share its lines with anything.
Neighbour ==
  /\ pc \in {"issue", "moving"} /\ cmd.direct /\ ~edge
  /\ cmd.kind = "write" \/ (cmd.kind = "read" /\ Shared /\ buf[1] = Old)
  /\ edge' = TRUE
  /\ UNCHANGED <<driver, buf, bounce, dma, line, asked, blc, fifo, medium>>

SendCmd == Ready \/ Busy \/ Clear \/ Setup \/ NoPath \/ Issue \/ Moved
           \/ MoveTimeout \/ Written \/ WriteTimeout \/ Settle
Machine == Take \/ NoAnswer \/ Send \/ Cross \/ Keep \/ Fetch \/ Feed \/ Neighbour
Next ==
  \/ \E kind \in {"read", "write"}, len \in 1..Blocks, direct \in BOOLEAN :
       Call(kind, len, direct)
  \/ Call("stop", 0, TRUE)
  \/ SendCmd
  \/ Machine

Spec == Init /\ [][Next]_vars

(***************************************************************************)
(* What the bus must keep.                                                 *)
(***************************************************************************)

AnyBlock == {Old, None} \cup {Block(n, k) : n \in 1..Commands, k \in 1..Blocks + 1}
TypeOK ==
  /\ pc \in {"idle", "before", "clear", "setup", "issue", "moving", "writing", "settle"}
  /\ cmd \in [n : 0..Commands, kind : Kinds, len : 0..Blocks, direct : BOOLEAN]
  /\ result \in {"ok", "error"} /\ line \in {"done", "new", "fail"}
  /\ asked \in [kind : Kinds, n : 0..Commands]
  /\ card \in [mode : {"tran", "data", "rcv"}, n : 0..Commands] /\ edge \in BOOLEAN
  /\ dma \in [way : {"none", "read", "write"}, left : 0..Blocks]
  /\ blc \in 0..Blocks /\ sent \in 0..Blocks /\ wrote \in 0..Commands
  /\ buf \in Seq(AnyBlock) /\ bounce \in Seq(AnyBlock) /\ crossing \in AnyBlock
  /\ fifo \in Seq(AnyBlock) /\ Len(fifo) <= Depth
  /\ stored \in Seq(AnyBlock) /\ Len(stored) <= Blocks * Commands

\* A read that returned 0 left in the caller's buffer the blocks the card sent for
\* that command, all of them and in order: nothing left in the FIFO by a command that
\* failed, nothing the CPU's cache wrote back over the DMA.
ReadIsCards ==
  pc = "idle" /\ cmd.kind = "read" /\ result = "ok" => buf = Whole(cmd.n, cmd.len)

\* After the CMD12 of a write that returned 0, the card has every one of its blocks
\* ("a multi-block write would lose its last sector now and then and still report
\* success").
WriteKept ==
  pc = "idle" /\ cmd.kind = "stop" /\ result = "ok" /\ wrote > 0 =>
    Len(stored) = Len(buf) /\ \A k \in DOMAIN stored : stored[k] = Block(wrote, k)

\* Between two calls no channel is running: the buffer is its owner's again.
BufferReturned == pc = "idle" => dma.left = 0

(***************************************************************************)
(* The inductive invariant.                                                *)
(***************************************************************************)

\* Where the call is says what it works on, and when the channel runs.
Calling ==
  /\ pc \in {"setup", "moving"} => HasData
  /\ pc = "writing" => cmd.kind = "write"
  /\ HasData => cmd.n > 0 /\ cmd.len > 0
  /\ pc # "moving" => dma.left = 0
  /\ pc = "moving" => dma.way = cmd.kind /\ dma.left <= cmd.len

\* A command is put on a line that is free and stands there until it is taken; the
\* first of all is one for data.
Asked ==
  /\ pc \in {"clear", "setup", "issue"} => line # "new"
  /\ pc \in {"moving", "writing", "settle"} /\ line = "new" =>
       asked = [kind |-> cmd.kind, n |-> cmd.n]
  /\ asked.kind # "stop" => asked.n > 0
  /\ card.mode # "tran" => card.n > 0

\* A card that waits for a command has moved nothing since the FIFO was flushed.
Clean ==
  /\ card.mode # "rcv" => crossing = None
  /\ card.mode = "tran" =>
       /\ pc \in {"setup", "issue"} => fifo = <<>>
       /\ pc = "issue" /\ HasData => blc = cmd.len
       /\ pc \in {"idle", "before"} /\ line = "new" /\ asked.kind = "write"
            => fifo = <<>>

\* What is sent, and where what is read goes.
Memory ==
  /\ cmd.kind = "write" => buf = Whole(cmd.n, cmd.len)
  /\ cmd.kind = "read" => Len(buf) = cmd.len /\ (edge => Shared)
  /\ pc \in {"issue", "moving"} /\ HasData /\ ~cmd.direct =>
       IF cmd.kind = "write" THEN bounce = buf ELSE Len(bounce) = cmd.len

Target == IF cmd.direct THEN buf ELSE bounce
Past == cmd.len - dma.left      \* what the channel has moved

\* A read that the card took lies in the target, in the FIFO and on the card; the
\* last drop of its lines spares it when they are its own.
Reading ==
  cmd.kind = "read" =>
    /\ pc = "moving" /\ line = "done" =>
         /\ card = [n |-> cmd.n, mode |-> "data"]
         /\ sent = Past + Len(fifo) /\ blc = cmd.len - sent
         /\ \A k \in 1..Past : Target[k] = Block(cmd.n, k)
         /\ \A k \in 1..Len(fifo) : fifo[k] = Block(cmd.n, Past + k)
    /\ pc = "moving" /\ line = "new" /\ card.mode = "tran" =>
         fifo = <<>> /\ dma.left = cmd.len /\ blc = cmd.len
    /\ pc = "settle" /\ line = "new" => card.mode # "tran"
    /\ (pc = "settle" /\ line = "done") \/ (pc = "idle" /\ result = "ok") =>
         Shared \/ buf = Whole(cmd.n, cmd.len)

OnBus == IF crossing = None THEN 0 ELSE 1

\* A write that the card took lies on it, on the bus, in the FIFO and in memory.
Writing ==
  cmd.kind = "write" =>
    /\ pc \in {"moving", "writing", "settle"} /\ line = "done" =>
         /\ card = [n |-> cmd.n, mode |-> "rcv"]
         /\ Past = Len(stored) + OnBus + Len(fifo)
         /\ \A k \in 1..Len(stored) : stored[k] = Block(cmd.n, k)
         /\ crossing # None => crossing = Block(cmd.n, Len(stored) + 1)
         /\ \A k \in 1..Len(fifo) : fifo[k] = Block(cmd.n, Len(stored) + OnBus + k)
    /\ pc \in {"moving", "writing"} /\ line = "new" /\ card.mode = "tran" =>
         Len(fifo) = Past /\ \A k \in 1..Len(fifo) : fifo[k] = Block(cmd.n, k)
    /\ pc = "settle" /\ line = "new" => card.mode # "tran"
    /\ pc = "settle" /\ line = "done" => Flushed

\* What was written stays until the next command for data.
Kept ==
  wrote > 0 =>
    /\ cmd.kind = "stop" \/ (cmd.kind = "write" /\ pc = "idle")
    /\ card.mode # "data" /\ Flushed /\ stored = Whole(wrote, Len(buf))
    /\ line = "new" => asked.kind = "stop"

\* No card is sent more than was asked of it in all.
Coming ==
  CASE cmd.kind # "write" -> 0
    [] cmd.kind = "write" /\ pc \in {"before", "clear", "setup", "issue"} -> cmd.len
    [] OTHER -> dma.left
Budget ==
  /\ Len(stored) <= Blocks * cmd.n
  /\ card.mode = "rcv" => Len(stored) + OnBus + Len(fifo) + Coming <= Blocks * cmd.n

IInv ==
  /\ TypeOK /\ Calling /\ Asked /\ Clean /\ Memory /\ Reading /\ Writing /\ Kept
  /\ Budget

(* What the card's host promises, all of it.                               *)
CardKept == TypeOK /\ ReadIsCards /\ WriteKept /\ BufferReturned
=============================================================================
