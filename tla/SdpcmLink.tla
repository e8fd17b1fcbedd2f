------------------------------ MODULE SdpcmLink ------------------------------
(***************************************************************************)
(* The frame channel of the wireless chip: bwfm.resource                   *)
(* (aros/arch/m68k-emu68/soc/wifi/bwfm/bwfm_init.c) above SDIO function 2. *)
(*                                                                         *)
(* Three parties share one FIFO, one sequence number and one queue under   *)
(* bwfm_Sem: a control operation (join, scan, set key), whose commands     *)
(* poll the FIFO for their reply and salvage what else they find there;    *)
(* the receive pump of bwfm.device; and its transmit path.  The operation  *)
(* holds the semaphore from one command to the next; the other two take it *)
(* and give it back, so each of their calls is a step.                     *)
(* The firmware, the pump and the caller of the operations are external.   *)
(* A frame is a record without its bytes: the room of bwfm_glom_buf, which *)
(* binds after bwfm_glom_q's, and failing reads of the bus are left out.   *)
(***************************************************************************)
EXTENDS Integers, Sequences, SequencesExt

CONSTANTS
    MaxSub,     \* BWFM_GLOM_MAXSUB, entries of bwfm_glom_q
    Slots,      \* BWFM_EVRING_SLOTS
    Seqnrs,     \* sequence numbers: 256
    Window,     \* data frames the firmware can hold
    Tries,      \* polls of one command: 1000
    Ticks,      \* polls of one attempt: 100 of a scan, 200 of a join
    Attempts,   \* of a join: 3
    Loaded,     \* operations run while the network is in use
    FifoMax,    \* bound: frames waiting in the FIFO
    MaxFrames,  \* bound: frames and events in all
    MaxWork     \* bound: frames, events, sends, operations and late
                \* replies in all

SizeAssumption ==
    /\ MaxSub \in Nat \ {0} /\ Slots \in Nat \ {0} /\ Tries \in Nat \ {0}
    /\ Ticks \in Nat \ {0} /\ Attempts \in Nat \ {0} /\ Loaded \in BOOLEAN
    /\ Seqnrs \in Nat /\ Window \in 2 .. Seqnrs \div 2 - 1

VARIABLES
    f2,         \* the FIFO, oldest frame first
    torn,       \* it was left in the middle of a frame
    nextId,     \* [data, event]: how many frames of each there have been
    todo,       \* commands the firmware has not answered
    sends,      \* data frames sent
    held,       \* data frames it holds
    online,     \* the network is in use
    glom_q, glom_i,
    evlisten, evring,
    txseq, txmax, reqid,
    op, cmd,    \* the operation, and its command while it holds the semaphore
    reply,      \* to that command: unsent, awaited, ok or failed
    tries, tick, attempt, result,
    ops,        \* operations, and commands answered late, so far
    posting,    \* events the pump has read and not posted yet
    net         \* history: the data frames handed to the network

fifoVars == <<f2, torn>>
fwVars   == <<nextId, todo, held, sends, online>>
rxVars   == <<glom_q, glom_i, evlisten, evring>>
txVars   == <<txseq, txmax, reqid>>
opVars   == <<op, cmd, reply, tries, tick, attempt, result, ops>>
pumpVars == <<posting, net>>
vars     == <<fifoVars, fwVars, rxVars, txVars, opVars, pumpVars>>

Chan == {"control", "event", "data", "glom"}
Work == nextId.data + nextId.event + sends + ops

Semaphore == cmd = "none"       \* no operation holds it

-----------------------------------------------------------------------------
(* The firmware.                                                           *)

\* BWFMStartFirmware has run: txseq is 0xff and txmax is 1.
Init ==
    /\ f2 = <<>> /\ torn = FALSE
    /\ nextId = [data |-> 0, event |-> 0] /\ todo = {}
    /\ held = 0 /\ sends = 0 /\ online = FALSE
    /\ glom_q = <<>> /\ glom_i = 0 /\ evlisten = FALSE /\ evring = <<>>
    /\ txseq = Seqnrs - 1 /\ txmax = 1 /\ reqid = 0
    /\ op = "none" /\ cmd = "none" /\ reply = "unsent"
    /\ tries = 0 /\ tick = 0 /\ attempt = 0 /\ result = -1 /\ ops = 0
    /\ posting = <<>> /\ net = <<>>

\* Every frame carries how far the host may number its data frames; the
\* firmware has taken all that came before txseq.
Grant == (txseq + Window - held) % Seqnrs

Data(k, big) == [chan |-> "data", id |-> nextId.data + k, big |-> big, max |-> Grant]
Event(k, up) == [chan |-> "event", id |-> nextId.event + k, up |-> up, max |-> Grant]
Glom(subs)   == [chan |-> "glom", subs |-> subs, max |-> Grant]

Arrives(f, data, events) ==
    /\ Len(f2) < FifoMax
    /\ Work + data + events <= MaxWork
    /\ nextId.data + data + nextId.event + events <= MaxFrames
    /\ f2' = Append(f2, f)
    /\ nextId' = [data |-> nextId.data + data, event |-> nextId.event + events]
    /\ UNCHANGED <<torn, todo, held, sends, online, rxVars, txVars, opVars, pumpVars>>

\* "The firmware still glomms EVENT/DATA under load regardless"; offline there
\* are the frames of a handshake.
Receive == \/ \E big \in BOOLEAN : (big => online) /\ Arrives(Data(1, big), 1, 0)
           \/ \E up \in BOOLEAN : Arrives(Event(1, up), 0, 1)
           \/ online /\ Arrives(Glom(<<Data(1, TRUE), Data(2, TRUE)>>), 2, 0)
           \/ online /\ Arrives(Glom(<<Event(1, FALSE), Data(1, FALSE)>>), 1, 1)

\* A reply, or none in time.
Reply ==
    /\ Len(f2) < FifoMax
    /\ \E r \in todo :
         /\ todo' = todo \ {r}
         /\ f2' = Append(f2, [chan |-> "control", req |-> r, max |-> Grant])
    /\ UNCHANGED <<torn, nextId, held, sends, online, rxVars, txVars, opVars, pumpVars>>

Radiate ==
    /\ held > 0 /\ held' = held - 1
    /\ UNCHANGED <<fifoVars, nextId, todo, sends, online, rxVars, txVars, opVars, pumpVars>>

\* The network interface goes up or down; down, once all is read.
Line ==
    /\ op = "none" \/ Loaded
    /\ online => f2 = <<>> /\ glom_i = Len(glom_q)
    /\ online' = ~online
    /\ UNCHANGED <<fifoVars, nextId, todo, held, sends, rxVars, txVars, opVars, pumpVars>>

-----------------------------------------------------------------------------
(* The queue of extracted frames and the ring of events.                   *)

IsEvent(f) == f.chan = "event"

\* bwfm_event_push: an event nobody listens for is dropped, a full ring drops
\* its oldest.
PushAll(ring, f) == Append(ring, f)   \* mutant: a ring that is never full
Push(ring, f) == Append(IF Len(ring) = Slots THEN Tail(ring) ELSE ring, f)

Pushed(ring, evs) == IF evlisten THEN FoldLeft(Push, ring, evs) ELSE ring

\* bwfm_glom_append: no room is counted from the queue's start.
GlomAppend(q, f) == IF Len(q) >= MaxSub THEN q ELSE Append(q, f)

AlwaysFresh(q, i) == TRUE   \* mutant: a superframe wipes what is queued
Drained(q, i) == i >= Len(q)

\* bwfm_rx_glom: the queue starts over once the pump has taken everything; what
\* does not fit is read off the FIFO and dropped.
Base(q, i)  == IF Drained(q, i) THEN <<>> ELSE q
Kept(q, i, g) == SubSeq(g.subs, 1, MaxSub - Len(Base(q, i)))
RxGlom(q, i, g) == [q |-> Base(q, i) \o Kept(q, i, g),
                    i |-> IF Drained(q, i) THEN 0 ELSE i]

\* The window is taken from every sub-frame that was kept.
GlomMax(q, i, g) == LET k == Kept(q, i, g) IN IF k = <<>> THEN g.max ELSE Last(k).max

-----------------------------------------------------------------------------
(* bwfm_dcmd: one command of the operation, polled to its end.             *)

Send(credit) ==
    /\ txseq' = (txseq + 1) % Seqnrs
    /\ held' = held + credit /\ sends' = sends + credit

\* Control frames are exempt from the window.  The firmware may still be at the
\* command before.
Issue ==
    /\ cmd # "none" /\ reply = "unsent"
    /\ reply' = "awaited" /\ tries' = 0
    /\ reqid' = reqid + 1
    /\ \/ todo' = {reqid'} /\ UNCHANGED ops
       \/ todo # {} /\ Work < MaxWork /\ todo' = todo \cup {reqid'} /\ ops' = ops + 1
    /\ Send(0)
    /\ UNCHANGED <<fifoVars, nextId, online, rxVars, txmax, op, cmd, tick,
                   attempt, result, pumpVars>>

Polling == reply = "awaited" /\ tries < Tries

PollAgain == tries' = tries + 1 /\ UNCHANGED reply

\* The header of a frame that does not fit the command's buffer is gone, the
\* rest of the frame is not.
TooBig(f) == f.chan = "data" /\ f.big

AnyReply(f) == TRUE   \* mutant: the id of the request is not looked at
Ours(f) == f.req = reqid

Salvaged(g) ==
    LET r == RxGlom(glom_q, glom_i, g)
    IN  /\ evring' = Pushed(evring, SelectSeq(r.q, IsEvent))
        /\ glom_q' = SelectSeq(r.q, LAMBDA f : ~IsEvent(f))
        /\ glom_i' = 0
        /\ txmax' = GlomMax(glom_q, glom_i, g)

Poll ==
    /\ Polling /\ f2 # <<>> /\ ~torn
    /\ LET f == Head(f2) IN
         /\ f2' = Tail(f2)
         /\ IF TooBig(f)
            THEN /\ torn' = TRUE /\ reply' = "failed"
                 /\ UNCHANGED <<tries, txmax, rxVars>>
            ELSE /\ UNCHANGED torn
                 /\ IF f.chan = "control" /\ Ours(f)
                    THEN reply' \in {"ok", "failed"} /\ UNCHANGED tries
                    ELSE PollAgain
                 /\ f.chan # "glom" => txmax' = f.max
                 /\ CASE f.chan = "glom"    -> Salvaged(f) /\ UNCHANGED evlisten
                      [] f.chan = "event"   -> /\ evring' = Pushed(evring, <<f>>)
                                               /\ UNCHANGED <<glom_q, glom_i, evlisten>>
                      [] f.chan = "data"    -> /\ glom_q' = GlomAppend(glom_q, f)
                                               /\ UNCHANGED <<glom_i, evlisten, evring>>
                      [] f.chan = "control" -> UNCHANGED rxVars
    /\ UNCHANGED <<fwVars, txseq, reqid, op, cmd, tick, attempt, result, ops, pumpVars>>

PollNothing ==
    /\ Polling /\ f2 = <<>> /\ ~torn
    /\ PollAgain
    /\ UNCHANGED <<fifoVars, fwVars, rxVars, txVars, op, cmd, tick, attempt,
                   result, ops, pumpVars>>

\* A thousand polls, or a header that is not one.
GiveUp ==
    /\ reply = "awaited" /\ (tries = Tries \/ torn)
    /\ reply' = "failed"
    /\ UNCHANGED <<fifoVars, fwVars, rxVars, txVars, op, cmd, tries, tick,
                   attempt, result, ops, pumpVars>>

-----------------------------------------------------------------------------
(* The operations.                                                         *)

Answered == reply \in {"ok", "failed"}

Continue(c) == cmd' = c /\ reply' = "unsent"
Return == op' = "none" /\ Continue("none")

Begin(o) ==
    /\ ~online \/ Loaded
    /\ op = "none" /\ Work < MaxWork
    /\ op' = o /\ ops' = ops + 1
    /\ Continue(IF o = "key" THEN "wsec_key" ELSE "event_msgs")
    /\ tick' = 0 /\ attempt' = 0 /\ result' = -1
    /\ UNCHANGED <<fifoVars, fwVars, rxVars, txVars, tries, pumpVars>>

\* BWFMSetKey: the key and, unless a slot is cleared, wsec read, modified and
\* written, each only after the one before.
Key ==
    /\ op = "key" /\ Answered
    /\ \/ (reply = "failed" \/ cmd # "get_wsec") /\ Return
       \/ /\ reply = "ok" /\ cmd # "set_wsec"
          /\ Continue(IF cmd = "wsec_key" THEN "get_wsec" ELSE "set_wsec") /\ UNCHANGED op
    /\ UNCHANGED <<fifoVars, fwVars, rxVars, txVars, tries, tick, attempt,
                   result, ops, pumpVars>>

\* bwfm_event_listen.
Listen(on) == /\ evlisten' = on
              /\ evring' = IF on THEN <<>> ELSE evring
              /\ UNCHANGED <<glom_q, glom_i>>

\* BWFMScan and BWFMJoin listen before the command that brings the events.  The
\* join gives the semaphore back for a moment.
Events ==
    /\ cmd = "event_msgs" /\ Answered
    /\ Listen(TRUE)
    /\ Continue(IF op = "scan" THEN "escan" ELSE "none")
    /\ UNCHANGED <<fifoVars, fwVars, txVars, op, tries, tick, attempt, result, ops, pumpVars>>

Escan ==
    /\ cmd = "escan" /\ Answered
    /\ IF reply = "ok" THEN Continue("none") /\ attempt' = 1 /\ UNCHANGED <<op, rxVars>>
       ELSE Return /\ Listen(FALSE) /\ UNCHANGED attempt
    /\ UNCHANGED <<fifoVars, fwVars, txVars, tries, tick, result, ops, pumpVars>>

Waiting == op \in {"scan", "join"} /\ cmd = "none" /\ attempt > 0
             /\ tick < Ticks /\ result # 0

\* An attempt of a join begins with the command, or with SET_SSID if it failed.
Attempt ==
    /\ op = "join" /\ cmd = "none" /\ attempt < Attempts /\ result # 0
    /\ attempt = 0 \/ tick = Ticks
    /\ attempt' = attempt + 1 /\ tick' = 0 /\ result' = -1
    /\ Continue("join")
    /\ UNCHANGED <<fifoVars, fwVars, rxVars, txVars, op, tries, ops, pumpVars>>

Associate ==
    /\ cmd \in {"join", "SET_SSID"} /\ Answered
    /\ Continue(IF cmd = "join" /\ reply = "failed" THEN "SET_SSID" ELSE "none")
    /\ UNCHANGED <<fifoVars, fwVars, rxVars, txVars, op, tries, tick, attempt,
                   result, ops, pumpVars>>

\* A scan is done at its last result, a join takes the last word on the link; what the
\* results and the events say beyond that is left out.
ScanResult(e) == IF e.up THEN 0 ELSE result
JoinResult(e) == IF e.up THEN 0 ELSE -2

\* bwfm_event_pop: the wait ends with the ring empty.
Pop ==
    /\ Waiting \/ (cmd = "none" /\ attempt > 0 /\ result = 0)
    /\ evring # <<>>
    /\ evring' = Tail(evring)
    /\ result' = IF op = "scan" THEN ScanResult(Head(evring)) ELSE JoinResult(Head(evring))
    /\ UNCHANGED <<fifoVars, fwVars, glom_q, glom_i, evlisten, txVars, op, cmd,
                   reply, tries, tick, attempt, ops, pumpVars>>

\* The link is asked for now and then; else the operation sleeps.
Tick ==
    /\ Waiting /\ evring = <<>>
    /\ tick' = tick + 1
    /\ \/ op = "join" /\ Continue("GET_BSSID")
       \/ UNCHANGED <<cmd, reply>>
    /\ UNCHANGED <<fifoVars, fwVars, rxVars, txVars, op, tries, attempt, result, ops, pumpVars>>

Bssid ==
    /\ cmd = "GET_BSSID" /\ Answered
    /\ Continue("none")
    /\ result' \in IF reply = "ok" THEN {0, result} ELSE {result}
    /\ UNCHANGED <<fifoVars, fwVars, rxVars, txVars, op, tries, tick, attempt, ops, pumpVars>>

Finish ==
    /\ op \in {"scan", "join"} /\ cmd = "none" /\ attempt > 0 /\ ~Waiting
    /\ op = "join" /\ result # 0 => attempt = Attempts
    /\ result = 0 => evring = <<>>
    /\ Return /\ Listen(FALSE)
    /\ UNCHANGED <<fifoVars, fwVars, txVars, tries, tick, attempt, result, ops, pumpVars>>

-----------------------------------------------------------------------------
(* The pump of bwfm.device.                                                *)

Deliver(f) ==
    IF IsEvent(f) THEN posting' = Append(posting, f) /\ UNCHANGED net
                  ELSE net' = Append(net, f.id) /\ UNCHANGED posting

\* BWFMRxFrame: what is queued before what is in the FIFO.
RxQueued ==
    /\ Semaphore /\ posting = <<>> /\ glom_i < Len(glom_q)
    /\ Deliver(glom_q[glom_i + 1])
    /\ glom_i' = glom_i + 1
    /\ UNCHANGED <<fifoVars, fwVars, glom_q, evlisten, evring, txVars, opVars>>

RxFrame ==
    /\ Semaphore /\ posting = <<>> /\ Drained(glom_q, glom_i) /\ f2 # <<>> /\ ~torn
    /\ f2' = Tail(f2)
    /\ LET f == Head(f2)
           r == RxGlom(glom_q, glom_i, f) IN
         CASE f.chan = "glom" ->
                /\ txmax' = GlomMax(glom_q, glom_i, f)
                /\ glom_q' = r.q /\ glom_i' = r.i + 1 /\ Deliver(r.q[r.i + 1])
           [] f.chan = "control" ->
                txmax' = f.max /\ UNCHANGED <<glom_q, glom_i, pumpVars>>
           [] OTHER -> txmax' = f.max /\ Deliver(f) /\ UNCHANGED <<glom_q, glom_i>>
    /\ UNCHANGED <<torn, fwVars, evlisten, evring, txseq, reqid, opVars>>

EventPost ==
    /\ Semaphore /\ posting # <<>>
    /\ evring' = Pushed(evring, posting) /\ posting' = <<>>
    /\ UNCHANGED <<fifoVars, fwVars, glom_q, glom_i, evlisten, txVars, opVars, net>>

-----------------------------------------------------------------------------
(* BWFMTxData: a data frame waits for the window, up to 200 ms.            *)

NonZero(space) == space # 0   \* mutant: a window that is behind is open
Open(space) == space # 0 /\ space < Seqnrs \div 2

TxData ==
    /\ Semaphore /\ Work < MaxWork /\ Open((txmax - txseq) % Seqnrs)
    /\ Send(1)
    /\ UNCHANGED <<fifoVars, nextId, todo, online, rxVars, txmax, reqid, opVars, pumpVars>>

-----------------------------------------------------------------------------
Firmware == Receive \/ Reply \/ Radiate \/ Line
Command  == Issue \/ Poll \/ PollNothing \/ GiveUp
Operation == \/ \E o \in {"key", "scan", "join"} : Begin(o)
             \/ Key \/ Events \/ Escan \/ Attempt \/ Associate \/ Pop \/ Tick
             \/ Bssid \/ Finish

Next == Firmware \/ Command \/ Operation \/ RxQueued \/ RxFrame \/ EventPost \/ TxData

Spec == Init /\ [][Next]_vars

-----------------------------------------------------------------------------
(* Properties.                                                             *)

\* The command's and the operation's variables agree, the ring and the queue
\* stay within their arrays, and nobody is left listening (bwfm_event_listen).
TypeOK ==
    /\ Len(glom_q) <= MaxSub /\ glom_i \in 0..Len(glom_q)
    /\ Len(evring) <= Slots
    /\ evlisten => op \in {"scan", "join"}
    /\ txseq \in 0..Seqnrs - 1 /\ txmax \in 0..Seqnrs - 1
    /\ tries \in 0..Tries /\ tick \in 0..Ticks /\ attempt \in 0..Attempts
    /\ op = "none" => cmd = "none"

\* "Shares the global glom queue with the pump, which is safe because the pump
\* blocks on bwfm_Sem while we hold it": data frames reach the network in the
\* order of the air, each at most once, whoever read them off the FIFO.
InOrderOnce == \A i, j \in 1..Len(net) : i < j => net[i] < net[j]

\* A reply ends the command it answers and no other, however late it comes
\* (bwfm_dcmd's "not our response").
TakesOurs   == reply = "awaited" /\ reply' = "ok" => reqid \notin todo
ReplyIsOurs == [][TakesOurs]_vars

\* "We may only send while (txmax - txseq) is non-zero with its top bit clear":
\* the firmware is never handed more data frames than it has room for, with
\* control frames taking numbers outside the window.
CreditRespected == held \in 0..Window
=============================================================================
