------------------------------- MODULE BtUart -------------------------------
(***************************************************************************)
(* Bluetooth on the PL011: pl011bt.resource (claim, power, configure, the  *)
(* receive interrupt and its ring) under h4bthci.device (the unit task     *)
(* that polls the ring and cuts the H4 stream into packets, the queue of   *)
(* read requests, open, close and abort).                                  *)
(*                                                                         *)
(* Outside: the controller, whose packets are numbered and as long as      *)
(* Length says; the UART's FIFO, which RTS keeps from overrunning; and the *)
(* stack, which opens the device, posts reads, aborts some and closes.     *)
(* One queue of reads stands for the event and the ACL queue.  Writing,    *)
(* the listeners' copies, baud rates and the clock set-up are left out.    *)
(***************************************************************************)
EXTENDS Naturals, Sequences, SequencesExt

CONSTANTS
  Packets,   \* bound: packets the controller sends in a session
  Length,    \* bytes of a packet, the header of two included
  Ring,      \* bytes the ring holds
  Buf,       \* bytes the framer's buffer holds
  Reads,     \* bound: read requests
  Claims,    \* the lengths that bytes taken for a header may announce
  Opens      \* bound: how often the device is opened

StreamAssumption == /\ {Packets, Length, Ring, Buf, Reads, Opens} \subseteq Nat /\ Length >= 2
                    /\ Claims \subseteq Nat \ {0}

Fifo == 2    \* bytes the UART holds

VARIABLES
  unit,      \* the device's unit: "none", "opening", "open", "closing"
  task,      \* where the unit task is; "none" when hu_Task is clear
  opens,     \* how often the device was opened
  owner,     \* who has claimed the PL011: "nobody", "unit" or "other"
  powered,   \* BT_REG_EN
  enabled,   \* UARTEN, with the receive interrupt unmasked
  quit,      \* SIGBREAKF_CTRL_C
  out,       \* the byte the controller sends next: packet and place
  fifo, ring, rx,      \* the bytes in the UART, in the ring, in hu_RX
  claim,     \* the length that the first byte of rx announces, once looked at
  lost,      \* history: a byte was dropped
  queue,     \* the pending reads, in order
  replies,   \* history: how often each read was replied to
  framed     \* history: the packets the framer cut out, 0 for one never sent

line   == <<fifo, ring, out, lost>>
reader == <<rx, claim, framed>>
client == <<queue, replies>>
device == <<unit, task, opens, owner, powered, enabled, quit>>
vars   == <<device, line, reader, client>>

Noise == <<0, 0>>                   \* a byte nobody sent
Byte(p, k) == <<p, k>>
After(b) == IF b[2] < Length THEN Byte(b[1], b[2] + 1) ELSE Byte(b[1] + 1, 1)

Init ==
  /\ unit = "none" /\ task = "none" /\ opens = 0
  /\ owner \in {"nobody", "other"} /\ powered = FALSE /\ enabled = FALSE /\ quit = FALSE
  /\ out = Byte(1, 1) /\ fifo = <<>> /\ ring = <<>> /\ rx = <<>>
  /\ claim = 0 /\ lost = FALSE
  /\ queue = <<>> /\ replies = [r \in 1..Reads |-> 0] /\ framed = <<>>

(***************************************************************************)
(* Opening, and the unit task's bring-up.                                  *)
(***************************************************************************)

\* OpenUnit: one unit, made fresh; the task is started and waited for.
Open ==
  /\ unit = "none" /\ opens < Opens
  /\ unit' = "opening" /\ task' = "claim" /\ opens' = opens + 1
  /\ quit' = FALSE /\ rx' = <<>> /\ claim' = 0 /\ queue' = <<>>
  /\ UNCHANGED <<owner, powered, enabled, line, framed, replies>>

ClaimUart ==
  /\ task = "claim"
  /\ \/ owner = "nobody" /\ task' = "power" /\ owner' = "unit"
     \/ owner # "nobody" /\ task' = "failed" /\ UNCHANGED owner
  /\ UNCHANGED <<unit, opens, powered, enabled, quit, line, reader, client>>

\* PL011BTSetPower: the firmware is asked, and may refuse.
Power ==
  /\ task = "power"
  /\ \/ task' = "configure" /\ powered' = TRUE
     \/ task' = "release" /\ UNCHANGED powered
  /\ UNCHANGED <<unit, opens, owner, enabled, quit, line, reader, client>>

\* PL011BTConfigure: with the receiver off the FIFO is drained and the ring emptied;
\* then the receiver and its interrupt are on.  The clock, or a busy UART, may make it
\* fail before that.
Stale == UNCHANGED <<fifo, ring>>
Emptied == fifo' = <<>> /\ ring' = <<>>
Configure ==
  /\ task = "configure"
  /\ \/ task' = "up" /\ enabled' = TRUE /\ Emptied
     \/ task' = "release" /\ UNCHANGED <<enabled, fifo, ring>>
  /\ UNCHANGED <<unit, opens, owner, powered, quit, out, lost, reader, client>>

\* PL011BTRelease: masked, off, free.  After a failed bring-up nobody takes the power away.
Release == owner' = "nobody" /\ enabled' = FALSE
GiveBack ==
  /\ task = "release" /\ task' = "failed"
  /\ Release
  /\ UNCHANGED <<unit, opens, powered, quit, line, reader, client>>

\* The end of the bring-up, under Forbid: the opener is told, and keeps the unit or
\* frees it.
Opened ==
  /\ unit = "opening" /\ task \in {"up", "failed"}
  /\ IF task = "up" THEN unit' = "open" /\ task' = "poll"
                    ELSE unit' = "none" /\ task' = "none"
  /\ UNCHANGED <<opens, owner, powered, enabled, quit, line, reader, client>>

(***************************************************************************)
(* Receiving.                                                              *)
(***************************************************************************)

\* pl011bt_rx_handler: everything in the FIFO goes into the ring; when that is full
\* the byte just read is dropped and the rest stays.
Room == Ring - Len(ring)
Handler ==
  /\ enabled /\ fifo # <<>>
  /\ IF Len(fifo) <= Room
       THEN ring' = ring \o fifo /\ fifo' = <<>> /\ UNCHANGED lost
       ELSE /\ ring' = ring \o SubSeq(fifo, 1, Room)
            /\ fifo' = SubSeq(fifo, Room + 2, Len(fifo))
            /\ lost' = TRUE
  /\ UNCHANGED <<device, out, reader, client>>

\* PL011BTRead, into what is left of the framer's buffer.
Least(a, b) == IF a < b THEN a ELSE b
TakeAll == Len(ring)
TakeRoom == Least(Len(ring), Buf - Len(rx))
Poll ==
  /\ task = "poll" /\ ~quit /\ TakeRoom > 0
  /\ rx' = rx \o SubSeq(ring, 1, TakeRoom)
  /\ ring' = SubSeq(ring, TakeRoom + 1, Len(ring))
  /\ task' = "frame"
  /\ UNCHANGED <<unit, opens, owner, powered, enabled, quit, fifo, out, lost,
                 claim, framed, client>>

\* h4bthci_PacketLength: what the first byte and the length field announce.  A byte
\* from the middle of a packet is of no known type -- it is dropped -- or announces any
\* length at all.
Heads(b) == b[1] > 0 /\ b[2] = 1
Announce ==
  /\ task = "frame" /\ claim = 0
  /\ \/ /\ rx # <<>> /\ Heads(rx[1]) /\ Len(rx) >= 2
        /\ claim' = Length /\ UNCHANGED <<rx, task>>
     \/ /\ rx # <<>> /\ ~Heads(rx[1])
        /\ \/ rx' = Tail(rx) /\ UNCHANGED <<claim, task>>
           \/ /\ Len(rx) >= 2 /\ \E n \in Claims : claim' = n
              /\ UNCHANGED <<rx, task>>
     \/ /\ Len(rx) < 2 /\ task' = "poll" /\ UNCHANGED <<rx, claim>>
  /\ UNCHANGED <<unit, opens, owner, powered, enabled, quit, line, framed, client>>

Incomplete ==
  /\ task = "frame" /\ claim > Len(rx)
  /\ task' = "poll"
  /\ UNCHANGED <<unit, opens, owner, powered, enabled, quit, line, reader, client>>

\* h4bthci_DeliverEvent, DeliverACL: the first waiting read gets the packet; without one
\* it is dropped.
NoRest == <<>>
Rest == SubSeq(rx, claim + 1, Len(rx))
Sent(s) == IF \E p \in 1..Packets : s = [k \in 1..Length |-> Byte(p, k)]
             THEN s[1][1] ELSE 0
Replied(r) == replies' = [replies EXCEPT ![r] = @ + 1]
Deliver ==
  /\ task = "frame" /\ claim > 0 /\ claim <= Len(rx)
  /\ framed' = Append(framed, Sent(SubSeq(rx, 1, claim)))
  /\ rx' = Rest /\ claim' = 0
  /\ IF queue # <<>> THEN Replied(Head(queue)) /\ queue' = Tail(queue)
                     ELSE UNCHANGED client
  /\ UNCHANGED <<device, line>>

(***************************************************************************)
(* The stack: reads, aborts, close.                                        *)
(***************************************************************************)

Queued(r) == \E i \in DOMAIN queue : queue[i] = r
Post(r) ==
  /\ unit = "open" /\ replies[r] = 0 /\ ~Queued(r)
  /\ \A q \in 1..(r - 1) : Queued(q) \/ replies[q] > 0
  /\ queue' = Append(queue, r)
  /\ UNCHANGED <<device, line, reader, replies>>

\* AbortIO replies only if it found the request on a queue.
Abort(r) ==
  /\ unit = "open"
  /\ \E i \in DOMAIN queue : queue[i] = r /\ queue' = RemoveAt(queue, i)
  /\ Replied(r)
  /\ UNCHANGED <<device, line, reader>>

\* CloseUnit: the task is told to stop and waited for, then the unit is freed.  The
\* stack has aborted its reads by then.
Close ==
  /\ unit = "open" /\ queue = <<>>
  /\ unit' = "closing" /\ quit' = TRUE
  /\ UNCHANGED <<task, opens, owner, powered, enabled, line, reader, client>>
TaskStops ==
  /\ task = "poll" /\ quit
  /\ task' = "off" /\ powered' = FALSE
  /\ UNCHANGED <<unit, opens, owner, enabled, quit, line, reader, client>>
TaskEnds ==
  /\ task = "off" /\ task' = "none"
  /\ Release
  /\ UNCHANGED <<unit, opens, powered, quit, line, reader, client>>
AtOnce == TRUE
TaskGone == task = "none"
Closed ==
  /\ unit = "closing" /\ TaskGone
  /\ unit' = "none"
  /\ UNCHANGED <<task, opens, owner, powered, enabled, quit, line, reader, client>>

(***************************************************************************)
(* Outside.                                                                *)
(***************************************************************************)

Listening == enabled /\ powered /\ task \in {"poll", "frame"}
SendByte ==
  /\ Listening /\ out[1] <= Packets /\ Len(fifo) < Fifo
  /\ fifo' = Append(fifo, out)
  /\ out' = After(out)
  /\ UNCHANGED <<device, ring, lost, reader, client>>
\* Power and a new divisor put transitions on the wire.
Crackle ==
  /\ task \in {"power", "configure"} /\ Len(fifo) < Fifo
  /\ fifo' = Append(fifo, Noise)
  /\ UNCHANGED <<device, ring, out, lost, reader, client>>

UnitTask == ClaimUart \/ Power \/ Configure \/ GiveBack \/ Poll \/ Announce
            \/ Incomplete \/ Deliver \/ TaskStops \/ TaskEnds
Next ==
  \/ Open \/ Opened \/ Close \/ Closed
  \/ UnitTask \/ Handler
  \/ \E r \in 1..Reads : Post(r) \/ Abort(r)
  \/ SendByte \/ Crackle

\* The interrupt is served, the unit task runs, the opener and the closer wait no
\* longer than they must.
Fairness == WF_vars(Handler) /\ WF_vars(UnitTask) /\ WF_vars(Opened) /\ WF_vars(Closed)
Spec == Init /\ [][Next]_vars /\ Fairness

(***************************************************************************)
(* What the transport must keep.                                           *)
(***************************************************************************)

AnyByte == {Noise} \cup {Byte(p, k) : p \in 1..Packets, k \in 1..Length}
TypeOK ==
  /\ unit \in {"none", "opening", "open", "closing"}
  /\ task \in {"none", "claim", "power", "configure", "up", "release", "failed",
               "poll", "frame", "off"}
  /\ owner \in {"nobody", "unit", "other"} /\ powered \in BOOLEAN /\ enabled \in BOOLEAN
  /\ Len(fifo) <= Fifo /\ Len(ring) <= Ring /\ Len(rx) <= Buf
  /\ \A s \in {fifo, ring, rx} : \A i \in DOMAIN s : s[i] \in AnyByte
  /\ \A i \in DOMAIN framed : framed[i] \in 0..Packets

\* PL011BTConfigure drains the FIFO so that "the first byte the framer sees is the
\* first byte the controller actually sent": while no byte was dropped, what the framer
\* cuts out in the first session are the controller's packets, each once and in order,
\* and no session sees the noise of the bring-up.
FramesArePackets ==
  /\ ~lost /\ opens <= 1 => \A i \in DOMAIN framed : framed[i] = i
  /\ \A i \in DOMAIN rx : rx[i] # Noise

\* A read is answered once, by a packet or by its abort.
AnsweredOnce == \A r \in 1..Reads : replies[r] <= 1 /\ (Queued(r) => replies[r] = 0)

\* The unit task lives no longer than its unit, and without a unit the PL011 is free
\* and silent.
TaskHasUnit ==
  unit = "none" => task = "none" /\ owner # "unit" /\ ~enabled

RadioKept == TypeOK /\ FramesArePackets /\ AnsweredOnce /\ TaskHasUnit

\* What they follow from.  The claim, the receiver and the unit go with the stage of
\* the task.
Staged ==
  /\ \/ unit = "none" /\ task = "none"
     \/ unit = "opening" /\ task \in {"claim", "power", "configure", "up", "release", "failed"}
     \/ unit = "open" /\ task \in {"poll", "frame"}
     \/ unit = "closing" /\ task \in {"poll", "frame", "off", "none"}
  /\ opens = 0 => unit = "none"
  /\ quit => unit \in {"none", "closing"}
  /\ owner = "unit" <=> task \notin {"none", "claim", "failed"}
  /\ enabled <=> task \in {"up", "poll", "frame", "off"}

\* Every read has its place, and none has two.
Posted ==
  /\ queue \in Seq(1..Reads) /\ replies \in [1..Reads -> Nat]
  /\ \A i, j \in DOMAIN queue : queue[i] = queue[j] => i = j

\* The bytes, and no noise behind the receiver.
Bytes ==
  /\ {fifo, ring, rx} \subseteq Seq(AnyByte) /\ framed \in Seq(0..Packets)
  /\ \E p \in 1..Packets + 1, k \in 1..Length : out = Byte(p, k)
  /\ enabled => \A s \in {fifo, ring} : \A i \in DOMAIN s : s[i] # Noise
  /\ claim \in Nat /\ opens \in Nat /\ lost \in BOOLEAN

\* What lies between the controller and the framer, in order, with the byte that comes
\* next, and that the framer has cut it where a packet begins.
Stream == Append(rx \o ring \o fifo, out)
Unbroken ==
  /\ Stream[1] = Byte(Len(framed) + 1, 1)
  /\ \A i \in 1..Len(Stream) - 1 : Stream[i + 1] = After(Stream[i])
  /\ claim \in {0, Length}
FirstSession ==
  ~lost /\ opens <= 1 =>
    /\ \A i \in DOMAIN framed : framed[i] = i
    /\ enabled => Unbroken
    /\ opens = 0 \/ task \in {"claim", "power", "configure"} =>
         framed = <<>> /\ rx = <<>> /\ claim = 0 /\ out = Byte(1, 1)
IInv == TypeOK /\ FramesArePackets /\ AnsweredOnce /\ Staged /\ Posted /\ Bytes
        /\ FirstSession

\* While the ring has room for what arrives, every packet the controller sends is
\* framed, unless the device is closed: a packet that lies in the buffer in pieces, or
\* behind another, is not forgotten.
AllFramed ==
  (unit = "open" /\ out[1] > Packets) ~> (Len(framed) >= Packets \/ unit # "open")
=============================================================================
