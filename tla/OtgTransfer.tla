---------------------------- MODULE OtgTransfer ----------------------------
(***************************************************************************)
(* The data of one transfer of usb2otg.device: how SetupChannel and        *)
(* AdvanceChannel cut it into pieces, what is credited when a piece halts  *)
(* before it is complete, the data toggle the driver keeps for every       *)
(* endpoint number, and the stages of a control transfer.                  *)
(*                                                                         *)
(* A piece is what the channel is armed for: at most Most bytes, in        *)
(* packets of MaxPkt.  The channel and the device are external: packet by  *)
(* packet the device takes or gives data, and its handshake may be lost.   *)
(* Buffers, bounce copies and cache maintenance are left out.              *)
(***************************************************************************)
EXTENDS Integers

CONSTANTS
  Pipes,        \* data endpoints: records [num, in]
  MaxPkt,       \* bytes in a packet
  Most,         \* bytes a channel can be armed for
  Lengths,      \* lengths of the requests
  Limit,        \* USB2OTG_TRANSIENT_RETRY_LIMIT
  SizeCounts,   \* TRANSSIZE.SIZE counts down on OUT as well as on IN
  MidBurst,     \* a read may fail after some of its packets
  Answers       \* what a device has for a control read of n bytes

VARIABLES
  req,      \* hc_Request or the head of its queue, or None
  actual,   \* iouh_Actual
  pid,      \* hu_PIDBits: the toggle of every endpoint number, or SETUP
  chan,     \* the channel's registers, or None while the request is queued
  tries,    \* iouh_DriverPrivate2
  result,   \* how the last request was answered
  dev,      \* the device's toggle of every pipe; is its last packet repeated
  told,     \* bytes of this request the device took or gave
  has,      \* bytes the device has for this read
  stage,    \* the device's stage of a control transfer
  spoiled   \* a byte went to another place than the other side's

host   == <<req, actual, pid, chan, tries, result>>
device == <<dev, told, has, stage, spoiled>>
vars   == <<host, device>>

None  == [none |-> TRUE]
SETUP == 3   \* USB2OTG_PID_SETUP
Ctrl == 0
Default == [num |-> Ctrl, in |-> FALSE]
Nums == {p.num : p \in Pipes} \union {Ctrl}

Least(a, b) == IF a < b THEN a ELSE b
Packets(n)  == (n + MaxPkt - 1) \div MaxPkt
Flip(t)     == 1 - t
Odd(n)      == n % 2 = 1

IsCtrl(r) == r.num = Ctrl
Pipe == IF IsCtrl(req) THEN Default ELSE [num |-> req.num, in |-> req.in]

-----------------------------------------------------------------------------
(* The host                                                                *)

(* The registers of a piece: direction, SIZE and PKTCNT as programmed and  *)
(* as they count down, and the toggle of the next packet.                  *)
Piece(kind, in, size, packets, t) ==
  [kind |-> kind, in |-> in, size |-> size, left |-> size,
   count |-> packets, pkts |-> packets, pid |-> t, state |-> "run"]

DataPiece(n, t) ==
  LET size == Least(n, Most) IN Piece("data", req.in, size, Packets(size), t)

SetupChannel ==
  /\ req # None /\ chan = None
  /\ IF IsCtrl(req)
     THEN /\ actual' = 0
          /\ pid' = [pid EXCEPT ![Ctrl] = SETUP]
          /\ chan' = Piece("setup", FALSE, MaxPkt, 1, SETUP)
     ELSE /\ chan' = DataPiece(req.len - actual, pid[req.num])
          /\ UNCHANGED <<actual, pid>>
  /\ UNCHANGED <<req, tries, result, device>>

Answer(how) ==
  /\ req' = None /\ chan' = None /\ tries' = 0 /\ actual' = 0
  /\ result' = [how |-> how, req |-> req, actual |-> actual]

AnswerOk(total) ==
  /\ req' = None /\ chan' = None /\ tries' = 0 /\ actual' = 0
  /\ result' = [how |-> "ok", req |-> req, actual |-> total]

Continue(piece, total) ==
  /\ chan' = piece /\ tries' = 0 /\ actual' = total
  /\ UNCHANGED <<req, result>>

(* What a completed piece moved: SIZE is read back on IN alone. *)
AtSetup == IsCtrl(req) /\ pid[Ctrl] = SETUP
Moved == IF req.in /\ ~AtSetup THEN chan.size - chan.left ELSE chan.size

OncePerPiece == [pid EXCEPT ![req.num] = Flip(@)]   \* mutant: not per packet
Toggled ==
  LET first == IF chan.size = 0 THEN 1 ELSE Packets(chan.size)
  IN IF Odd(first - chan.pkts) THEN [pid EXCEPT ![req.num] = Flip(@)] ELSE pid

(* After a piece of a bulk or interrupt transfer; a short read ends it. *)
AdvanceData ==
  LET total == actual + Moved
      over == total = req.len \/ (req.in /\ Moved < chan.size)
  IN /\ pid' = Toggled
     /\ IF over THEN AnswerOk(total)
        ELSE Continue(DataPiece(req.len - total, pid'[req.num]), total)

(* After a stage of a control transfer, or a piece of its data. *)
AllMoved(total)     == total = req.len /\ ~AtSetup   \* mutant: no status stage
Acknowledged(total) == Moved = 0 /\ ~AtSetup
AdvanceControl ==
  LET total == IF AtSetup THEN 0 ELSE actual + Moved
  IN /\ pid' = IF AtSetup THEN [pid EXCEPT ![Ctrl] = 1] ELSE Toggled
     /\ CASE Acknowledged(total) -> AnswerOk(total)
          [] ~Acknowledged(total) /\ total < req.len ->
               Continue(DataPiece(req.len - total, pid'[Ctrl]), total)
          [] OTHER ->
               Continue(Piece("status", req.len = 0 \/ ~req.in, 0, 1, 1), total)

AdvanceChannel ==
  /\ chan # None /\ chan.state = "complete"
  /\ IF IsCtrl(req) THEN AdvanceControl ELSE AdvanceData
  /\ UNCHANGED device

(* A bulk write that halts is credited with the packets that SIZE and      *)
(* PKTCNT agree on.                                                        *)
ByPackets == (chan.count - chan.pkts) * MaxPkt   \* mutant: PKTCNT alone
Credit ==
  LET bytes == Least((chan.count - chan.pkts) * MaxPkt, chan.size - chan.left)
  IN Least(bytes - (bytes % MaxPkt), req.len - actual)

(* A transient error: the request goes back to its queue, to be armed from *)
(* where it stands, up to Limit times. *)
NoToggle(bytes) == pid   \* mutant: the toggle is left behind
CreditToggled(bytes) ==
  IF Odd(bytes \div MaxPkt) THEN [pid EXCEPT ![req.num] = Flip(@)] ELSE pid

Retry ==
  /\ chan # None /\ chan.state = "halted"
  /\ IF tries = Limit THEN Answer("timeout") /\ UNCHANGED pid
     ELSE /\ IF ~IsCtrl(req) /\ ~req.in /\ chan.pkts < chan.count
             THEN /\ actual' = actual + Credit
                  /\ pid' = CreditToggled(Credit)
                  /\ tries' = 1
             ELSE tries' = tries + 1 /\ UNCHANGED <<actual, pid>>
          /\ chan' = None
          /\ UNCHANGED <<req, result>>
  /\ UNCHANGED device

Stalled ==
  /\ chan # None /\ chan.state = "stall"
  /\ Answer("stall") /\ UNCHANGED <<pid, device>>

-----------------------------------------------------------------------------
(* The bus and the device                                                  *)

Running(kind, in) ==
  chan # None /\ chan.state = "run" /\ chan.kind = kind /\ chan.in = in

Sent == (chan.count - chan.pkts) * MaxPkt
Received == chan.size - chan.left

Counted(n, left) ==
  [chan EXCEPT !.pkts = @ - 1, !.left = left,
               !.pid = IF @ = SETUP THEN @ ELSE Flip(@),
               !.state = IF chan.pkts = 1 \/ (chan.in /\ n < MaxPkt)
                         THEN "complete" ELSE "run"]
Halted == [chan EXCEPT !.state = "halted"]

TakeSetup ==
  /\ Running("setup", FALSE)
  /\ told' = 0
  /\ has' \in IF req.in THEN Answers[req.len] ELSE {req.len}
  /\ stage' = IF req.len = 0 THEN "status" ELSE "data"
  /\ dev' = [dev EXCEPT ![Default] = [tog |-> 1, again |-> FALSE]]
  /\ chan' = Counted(MaxPkt, 0)
  /\ UNCHANGED <<req, actual, pid, tries, result, spoiled>>

(* A write's packet: taken if its toggle is new.  Its handshake is seen,   *)
(* lost, or a NYET before the last on which the core reports every packet  *)
(* as sent.                                                                *)
TakeData ==
  LET n == Least(MaxPkt, chan.size - Sent)
      new == chan.pid = dev[Pipe].tog
      left == IF SizeCounts THEN chan.left - n ELSE chan.left
  IN /\ Running("data", FALSE)
     /\ told' = IF new THEN told + n ELSE told
     /\ spoiled' = (spoiled \/ (new /\ actual + Sent # told))
     /\ dev' = IF new THEN [dev EXCEPT ![Pipe].tog = Flip(@)] ELSE dev
     /\ stage' = IF IsCtrl(req) /\ told' = req.len THEN "status" ELSE stage
     /\ chan' \in {Counted(n, left), Halted} \union
                  IF chan.pkts = 1 THEN {} ELSE {[Halted EXCEPT !.pkts = 0, !.left = left]}
     /\ UNCHANGED <<req, actual, pid, tries, result, has>>

(* A read's packet, or the last one again if the host's handshake was      *)
(* lost; the host tells by the toggle.                                     *)
GiveAgain ==
  /\ Running("data", TRUE) /\ dev[Pipe].again
  /\ dev' = [dev EXCEPT ![Pipe] = [tog |-> Flip(@.tog), again |-> FALSE]]
  /\ chan' = IF chan.pid # dev[Pipe].tog THEN Halted ELSE Counted(MaxPkt, chan.left)
  /\ spoiled' = (spoiled \/ chan.pid = dev[Pipe].tog)
  /\ UNCHANGED <<req, actual, pid, tries, result, told, has, stage>>

GiveData ==
  LET n == Least(MaxPkt, has - told)
      new == chan.pid = dev[Pipe].tog
      after == IF new THEN Counted(n, chan.left - n) ELSE Halted
  IN /\ Running("data", TRUE) /\ ~dev[Pipe].again
     /\ IsCtrl(req) => stage = "data"
     /\ told' = told + n
     /\ spoiled' = (spoiled \/ ~new \/ actual + Received # told)
     /\ chan' = after
     /\ \E lost \in BOOLEAN :
          /\ lost => ~IsCtrl(req) /\ (MidBurst \/ after.state = "complete")
          /\ dev' = [dev EXCEPT ![Pipe] =
                       [tog |-> IF lost THEN @.tog ELSE Flip(@.tog), again |-> lost]]
     /\ stage' = IF IsCtrl(req) /\ (n < MaxPkt \/ told' = req.len)
                 THEN "status" ELSE stage
     /\ UNCHANGED <<req, actual, pid, tries, result, has>>

(* A control read that is asked for more when all was given. *)
Refuse ==
  /\ Running("data", TRUE) /\ IsCtrl(req) /\ stage = "status"
  /\ chan' = [chan EXCEPT !.state = "stall"]
  /\ UNCHANGED <<req, actual, pid, tries, result, device>>

TakeStatus ==
  /\ Running("status", TRUE) \/ Running("status", FALSE)
  /\ stage' = "done"
  /\ chan' = Counted(0, 0)
  /\ UNCHANGED <<req, actual, pid, tries, result, dev, told, has, spoiled>>

(* The device, or the wire, fails before a packet of this piece. *)
Fail ==
  /\ chan # None /\ chan.state = "run"
  /\ chan.in => (MidBurst \/ chan.left = chan.size)
  /\ chan' = Halted
  /\ UNCHANGED <<req, actual, pid, tries, result, device>>

-----------------------------------------------------------------------------
(* The client: one request at a time; an endpoint that failed is cleared   *)
(* (CLEAR_FEATURE, mirrored by TermIO) before it is used again.            *)
Clean == result # None => (result.how = "ok" \/ IsCtrl(result.req))

Submit ==
  \E p \in Pipes \union {Default}, len \in Lengths, in \in BOOLEAN :
    /\ req = None /\ Clean
    /\ p # Default => in = p.in /\ len > 0
    /\ req' = [num |-> p.num, in |-> in, len |-> len]
    /\ result' = None /\ told' = 0
    /\ has' \in IF in /\ p # Default THEN 0..len ELSE {len}
    /\ stage' = "idle"
    /\ UNCHANGED <<actual, pid, chan, tries, dev, spoiled>>

TermIO ==
  /\ req = None /\ ~Clean
  /\ LET p == [num |-> result.req.num, in |-> result.req.in]
     IN /\ dev' = [dev EXCEPT ![p] = [tog |-> 0, again |-> FALSE]]
        /\ pid' = [pid EXCEPT ![p.num] = 0]
  /\ result' = None
  /\ UNCHANGED <<req, actual, chan, tries, told, has, stage, spoiled>>

-----------------------------------------------------------------------------
Init ==
  /\ req = None /\ chan = None /\ result = None
  /\ actual = 0 /\ tries = 0
  /\ pid = [n \in Nums |-> 0]
  /\ dev = [p \in Pipes \union {Default} |-> [tog |-> 0, again |-> FALSE]]
  /\ told = 0 /\ has = 0 /\ stage = "idle" /\ spoiled = FALSE

Device == TakeSetup \/ TakeData \/ GiveAgain \/ GiveData \/ Refuse
            \/ TakeStatus \/ Fail
Driver == SetupChannel \/ AdvanceChannel \/ Retry \/ Stalled

Next == Submit \/ TermIO \/ Driver \/ Device

Spec == Init /\ [][Next]_vars

-----------------------------------------------------------------------------
TypeOK ==
  /\ pid \in [Nums -> {0, 1, SETUP}]
  /\ tries \in 0..Limit
  /\ req # None => actual \in 0..req.len
  /\ chan # None => /\ req # None
                    /\ chan.left \in 0..chan.size
                    /\ chan.pkts \in 0..chan.count
  /\ told \in 0..has

(* Whatever handshakes are lost and wherever a piece halts, the device     *)
(* takes every byte of a write once and in order, and the client finds     *)
(* every byte of a read where the device's stream has it; a request        *)
(* answered without error moved as many bytes as it says.                  *)
DataOnce ==
  /\ ~spoiled
  /\ (req = None /\ result # None /\ result.how = "ok") =>
       /\ told = result.actual
       /\ ~result.req.in => told = result.req.len

(* A write is never credited with a packet the device has not taken: what  *)
(* was over-reported would never be sent again.                            *)
NeverAhead ==
  (req # None /\ ~IsCtrl(req) /\ ~req.in) => actual <= told

(* Between requests the toggle kept for an endpoint is the device's, or    *)
(* the one after a packet the device is going to repeat.                   *)
ToggleInStep ==
  (req = None /\ Clean) =>
    \A p \in Pipes : (pid[p.num] = dev[p].tog) = ~dev[p].again

(* A control transfer answered without error had its status stage. *)
ControlWhole ==
  (req = None /\ result # None /\ result.how = "ok" /\ IsCtrl(result.req))
    => stage = "done"
=============================================================================
