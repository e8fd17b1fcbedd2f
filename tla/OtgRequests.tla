---------------------------- MODULE OtgRequests ----------------------------
(***************************************************************************)
(* The request life cycle of usb2otg.device: the queues of a unit, the     *)
(* host channels, the software interrupt that answers and schedules, the   *)
(* channel interrupt, the watchdog, and the start-of-frame gate.           *)
(*                                                                         *)
(* Every handler of the driver runs under Disable(), so one handler is one *)
(* step; what is hard is the order of handlers.  Time is a frame of 1 ms.  *)
(* Of the eight channels two of the split pool, one of the direct pool,    *)
(* the control channel and both bulk channels are kept.                    *)
(***************************************************************************)
EXTENDS Integers, Sequences, FiniteSets, SequencesExt

CONSTANTS
  Req,      \* the requests of the clients
  Kind,     \* io_Command of each: "ctrl", "bulk" or "int"
  Split,    \* those with UHFF_SPLITTRANS; all behind one hub
  Pipe,     \* device, endpoint and direction of each
  Dev,      \* the device of each
  Interval, \* polling interval of an interrupt request, in frames
  Limit,    \* retries before a request is given up
  Slots,    \* entries of hu_TTClearPending
  MaxFaults,\* channels that refuse to halt or are burned, at one time
  Jams      \* can the periodic request queue be found jammed

(* Assumed: Kind, Pipe, Dev and Interval are functions on Req, Split is a  *)
(* subset of Req, and Limit and Slots are positive.                        *)

VARIABLE unit
vars == <<unit>>

None == "none"
TT   == "hu_TTClearReq"
All  == Req \union {TT}

Bulks   == {"bulk", "bulk2"}
SplitPool == {"int2", "int3"}
Ints    == SplitPool \union {"int5"}
Chan    == {"ctrl"} \union Bulks \union Ints
InOrder == <<"ctrl", "bulk", "int2", "int3", "int5", "bulk2">>

Command(r) == IF r = TT THEN "ctrl" ELSE Kind[r]
Home(r) == CASE Command(r) = "ctrl" -> "ctrlq"
             [] Command(r) = "bulk" -> "bulkq"
             [] Command(r) = "int"  -> "intq"
Endpoint(r) == IF r = TT THEN TT ELSE Pipe[r]
Lists == {"ctrlq", "bulkq", "intq", "sched", "fin"}

Put(u, q, r)   == [u EXCEPT ![q] = Append(@, r)]
Push(u, q, r)  == [u EXCEPT ![q] = <<r>> \o @]
Take(u, q, r)  == [u EXCEPT ![q] = Remove(@, r)]
Cause(u)       == [u EXCEPT !.caused = TRUE]
Wake(u)        == [u EXCEPT !.gate = "open"]
Later(u, r)    == [u EXCEPT !.rest[r] = IF r = TT THEN 1 ELSE Interval[r]]
Retry(u, r)    == [u EXCEPT !.tries[r] = @ + 1]
Fresh(u, r)    == [u EXCEPT !.tries[r] = 0]
Spent(u, r)    == u.tries[r] >= Limit

(* The channel gives its request up: hc_Request, and with it the phase. *)
Free(u, c) ==
  [u EXCEPT !.req[c] = None, !.st[c] = "off", !.cs = @ \ {c}]

Finish(u, c) == Put(Free(u, c), "fin", u.req[c])

(* The request of a channel goes back to be polled after its interval. *)
PollKept(u, c) ==   \* mutant: hc_Request keeps pointing at it
  Put(Later(u, u.req[c]), "intq", u.req[c])
PollAgain(u, c) == LET r == u.req[c] IN Put(Later(Free(u, c), r), "intq", r)

(* A channel may still fail: the bound on faults. *)
MayFail(u) == Cardinality(u.stuck \union u.dead \union u.burned) < MaxFaults

Rewind(u, c) == [u EXCEPT !.cs = @ \ {c}, !.st[c] = "delay"]

-----------------------------------------------------------------------------
(* Splits through the hub: one at a time, and a clear for an abandoned one *)

TTSameKind(u, r) ==   \* mutant: each scheduler looks at its own channels
  /\ r \in Split
  /\ \E c \in Chan : u.req[c] \in Split \ {r} /\ Command(u.req[c]) = Command(r)
tt_in_flight(u, r) ==
  /\ r \in Split
  /\ \E c \in Chan : u.req[c] \in Split \ {r}

endpoint_in_flight(u, r) ==
  \E c \in Chan : /\ u.req[c] \notin {None, r}
                  /\ Endpoint(u.req[c]) = Endpoint(r)

tt_clear_issue(u, r) ==
  Push([u EXCEPT !.ttfor = r, !.tries[TT] = 0], "ctrlq", TT)

queue_clear_tt_buffer(u, r) ==
  IF r \notin Split THEN u
  ELSE IF u.ttfor = None THEN tt_clear_issue(u, r)
  ELSE IF \/ Pipe[u.ttfor] = Pipe[r]
          \/ \E p \in u.ttpend : Pipe[p] = Pipe[r]
          \/ Cardinality(u.ttpend) = Slots
       THEN u
       ELSE [u EXCEPT !.ttpend = @ \union {r}]

tt_clear_drain(u) ==
  IF u.ttfor # None \/ u.ttpend = {} THEN u
  ELSE LET r == CHOOSE p \in u.ttpend : TRUE
       IN tt_clear_issue([u EXCEPT !.ttpend = @ \ {r}], r)

-----------------------------------------------------------------------------
(* Arming a channel                                                        *)

StartChannel(u, c) ==
  LET v == [u EXCEPT !.st[c] = "run"]
  IN IF u.req[c] \in Split THEN Wake(v) ELSE v

(* A channel that is still enabled is quarantined, its request goes back.  *)
Quarantine(u, c) ==
  LET r == u.req[c]
  IN Wake(Push([Free(u, c) EXCEPT !.dead = @ \union {c}],
               IF Command(r) = "int" THEN "sched" ELSE Home(r), r))

SetupChannel(u, c) ==
  IF c \in u.stuck THEN Quarantine(u, c)
  ELSE StartChannel([u EXCEPT !.cs = @ \ {c}], c)

Arm(u, c, r) == SetupChannel([u EXCEPT !.req[c] = r], c)

ScheduleCtrlTDs(u) ==
  IF "ctrl" \in u.dead \/ u.ctrlq = <<>> THEN u
  ELSE LET r == Head(u.ctrlq)
           v == [u EXCEPT !.ctrlq = Tail(@)]
           c == IF r \in Split THEN u.splitchan ELSE "ctrl"
       IN IF r \in u.back \/ c \in u.dead THEN Put(v, "ctrlq", r)
          ELSE IF u.req[c] # None \/ tt_in_flight(u, r) THEN u
          ELSE Arm(v, c, r)

int_pool_free_count(u, direct) ==
  Cardinality({c \in Ints \ {u.splitchan} :
    /\ c \notin u.dead \union u.burned
    /\ (c \notin SplitPool) = direct
    /\ u.req[c] = None})

Fits(u, r, c) ==
  LET direct == c \notin SplitPool
  IN \/ (r \notin Split) = direct
     \/ /\ int_pool_free_count(u, ~direct) = 0
        /\ int_pool_free_count(u, direct) > 1

ScheduleInt(u, c) ==
  LET able == SelectSeq(u.sched, LAMBDA r : /\ Fits(u, r, c)
                                            /\ ~endpoint_in_flight(u, r)
                                            /\ ~tt_in_flight(u, r))
  IN IF \/ c = u.splitchan \/ c \in u.dead \union u.burned
        \/ u.req[c] # None \/ able = <<>>
     THEN u
     ELSE LET r == Head(able) IN Arm(Later(Take(u, "sched", r), r), c, r)

ScheduleIntTDs(u) ==
  FoldLeft(ScheduleInt, u, <<"int2", "int3", "int5">>)

ReadyBulk(u, d) ==
  \E i \in DOMAIN u.bulkq :
    Dev[u.bulkq[i]] = d /\ Pipe[u.bulkq[i]] \notin u.nak

OwnBusy(u, d) ==
  Cardinality({c \in Bulks : u.owner[c] = d /\ u.req[c] # None})

(* The channel a bulk request may have: its device's own idle one, or one  *)
(* whose owner does not need it; a device holds one if others are waiting. *)
claim_bulk_channel(u, r) ==
  LET d == Dev[r]
      most == IF \E e \in {Dev[q] : q \in Req} \ {d} : ReadyBulk(u, e)
              THEN 1 ELSE 2
      idle == {c \in Bulks : c \notin u.dead /\ u.req[c] = None}
      own == {c \in idle : u.owner[c] = d}
      busy == Cardinality({c \in Bulks \ u.dead :
                             u.owner[c] = d /\ u.req[c] # None})
      spare == {c \in idle \ own :
                  \/ u.owner[c] = None
                  \/ ~ReadyBulk(u, u.owner[c])
                  \/ OwnBusy(u, u.owner[c]) >= 1}
      first(S) == IF "bulk" \in S THEN "bulk" ELSE "bulk2"
  IN IF own # {} /\ busy + 1 <= most THEN first(own)
     ELSE IF busy >= most \/ spare = {} THEN None
     ELSE first(spare)

find_schedulable_bulk_req(u) ==
  SelectSeq(u.bulkq, LAMBDA r : /\ Pipe[r] \notin u.nak
                                /\ ~tt_in_flight(u, r)
                                /\ ~endpoint_in_flight(u, r)
                                /\ claim_bulk_channel(u, r) # None)

ScheduleBulk(u, slot) ==
  LET able == find_schedulable_bulk_req(u)
  IN IF able = <<>> THEN u
     ELSE LET r == Head(able)
              c == claim_bulk_channel(u, r)
          IN Arm([Take(u, "bulkq", r) EXCEPT !.owner[c] = Dev[r]], c, r)

ScheduleBulkTDs(u) == FoldLeft(ScheduleBulk, u, <<1, 2>>)

-----------------------------------------------------------------------------
(* Clients                                                                 *)

TermIO(u, r) ==
  IF r = TT THEN Cause(tt_clear_drain([u EXCEPT !.ttfor = None]))
  ELSE [u EXCEPT !.twice = @ \/ r \notin u.mine, !.mine = @ \ {r},
                 !.tries[r] = 0, !.back = @ \ {r}, !.rest[r] = 0]

cmdControlXFer(u, r) == Cause(Wake(Put(u, "ctrlq", r)))
cmdBulkXFer(u, r)    == Cause(Put(u, "bulkq", r))
cmdIntXFer(u, r)     == Cause(Put(Later(u, r), "intq", r))

BeginIO(r) ==
  /\ r \notin unit.mine
  /\ LET u == [unit EXCEPT !.mine = @ \union {r}]
     IN unit' = CASE Kind[r] = "ctrl" -> cmdControlXFer(u, r)
                  [] Kind[r] = "bulk" -> cmdBulkXFer(u, r)
                  [] Kind[r] = "int"  -> cmdIntXFer(u, r)

Listed(u, q, r) == \E i \in DOMAIN u[q] : u[q][i] = r

(* A request on a channel is left alone; anywhere else it is taken out. *)
AbortIO(r) ==
  /\ r \in unit.mine
  /\ \A c \in Chan : unit.req[c] # r
  /\ \E q \in Lists :
       /\ Listed(unit, q, r)
       /\ unit' = TermIO(Take(unit, q, r), r)

(* The software interrupt: answer what is finished, then schedule. *)
PendingInt ==
  /\ unit.caused
  /\ \E u \in {FoldLeft(TermIO, [unit EXCEPT !.caused = FALSE, !.fin = <<>>],
                      unit.fin)} :
     \E v \in {ScheduleCtrlTDs(u)} :
     \E w \in {ScheduleIntTDs(v)} : unit' = ScheduleBulkTDs(w)

-----------------------------------------------------------------------------
(* The channel interrupt: what each outcome of a transaction leads to.     *)
(* An operator gives the set of states it may leave, for the counters      *)
(* (complete-split retries, give-up streaks) that are not kept.            *)

Candidates == <<"int3", "int2", "int5">>

(* Four give-ups of more than one device burn a channel for splits. *)
split_giveup_recover(u, c) ==
  LET burnt == [u EXCEPT !.burned = @ \union {c}]
      left == SelectSeq(Candidates, LAMBDA d : d \notin burnt.burned)
  IN IF ~MayFail(u) THEN {u}
     ELSE {u, IF c = u.splitchan /\ left # <<>>
              THEN [burnt EXCEPT !.splitchan = Head(left)]
              ELSE burnt}

GiveUp(u, c) == queue_clear_tt_buffer(Finish(u, c), u.req[c])

SplitAcked(u, c) ==
  LET v == [u EXCEPT !.cs = @ \union {c}]
  IN IF Command(u.req[c]) = "bulk" THEN StartChannel(v, c)
     ELSE [v EXCEPT !.st[c] = "delay"]

BulkAgain(u, c) ==
  LET r == u.req[c]
  IN Put([Free(u, c) EXCEPT !.nak = @ \union {Pipe[r]}], "bulkq", r)

InPlace(u, c) == Rewind(Retry(u, u.req[c]), c)

IsSplitCtrl(u, c) ==
  Command(u.req[c]) = "ctrl" /\ u.req[c] \in Split

OnAck(u, c) ==
  IF u.req[c] \in Split /\ c \notin u.cs THEN {SplitAcked(u, c)} ELSE {}

OnNyet(u, c) ==
  LET r == u.req[c]
      wait == [u EXCEPT !.st[c] = "delay"]
  IN IF c \notin u.cs THEN {}
     ELSE IF c \notin Ints THEN {wait}
     ELSE IF Command(r) = "ctrl" THEN {wait, Rewind(u, c)}
     ELSE {wait, Push(Later(Free(u, c), r), "intq", r)}

OnNak(u, c) ==
  LET r == u.req[c]
  IN CASE IsSplitCtrl(u, c) /\ c \in {u.splitchan, "ctrl"} ->
            IF Spent(u, r) THEN {GiveUp(u, c)} ELSE {InPlace(u, c)}
       [] Command(r) = "bulk" /\ r \in Split /\ c \notin u.cs ->
            {SplitAcked(u, c)}
       [] c \in Ints /\ ~(IsSplitCtrl(u, c) /\ c = u.splitchan) ->
            {Wake(Fresh(PollAgain(u, c), r))}
       [] Command(r) = "bulk" -> {Fresh(BulkAgain(u, c), r)}
       [] OTHER -> {Finish(u, c)}

OnError(u, c) ==
  LET r == u.req[c]
  IN CASE Spent(u, r) -> {GiveUp(u, c)}
       [] ~Spent(u, r) /\ IsSplitCtrl(u, c) -> {InPlace(u, c)}
       [] ~Spent(u, r) /\ Command(r) = "int" ->
            {Wake(Retry(PollAgain(u, c), r))}
       [] OTHER -> {Push(Retry(Free(u, c), r), Home(r), r)}

(* A halt that names no cause.  Only this kind of give-up may burn a       *)
(* channel.                                                                *)
CtrlHalted(u, c) ==
  LET r == u.req[c]
  IN CASE Spent(u, r) -> split_giveup_recover(GiveUp(u, c), c)
       [] ~Spent(u, r) /\ r \in Split -> {InPlace(u, c)}
       [] OTHER -> {Put([Retry(Free(u, c), r) EXCEPT !.back = @ \union {r}],
                        "ctrlq", r)}

BulkHalted(u, c) == {BulkAgain(u, c), Finish(u, c)}

OnHalt(u, c) ==
  LET r == u.req[c]
      starting == r \in Split /\ c \notin u.cs
  IN CASE Command(r) = "ctrl" -> CtrlHalted(u, c)
       [] Command(r) = "bulk" ->
            IF starting THEN {SplitAcked(u, c)} ELSE BulkHalted(u, c)
       [] Command(r) = "int" ->
            {IF starting THEN StartChannel(u, c) ELSE Fresh(PollAgain(u, c), r)}

OnOverrun(u, c) ==
  LET r == u.req[c]
      v == IF Command(r) = "int" THEN Fresh(Later(u, r), r) ELSE u
  IN {Push(Free(v, c), Home(r), r)}

(* A transaction completes: the transfer goes on, or is done. *)
OnComplete(u, c) ==
  LET r == u.req[c]
      v == Fresh(u, r)
      on == [v EXCEPT !.cs = @ \ {c}]
  IN {Finish(v, c),
      IF IsSplitCtrl(u, c) THEN [on EXCEPT !.st[c] = "delay"]
      ELSE StartChannel(on, c)}

OnFailure(u, c) == {Finish(u, c)}

Outcomes(u, c) ==
  UNION {OnAck(u, c), OnNyet(u, c), OnNak(u, c), OnError(u, c),
         OnHalt(u, c), OnOverrun(u, c), OnComplete(u, c), OnFailure(u, c)}

(* The software interrupt is caused only when a transfer is finished. *)
LeaveQuietly(u) == u   \* mutant: the software interrupt is not caused
Leave(u) == IF u.fin # <<>> THEN Cause(u) ELSE u

ChannelInt(c) ==
  /\ unit.st[c] = "run"
  /\ \E u \in Outcomes(unit, c) : unit' = Leave(u)

-----------------------------------------------------------------------------
(* Start of frame and the gate that masks it                               *)

Due(u) == SelectSeq(u.intq, LAMBDA r : u.rest[r] = 0)

Promote(u) ==
  [u EXCEPT !.intq = SelectSeq(@, LAMBDA r : u.rest[r] # 0),
            !.sched = @ \o Due(u)]

Passed(u) ==
  [u EXCEPT !.rest = [r \in All |-> IF @[r] = 0 THEN 0 ELSE @[r] - 1],
            !.nak = {}, !.back = {}]

MinFrames == 2

sof_gate_try(u) ==
  IF \/ u.sched # <<>> \/ u.ctrlq # <<>> \/ u.bulkq # <<>>
     \/ \E c \in Chan : \/ u.st[c] = "delay"
                        \/ /\ u.req[c] # None
                           /\ \/ u.req[c] \in Split
                              \/ Command(u.req[c]) = "int"
     \/ Due(u) # <<>>
  THEN u
  ELSE IF u.intq = <<>> THEN [u EXCEPT !.gate = "shut"]
  ELSE IF \A i \in DOMAIN u.intq : u.rest[u.intq[i]] > MinFrames
       THEN [u EXCEPT !.gate = "timed"]
       ELSE u

(* A split interrupt transfer that never got its start-split out. *)
Stallable(u) ==
  {c \in Ints : /\ MaxFaults > 0
                /\ u.st[c] = "run" /\ c \notin u.cs
                /\ u.req[c] \in Split /\ Command(u.req[c]) = "int"}

Rescue(u, c, held) ==
  [PollAgain(u, c) EXCEPT !.stuck = IF held THEN @ \union {c} ELSE @]

handle_SOF(u) ==
  LET due == Due(u)
      moved == IF due = <<>> THEN u ELSE Cause(Promote(u))
      begun == [moved EXCEPT
                  !.st = [c \in Chan |-> IF @[c] = "delay" THEN "run" ELSE @[c]]]
  IN {sof_gate_try(begun)} \union
     {sof_gate_try(Rescue(begun, c, held)) :
        c \in {d \in Stallable(u) : u.st[d] = "run"},
        held \in BOOLEAN \cap {FALSE, MayFail(u)}}

(* One frame passes.  The gate's timer aims one frame before the first     *)
(* poll; reopened, the next frame is the first that interrupts.            *)
Frame ==
  LET u == Passed(unit)
  IN CASE unit.gate = "open"  -> \E v \in handle_SOF(u) : unit' = v
       [] unit.gate = "timed" ->
            unit' = IF \E i \in DOMAIN u.intq : u.rest[u.intq[i]] <= 1
                    THEN Wake(u) ELSE u
       [] unit.gate = "shut"  -> unit' = u

-----------------------------------------------------------------------------
(* The watchdog, every 150 ms                                              *)

Back(u, c) == Push(Free(u, c), Home(u.req[c]), u.req[c])

(* The last resort for a channel that will not halt: reset the host clock  *)
(* domain, and put every other channel's request back at the head.         *)
escalate_hw_reset(u, c, cleared) ==
  LET back == FoldLeft(LAMBDA v, d :
                 IF d = c \/ v.req[d] = None THEN v ELSE Back(v, d), u, InOrder)
  IN IF cleared THEN [back EXCEPT !.dead = {}, !.stuck = {}]
     ELSE [back EXCEPT !.dead = @ \union {c}, !.stuck = @ \union {c}]

(* A jammed periodic queue: every interrupt channel is halted and its      *)
(* request polled again.                                                   *)
recover_periodic_queue(u) ==
  FoldLeft(LAMBDA v, d : IF v.req[d] = None THEN v ELSE PollAgain(v, d),
           u, <<"int2", "int3", "int5">>)

Wedged(u, c, how, jam) ==
  LET r == u.req[c]
      halted == Free(u, c)
      reset == IF how = "halts" THEN halted
               ELSE escalate_hw_reset(halted, c, how = "resets")
      flushed == IF Command(r) = "int" /\ jam
                 THEN recover_periodic_queue(reset) ELSE reset
  IN IF Command(r) = "int" /\ ~Spent(u, r)
     THEN Put(Later(Retry(flushed, r), r), "intq", r)
     ELSE Cause(queue_clear_tt_buffer(Put(flushed, "fin", r), r))

(* A silent channel that still shows it is waited on is left alone. *)
Alive(u, c) ==
  LET r == u.req[c]
  IN IF Command(r) = "int" /\ r \notin Split
     THEN Wake(PollAgain(u, c))
     ELSE u

Watch(u, c, how, jam) ==
  IF u.req[c] = None
  THEN IF c \notin u.dead THEN u
       ELSE IF how = "halts"
       THEN [u EXCEPT !.dead = @ \ {c}, !.stuck = @ \ {c}]
       ELSE escalate_hw_reset(u, c, how = "resets")
  ELSE IF how = "lives" THEN Alive(u, c)
  ELSE Wedged(u, c, how, jam)

Troubled(u) ==
  {c \in Chan : c \in u.dead \/ u.st[c] = "run"}

Outlook == {"lives"} \union
           (IF MaxFaults > 0 THEN {"halts", "resets"} ELSE {}) \union
           (IF MayFail(unit) \/ unit.stuck # {} THEN {"held"} ELSE {})

(* One visit finds one channel to act on, or none; it may find another in  *)
(* its next.                                                               *)
Visit(u) ==
  LET due == Due(u)
      polled == IF due = <<>> THEN u ELSE ScheduleIntTDs(Wake(Promote(u)))
  IN ScheduleCtrlTDs(polled)

Watchdog ==
  \/ unit' = Visit(unit)
  \/ \E c \in Troubled(unit), how \in Outlook, jam \in {FALSE, Jams} :
       unit' = Visit(Watch(unit, c, how, jam))

-----------------------------------------------------------------------------
Init ==
  unit = [ctrlq |-> <<>>, bulkq |-> <<>>, intq |-> <<>>, sched |-> <<>>,
          fin |-> <<>>, req |-> [c \in Chan |-> None],
          st |-> [c \in Chan |-> "off"], cs |-> {},
          stuck |-> {}, dead |-> {}, burned |-> {},
          splitchan |-> "int3", owner |-> [c \in Bulks |-> None],
          nak |-> {}, back |-> {}, rest |-> [r \in All |-> 0],
          tries |-> [r \in All |-> 0], caused |-> FALSE, gate |-> "open",
          ttfor |-> None, ttpend |-> {}, mine |-> {}, twice |-> FALSE]

Next ==
  \/ \E r \in Req : BeginIO(r)
  \/ \E r \in Req : AbortIO(r)
  \/ PendingInt
  \/ \E c \in Chan : ChannelInt(c)
  \/ Frame
  \/ Watchdog

Spec == Init /\ [][Next]_vars

(* The bus keeps its frames, a caused software interrupt runs, a class      *)
(* driver polls its interrupt pipe for ever, and a device answers.          *)
Polled == {r \in Req : Kind[r] = "int"}

FairSpec ==
  /\ Spec
  /\ WF_vars(PendingInt)
  /\ WF_vars(Frame)
  /\ WF_vars(Watchdog)
  /\ \A r \in Polled : WF_vars(BeginIO(r))
  /\ \A c \in Chan : WF_vars(ChannelInt(c))

-----------------------------------------------------------------------------
Places(r) ==
  Cardinality({c \in Chan : unit.req[c] = r}) +
  Cardinality({<<q, i>> \in Lists \X (1..Cardinality(All)) :
                 i <= Len(unit[q]) /\ unit[q][i] = r})

TypeOK ==
  /\ \A q \in Lists : unit[q] \in Seq(All) /\ Len(unit[q]) <= Cardinality(All)
  /\ unit.req \in [Chan -> All \union {None}]
  /\ unit.st \in [Chan -> {"off", "run", "delay"}]
  /\ unit.tries \in [All -> 0..Limit]
  /\ unit.splitchan \in Ints
  /\ unit.gate \in {"open", "timed", "shut"}
  /\ \A c \in Chan : (unit.req[c] = None) = (unit.st[c] = "off")

(* A request the driver holds is in exactly one place: one queue or one    *)
(* channel; one it does not hold is in none, and none is answered twice.   *)
(* The retries, the abort, the watchdog and the resets all move requests   *)
(* about (ADDHEAD, ADDTAIL, hc_Request), and process_pending carries a     *)
(* guard against a request linked twice.                                   *)
HeldOnce ==
  /\ \A r \in Req : Places(r) = IF r \in unit.mine THEN 1 ELSE 0
  /\ Places(TT) = IF unit.ttfor # None THEN 1 ELSE 0
  /\ ~unit.twice

(* The hub has one split transaction of this host at a time, and an        *)
(* endpoint at most one transfer, whatever the three schedulers, the       *)
(* retries in place and the moved split-control channel do.                *)
HubHasOne ==
  /\ \A c, d \in Chan : c # d => ~({unit.req[c], unit.req[d]} \subseteq Split)
  /\ \A c, d \in Chan : (c # d /\ unit.req[c] # None /\ unit.req[d] # None)
                          => Endpoint(unit.req[c]) # Endpoint(unit.req[d])

(* The periodic queues hold interrupt transfers and no others: a jammed    *)
(* periodic queue leaves control transfers alone.                          *)
PeriodicIsInt ==
  \A q \in {"intq", "sched"} : \A i \in DOMAIN unit[q] :
    Command(unit[q][i]) = "int"

(* A masked start of frame strands no poll: nothing waits in the queue     *)
(* while the gate sleeps without a timer.                                  *)
NoneStranded == unit.gate = "shut" => unit.intq = <<>>

(* A bulk request that a NAK, an error or a reset put back is armed again  *)
(* or given back.                                                          *)
BulkRetried ==
  \A r \in Req : Kind[r] = "bulk" =>
    (Listed(unit, "bulkq", r) ~> ~Listed(unit, "bulkq", r))
=============================================================================
