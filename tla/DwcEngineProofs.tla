--------------------------- MODULE DwcEngineProofs ---------------------------
(***************************************************************************)
(* What DwcEngine promises, for every set of requests, every number of     *)
(* channels and every limit: its invariant IInv is preserved by every      *)
(* action, and each of its steps is a step of UsbRequests or none.         *)
(***************************************************************************)
EXTENDS DwcEngine, SequenceTheorems, FiniteSetTheorems, WellFoundedInduction, TLAPS

-----------------------------------------------------------------------------
(* Lists and channels.                                                     *)

\* A set of natural numbers has a least member.
LEMMA LeastOf ==
  ASSUME NEW S \in SUBSET Nat, S # {}
  PROVE  \E c \in S : \A d \in S : c <= d
<1> DEFINE R == {ss \in Nat \X Nat : ss[1] < ss[2]}
<1>1. IsWellFoundedOn(R, Nat)
  BY NatLessThanWellFounded DEF OpToRel
<1>2. \A c, d \in Nat : <<d, c>> \in R <=> d < c
  OBVIOUS
<1> HIDE DEF R
<1>3. PICK c \in S : \A d \in S : <<d, c>> \notin R
  BY <1>1, WFMin
<1>4. c \in Nat /\ \A d \in S : d \in Nat /\ ~(d < c)
  BY <1>2, <1>3
<1>5. \A d \in S : c <= d
  BY <1>4
<1> QED
  BY <1>5

\* channel_alloc finds a channel of the set it looks through.
LEMMA FirstIs ==
  ASSUME NEW S \in SUBSET Chan, S # {}
  PROVE  First(S) \in S
<1>1. S \in SUBSET Nat
  BY LimitAssumption DEF Chan
<1>2. \E c \in S : \A d \in S : c <= d
  BY <1>1, LeastOf
<1> QED
  BY <1>2 DEF First

\* AddTail of a node that is on no list: the list has each node once.
LEMMA AppendPlace ==
  ASSUME NEW S, NEW s \in Seq(S), NEW e \in S
  PROVE  /\ Append(s, e) \in Seq(S) /\ Append(s, e) # <<>>
         /\ Range(Append(s, e)) = Range(s) \cup {e}
         /\ IsInjective(s) /\ e \notin Range(s) => IsInjective(Append(s, e))
<1>1. /\ Append(s, e) \in Seq(S) /\ Append(s, e) # <<>>
      /\ Len(Append(s, e)) = Len(s) + 1
      /\ \A i \in 1..Len(s) : Append(s, e)[i] = s[i]
      /\ Append(s, e)[Len(s) + 1] = e
  BY AppendProperties
<1>2. Len(s) \in Nat /\ DOMAIN s = 1..Len(s)
      /\ DOMAIN Append(s, e) = 1..(Len(s) + 1)
  BY <1>1
<1>3. Range(Append(s, e)) = Range(s) \cup {e}
  BY <1>1, <1>2 DEF Range
<1>4. IsInjective(s) /\ e \notin Range(s) => IsInjective(Append(s, e))
  BY <1>1, <1>2 DEF Range, IsInjective
<1> QED
  BY <1>1, <1>3, <1>4

\* RemHead takes the first node off the list and nothing else.
LEMMA TailPlace ==
  ASSUME NEW S, NEW s \in Seq(S), s # <<>>
  PROVE  /\ Tail(s) \in Seq(S) /\ Head(s) \in S /\ Head(s) \in Range(s)
         /\ IsInjective(s) => /\ IsInjective(Tail(s))
                              /\ Range(Tail(s)) = Range(s) \ {Head(s)}
<1>1. /\ Head(s) \in S /\ Tail(s) \in Seq(S) /\ Len(Tail(s)) = Len(s) - 1
      /\ \A i \in 1..Len(Tail(s)) : Tail(s)[i] = s[i + 1]
  BY HeadTailProperties
<1>2. Len(s) \in Nat \ {0} /\ Head(s) = s[1] /\ DOMAIN s = 1..Len(s)
      /\ DOMAIN Tail(s) = 1..(Len(s) - 1)
  BY <1>1
<1>3. Head(s) \in Range(s)
  BY <1>2 DEF Range
<1>4. ASSUME IsInjective(s) PROVE IsInjective(Tail(s))
  BY <1>1, <1>2, <1>4 DEF IsInjective
<1>5. ASSUME IsInjective(s) PROVE Range(Tail(s)) = Range(s) \ {Head(s)}
  <2>1. ASSUME NEW x \in Range(Tail(s)) PROVE x \in Range(s) \ {Head(s)}
    <3>1. PICK i \in 1..(Len(s) - 1) : x = Tail(s)[i]
      BY <1>2, <2>1 DEF Range
    <3>2. x = s[i + 1] /\ i + 1 \in 1..Len(s) /\ i + 1 # 1
      BY <1>1, <1>2, <3>1
    <3> QED
      BY <1>2, <1>5, <3>2 DEF Range, IsInjective
  <2>2. ASSUME NEW x \in Range(s) \ {Head(s)} PROVE x \in Range(Tail(s))
    <3>1. PICK i \in 1..Len(s) : x = s[i]
      BY <1>2, <2>2 DEF Range
    <3>2. i - 1 \in 1..(Len(s) - 1) /\ x = Tail(s)[i - 1]
      BY <1>1, <1>2, <2>2, <3>1
    <3> QED
      BY <1>2, <3>2 DEF Range
  <2> QED
    BY <2>1, <2>2
<1> QED
  BY <1>1, <1>3, <1>4, <1>5

\* Remove takes one node off a list and nothing else.
LEMMA WithoutPlace ==
  ASSUME NEW S, NEW s \in Seq(S), NEW k \in 1..Len(s)
  PROVE  /\ Without(s, k) \in Seq(S) /\ s[k] \in S /\ s[k] \in Range(s)
         /\ IsInjective(s) => /\ IsInjective(Without(s, k))
                              /\ Range(Without(s, k)) = Range(s) \ {s[k]}
<1> DEFINE a == SubSeq(s, 1, k - 1)
           b == SubSeq(s, k + 1, Len(s))
           n == Len(s)
<1>1. n \in Nat /\ k \in Nat /\ 1 <= k /\ k <= n /\ DOMAIN s = 1..n
      /\ \A i \in 1..n : s[i] \in S
  OBVIOUS
<1>2. /\ a \in Seq(S) /\ Len(a) = k - 1 /\ \A i \in 1..(k - 1) : a[i] = s[i]
  BY <1>1, SubSeqProperties
<1>3. /\ b \in Seq(S) /\ Len(b) = n - k /\ \A i \in 1..(n - k) : b[i] = s[k + i]
  <2>1. k + 1 \in Int /\ n \in Int /\ \A i \in (k + 1)..n : s[i] \in S
    BY <1>1
  <2>2. /\ b \in Seq(S) /\ Len(b) = (IF k + 1 <= n THEN n - (k + 1) + 1 ELSE 0)
        /\ \A i \in 1..(n - (k + 1) + 1) : b[i] = s[(k + 1) + i - 1]
    BY <2>1, SubSeqProperties
  <2> HIDE DEF b, n
  <2>3. n - (k + 1) + 1 = n - k /\ \A i \in 1..(n - k) : (k + 1) + i - 1 = k + i
    BY <1>1
  <2> QED
    BY <1>1, <2>2, <2>3
<1>4. /\ a \o b \in Seq(S) /\ Len(a \o b) = n - 1
      /\ \A i \in 1..(n - 1) : (a \o b)[i] = IF i < k THEN s[i] ELSE s[i + 1]
  <2> HIDE DEF a, b
  <2>1. a \o b \in Seq(S) /\ Len(a \o b) = n - 1
    <3>1. a \o b \in Seq(S) /\ Len(a \o b) = Len(a) + Len(b)
      BY <1>2, <1>3, ConcatProperties
    <3> QED
      BY <1>1, <1>2, <1>3, <3>1
  <2>2. ASSUME NEW i \in 1..(n - 1)
        PROVE  (a \o b)[i] = IF i < k THEN s[i] ELSE s[i + 1]
    <3>1. CASE i < k
      BY <1>1, <1>2, <1>3, <3>1
    <3>2. CASE ~(i < k)
      <4>1. (a \o b)[i] = b[i - (k - 1)] /\ i - (k - 1) \in 1..(n - k)
        BY <1>1, <1>2, <1>3, <3>2
      <4> QED
        BY <1>1, <1>3, <3>2, <4>1
    <3> QED
      BY <3>1, <3>2
  <2> QED
    BY <2>1, <2>2
<1> DEFINE w == Without(s, k)
<1>5. w \in Seq(S) /\ DOMAIN w = 1..(n - 1)
      /\ \A i \in 1..(n - 1) : w[i] = IF i < k THEN s[i] ELSE s[i + 1]
  <2>1. w = a \o b
    BY DEF Without
  <2> HIDE DEF w, a, b, n
  <2>2. Len(w) = n - 1 /\ w \in Seq(S)
    BY <1>4, <2>1
  <2>3. DOMAIN w = 1..(n - 1)
    BY <2>2
  <2> QED
    BY <1>4, <2>1, <2>2, <2>3
<1> HIDE DEF w, a, b
<1>6. ASSUME IsInjective(s) PROVE IsInjective(w)
  <2>1. SUFFICES ASSUME NEW i \in 1..(n - 1), NEW j \in 1..(n - 1), w[i] = w[j]
                 PROVE  i = j
    BY <1>5 DEF IsInjective
  <2>2. \A p, q \in 1..n : s[p] = s[q] => p = q
    BY <1>1, <1>6 DEF IsInjective
  <2> QED
    BY <1>1, <1>5, <2>1, <2>2
<1>7. ASSUME IsInjective(s) PROVE Range(w) = Range(s) \ {s[k]}
  <2>1. ASSUME NEW x \in Range(w) PROVE x \in Range(s) \ {s[k]}
    <3>1. PICK i \in 1..(n - 1) : x = w[i]
      BY <1>5, <2>1 DEF Range
    <3>2. \E j \in 1..n : j # k /\ x = s[j]
      BY <1>1, <1>5, <3>1
    <3> QED
      BY <1>1, <1>7, <3>2 DEF Range, IsInjective
  <2>2. ASSUME NEW x \in Range(s) \ {s[k]} PROVE x \in Range(w)
    <3>1. PICK i \in 1..n : x = s[i] /\ i # k
      BY <1>1, <2>2 DEF Range
    <3>2. \E j \in 1..(n - 1) : x = w[j]
      <4>1. CASE i < k
        BY <1>1, <1>5, <3>1, <4>1
      <4>2. CASE i > k
        <5>1. i - 1 \in 1..(n - 1) /\ x = w[i - 1]
          BY <1>1, <1>5, <3>1, <4>2
        <5> QED
          BY <5>1
      <4> QED
        BY <1>1, <3>1, <4>1, <4>2
    <3> QED
      BY <1>5, <3>2 DEF Range
  <2> QED
    BY <2>1, <2>2
<1> QED
  BY <1>1, <1>5, <1>6, <1>7 DEF w, Range

\* A list that has a member of T has a first one.
LEMMA FirstAtIs ==
  ASSUME NEW S, NEW s \in Seq(S), NEW T, Range(s) \cap T # {}
  PROVE  FirstAt(s, T) \in 1..Len(s) /\ s[FirstAt(s, T)] \in T
<1> DEFINE P == {i \in 1..Len(s) : s[i] \in T}
<1>1. P \in SUBSET Nat /\ P # {}
  BY DEF Range
<1>2. \E i \in P : \A j \in P : i <= j
  BY <1>1, LeastOf
<1>3. \E i \in 1..Len(s) : s[i] \in T /\ \A j \in 1..Len(s) : s[j] \in T => i <= j
  BY <1>2
<1> QED
  BY <1>3 DEF FirstAt

\* A list that has each node once is as long as the set of its nodes is large.
LEMMA LengthIsSize ==
  ASSUME NEW S, NEW s \in Seq(S), IsInjective(s)
  PROVE  IsFiniteSet(Range(s)) /\ Cardinality(Range(s)) = Len(s)
<1>1. Len(s) \in Nat /\ DOMAIN s = 1..Len(s)
  OBVIOUS
<1>2. IsFiniteSet(1..Len(s)) /\ Cardinality(1..Len(s)) = Len(s)
  BY <1>1, FS_Interval
<1>3. s \in Bijection(1..Len(s), Range(s))
  BY <1>1 DEF Bijection, Injection, Surjection, IsInjective, Range
<1>4. ExistsBijection(1..Len(s), Range(s))
  BY <1>3 DEF ExistsBijection
<1> QED
  BY <1>2, <1>4, FS_Bijection

-----------------------------------------------------------------------------
(* What a step of the task does to a channel.                              *)

\* The channel is armed again for the request it has.
Rearmed(c, loop) ==
    \E now \in Channel :
        /\ now.request = chan[c].request /\ now.pending = chan[c].pending
        /\ now.nyets = 0 /\ now.actual <= Chunks[now.request] /\ Fits(now)
        /\ chan' = [chan EXCEPT ![c] = now] /\ hw' = [hw EXCEPT ![c] = ArmedHw]
        /\ UNCHANGED pacing
        /\ Proceed(c, loop) /\ OnlyChannel /\ UNCHANGED timerVars

\* The channel is stopped until the retry's wait is over.
Stopped(c, loop) ==
    /\ chan[c].retries < RetryLimit
    /\ chan' = [chan EXCEPT ![c].retries = @ + 1]
    /\ hw' = [hw EXCEPT ![c] = IdleHw]
    /\ task' = [task EXCEPT !.pc = "delay", !.back = loop]
    /\ OnlyChannel /\ UNCHANGED <<pacing, timerVars>>

\* What the channel raised meant nothing.
Dismissed(c, status, loop) ==
    /\ Proceed(c, loop) /\ OnlyChannel
    /\ hw' = [hw EXCEPT ![c].int = @ \ status]
    /\ UNCHANGED <<chan, pacing, timerVars>>

\* Arming a stage of the request's kind makes a channel that fits.
LEMMA ArmFits ==
  ASSUME NEW ch \in Channel, ch.request \in Req, NEW stage \in Stage,
         ch.actual <= Chunks[ch.request],
         Kind[ch.request] = "control" => stage \in {"setup", "data", "status"},
         Kind[ch.request] = "int" => stage = "int",
         Kind[ch.request] = "bulk" => stage = "bulk",
         stage = "setup" => ch.actual = 0,
         stage = "data" => ch.actual < Chunks[ch.request]
  PROVE  /\ Armed(ch, stage) \in Channel /\ Fits(Armed(ch, stage))
         /\ Armed(ch, stage).request = ch.request
         /\ Armed(ch, stage).pending = ch.pending
         /\ Armed(ch, stage).nyets = 0 /\ Armed(ch, stage).actual = ch.actual
<1>1. Armed(ch, stage) \in Channel
  <2>1. 0 \in Nat /\ 0 \in 0..Silence
    BY LimitAssumption
  <2>2. (IF Hub[ch.request] = NoHub THEN "none" ELSE "start") \in Split
    BY DEF Split
  <2> QED
    BY <2>1, <2>2 DEF Armed, Channel
<1>2. /\ Armed(ch, stage).request = ch.request
      /\ Armed(ch, stage).pending = ch.pending
      /\ Armed(ch, stage).nyets = 0 /\ Armed(ch, stage).actual = ch.actual
      /\ Armed(ch, stage).stage = stage
      /\ Armed(ch, stage).split = IF Hub[ch.request] = NoHub THEN "none" ELSE "start"
  BY DEF Armed, Channel
<1>3. Fits(Armed(ch, stage))
  BY <1>2 DEF Fits
<1> QED
  BY <1>1, <1>2, <1>3

\* A busy channel has one of the client's requests, a free one none.
LEMMA BusyHas ==
  ASSUME Types, NEW c \in Busy
  PROVE  /\ c \in Chan /\ chan[c] \in Channel /\ hw[c] \in HostChannel
         /\ chan[c].request \in Req
         /\ Kind[chan[c].request] \in {"control", "bulk", "int"}
         /\ Chunks[chan[c].request] \in Nat
  BY RequestAssumption DEF Types, Busy, Channel

\* channel_irq does one of six things.
LEMMA ChannelIrqCases ==
  ASSUME Types, NotOverfull, Stages, NEW c \in Busy, NEW status, NEW loop,
         ChannelIrq(c, status, loop)
  PROVE  \/ Rearmed(c, loop)
         \/ Finish(c, loop)
         \/ Park(c, loop) /\ Kind[chan[c].request] = "int"
         \/ SplitRestart(c, loop) /\ chan[c].split = "complete"
         \/ Stopped(c, loop)
         \/ Dismissed(c, status, loop)
<1> DEFINE ch == chan[c]
<1>1. /\ c \in Chan /\ ch \in Channel /\ ch.request \in Req
      /\ Kind[ch.request] \in {"control", "bulk", "int"} /\ Chunks[ch.request] \in Nat
      /\ hw[c] \in HostChannel
  BY BusyHas
<1>2. Fits(ch) /\ ch.actual <= Chunks[ch.request]
  BY DEF Stages, NotOverfull
<1>3. CASE Outcome(c, status) = "glitch"
              /\ Rearm(c, [chan[c] EXCEPT !.xact = @ + 1], loop)
  <2> DEFINE bad == [chan[c] EXCEPT !.xact = @ + 1]
  <2>1. Glitch(c, status)
    BY <1>3 DEF Outcome
  <2>2. bad \in Channel /\ bad.request = ch.request /\ bad.actual = ch.actual
        /\ bad.stage = ch.stage /\ bad.pending = ch.pending
    BY <1>1, <2>1, LimitAssumption DEF Glitch, Channel
  <2> HIDE DEF bad
  <2>3. /\ Armed(bad, ch.stage) \in Channel /\ Fits(Armed(bad, ch.stage))
        /\ Armed(bad, ch.stage).request = ch.request
        /\ Armed(bad, ch.stage).pending = ch.pending
        /\ Armed(bad, ch.stage).nyets = 0 /\ Armed(bad, ch.stage).actual = ch.actual
    <3>1. ch.stage \in Stage
      BY <1>1 DEF Channel
    <3> QED
      BY <1>1, <1>2, <2>2, <3>1, ArmFits DEF Fits
  <2>4. Rearm(c, bad, loop)
    BY <1>3 DEF bad
  <2> QED
    BY <1>2, <2>2, <2>3, <2>4 DEF Rearm, Arm, Rearmed
<1>4. CASE Outcome(c, status) = "done" /\ Completed(c, loop)
  <2> DEFINE clear == [chan[c] EXCEPT !.retries = 0, !.xact = 0]
             more  == [clear EXCEPT !.actual = Got(c)]
  <2>1. clear \in Channel /\ clear.request = ch.request /\ clear.actual = ch.actual
        /\ clear.stage = ch.stage /\ clear.pending = ch.pending
    <3>1. 0 \in 0..RetryLimit /\ 0 \in 0..XactLimit
      BY LimitAssumption
    <3> QED
      BY <1>1, <3>1 DEF Channel
  <2>2. Got(c) \in Nat /\ Got(c) <= ch.actual + 1
    BY <1>1 DEF Got, Channel
  <2>3. more \in Channel /\ more.request = ch.request /\ more.actual = Got(c)
        /\ more.pending = ch.pending
    BY <2>1, <2>2 DEF Channel
  <2> DEFINE arm(now, stage) == Arm(c, now, stage) /\ Proceed(c, loop)
                                  /\ OnlyChannel /\ UNCHANGED timerVars
  <2>4. \/ /\ clear.stage = "setup"
           /\ arm(clear, IF Chunks[clear.request] # 0 THEN "data" ELSE "status")
        \/ clear.stage = "data" /\ arm(more, IF More(c) THEN "data" ELSE "status")
        \/ clear.stage = "bulk" /\ More(c) /\ arm(more, "bulk")
        \/ clear.stage = "bulk" /\ ~More(c) /\ Finish(c, loop)
        \/ clear.stage \in {"status", "int"} /\ Finish(c, loop)
    BY <1>4 DEF Completed
  <2> HIDE DEF clear, more
  <2>5. ASSUME NEW now \in Channel, NEW stage \in Stage, arm(now, stage),
               now.request = ch.request, now.pending = ch.pending,
               now.actual <= Chunks[ch.request],
               Kind[ch.request] = "control" => stage \in {"setup", "data", "status"},
               Kind[ch.request] = "int" => stage = "int",
               Kind[ch.request] = "bulk" => stage = "bulk",
               stage = "setup" => now.actual = 0,
               stage = "data" => now.actual < Chunks[ch.request]
        PROVE  Rearmed(c, loop)
    <3>1. /\ Armed(now, stage) \in Channel /\ Fits(Armed(now, stage))
          /\ Armed(now, stage).request = ch.request
          /\ Armed(now, stage).pending = ch.pending
          /\ Armed(now, stage).nyets = 0 /\ Armed(now, stage).actual = now.actual
      BY <1>1, <2>5, ArmFits
    <3> QED
      BY <2>5, <3>1 DEF Arm, Rearmed
  <2>6. Kind[ch.request] = "control" <=> ch.stage \in {"setup", "data", "status"}
    BY <1>1, <1>2 DEF Fits
  <2>7. CASE clear.stage = "setup"
              /\ arm(clear, IF Chunks[clear.request] # 0 THEN "data" ELSE "status")
    <3> DEFINE stage == IF Chunks[clear.request] # 0 THEN "data" ELSE "status"
    <3>1. stage \in Stage /\ stage \in {"data", "status"}
      BY DEF Stage
    <3>2. stage = "data" => clear.actual < Chunks[ch.request]
      BY <1>1, <1>2, <2>1, <2>7 DEF Fits
    <3> QED
      BY <1>1, <1>2, <2>1, <2>5, <2>6, <2>7, <3>1, <3>2
  <2>8. CASE clear.stage = "data" /\ arm(more, IF More(c) THEN "data" ELSE "status")
    <3> DEFINE stage == IF More(c) THEN "data" ELSE "status"
    <3>1. stage \in Stage /\ stage \in {"data", "status"}
      BY DEF Stage
    <3>2. stage = "data" => more.actual < Chunks[ch.request]
      BY <2>3 DEF More
    <3>3. more.actual <= Chunks[ch.request]
      BY <1>1, <1>2, <2>1, <2>2, <2>3, <2>8 DEF Fits, Channel
    <3> QED
      BY <1>1, <2>1, <2>3, <2>5, <2>6, <2>8, <3>1, <3>2, <3>3
  <2>9. CASE clear.stage = "bulk" /\ More(c) /\ arm(more, "bulk")
    <3>1. "bulk" \in Stage /\ Kind[ch.request] = "bulk"
      BY <1>1, <1>2, <2>1, <2>9 DEF Stage, Fits
    <3>2. more.actual <= Chunks[ch.request]
      BY <1>1, <2>2, <2>3, <2>9 DEF More
    <3> QED
      BY <1>1, <2>3, <2>5, <2>9, <3>1, <3>2
  <2> QED
    BY <2>4, <2>7, <2>8, <2>9
<1>5. CASE Outcome(c, status) = "park" /\ Park(c, loop)
  <2>1. ch.stage = "int"
    BY <1>5 DEF Outcome
  <2> QED
    BY <1>1, <1>2, <1>5, <2>1 DEF Fits
<1>6. CASE Outcome(c, status) = "restart" /\ SplitRestart(c, loop)
  BY <1>6 DEF Outcome
<1>7. CASE Outcome(c, status) = "retry" /\ Retry(c, loop)
  BY <1>7 DEF Retry, Stopped
<1> QED
  BY <1>3, <1>4, <1>5, <1>6, <1>7 DEF ChannelIrq, Dismissed

\* A free channel is armed for r.
Started(r) ==
    \E c \in Free, now \in Channel :
        /\ now.request = r /\ now.pending = {} /\ now.nyets = 0
        /\ now.actual <= Chunks[r] /\ Fits(now)
        /\ chan' = [chan EXCEPT ![c] = now] /\ hw' = [hw EXCEPT ![c] = ArmedHw]
        /\ UNCHANGED pacing

\* submit_on arms the first stage of what it is given.
LEMMA SubmitOnIs ==
  ASSUME Types, Stages, NEW r \in Req, Free # {}, SubmitOn(First(Free), r)
  PROVE  Started(r)
<1> DEFINE c == First(Free)
           ch == [chan[c] EXCEPT !.request = r, !.retries = 0, !.xact = 0, !.actual = 0]
           now == Armed(ch, FirstStage(r))
<1>1. c \in Free /\ c \in Chan
  <2>1. Free \in SUBSET Chan
    BY DEF Free
  <2> QED
    BY <2>1, FirstIs
<1>2. chan[c] \in Channel /\ chan[c].pending = {}
  BY <1>1 DEF Types, Stages, FreeChan
<1>3. ch \in Channel /\ ch.request = r /\ ch.actual = 0 /\ ch.pending = {}
  <2>1. 0 \in 0..RetryLimit /\ 0 \in 0..XactLimit /\ 0 \in Nat
    BY LimitAssumption
  <2> QED
    BY <1>2, <2>1 DEF Channel
<1>4. Kind[r] \in {"control", "bulk", "int"} /\ Chunks[r] \in Nat
  BY RequestAssumption
<1>5. /\ FirstStage(r) \in Stage
      /\ Kind[r] = "control" => FirstStage(r) = "setup"
      /\ Kind[r] = "int" => FirstStage(r) = "int"
      /\ Kind[r] = "bulk" => FirstStage(r) = "bulk"
  BY <1>4 DEF FirstStage, Stage
<1>6. chan' = [chan EXCEPT ![c] = now] /\ hw' = [hw EXCEPT ![c] = ArmedHw]
      /\ UNCHANGED pacing
  BY DEF SubmitOn, Arm
<1> HIDE DEF ch, c
<1>7. /\ now \in Channel /\ Fits(now) /\ now.request = r /\ now.pending = {}
      /\ now.nyets = 0 /\ now.actual = 0
  BY <1>3, <1>4, <1>5, ArmFits
<1> HIDE DEF now
<1>8. now.actual <= Chunks[r]
  BY <1>4, <1>7
<1> QED
  BY <1>1, <1>6, <1>7, <1>8 DEF Started

\* dwc2_transfer_split_irq: what becomes of the channel whose status it takes.
LEMMA TakenIs ==
  ASSUME Types, NEW c \in Busy, NEW status \in SUBSET Bit
  PROVE  LET t == TakenChan(c, status) IN
         /\ t \in Channel /\ t.request = chan[c].request
         /\ t.stage = chan[c].stage /\ t.actual = chan[c].actual
         /\ (t.split = "none") <=> (chan[c].split = "none")
         /\ Claimed(c, status) => t.pending = chan[c].pending /\ t.nyets <= NyetLimit
         /\ ~Claimed(c, status) =>
               /\ t.pending = chan[c].pending \cup status /\ t.split = chan[c].split
               /\ \/ t.nyets = chan[c].nyets
                  \/ /\ t.nyets = chan[c].nyets + 1 /\ chan[c].nyets >= NyetLimit
                     /\ "nyet" \in status
<1> DEFINE nyets == IF Accepted(c, status) THEN 0
                    ELSE IF NotYet(c, status) THEN chan[c].nyets + 1
                    ELSE chan[c].nyets
           ch == [chan[c] EXCEPT !.nyets = nyets]
           t  == TakenChan(c, status)
<1>1. chan[c] \in Channel /\ chan[c].nyets \in Nat /\ NyetLimit \in Nat
  BY BusyHas, LimitAssumption DEF Channel
<1>2. nyets \in Nat
  BY <1>1
<1>3. Accepted(c, status) => ~NotYet(c, status)
  BY DEF Accepted, NotYet
<1>4. Claimed(c, status) => nyets <= NyetLimit /\ chan[c].split # "none"
  BY <1>1, <1>3 DEF Claimed, Accepted, NotYet
<1>5. ~Claimed(c, status) => \/ nyets = chan[c].nyets
                             \/ /\ nyets = chan[c].nyets + 1 /\ chan[c].nyets >= NyetLimit
                                /\ "nyet" \in status
  BY <1>1 DEF Claimed, NotYet
<1>6. PaceOf(c) \in Nat /\ 0 \in 0..Silence /\ 0 \in Nat
  BY BusyHas, LimitAssumption DEF PaceOf
<1>7. t = IF ~Claimed(c, status) THEN [ch EXCEPT !.pending = @ \cup status]
          ELSE IF PaceOf(c) = 0 THEN IssueComplete(ch)
          ELSE [ch EXCEPT !.split = "complete", !.ticks = 0, !.delay = PaceOf(c)]
  BY DEF TakenChan
<1> HIDE DEF nyets, t
<1>8. /\ ch \in Channel /\ ch.nyets = nyets /\ ch.request = chan[c].request
      /\ ch.stage = chan[c].stage /\ ch.actual = chan[c].actual
      /\ ch.split = chan[c].split /\ ch.pending = chan[c].pending
  BY <1>1, <1>2 DEF Channel
<1> HIDE DEF ch
<1>9. CASE ~Claimed(c, status)
  BY <1>5, <1>7, <1>8, <1>9 DEF Channel, t
<1>10. CASE Claimed(c, status)
  <2>1. PICK d \in Nat :
          t = [ch EXCEPT !.split = "complete", !.ticks = 0, !.delay = d]
    <3>1. CASE PaceOf(c) = 0
      <4>1. [ch EXCEPT !.split = "complete", !.ticks = 0, !.delay = 0] = IssueComplete(ch)
        BY DEF IssueComplete
      <4> QED
        BY <1>6, <1>7, <1>10, <3>1, <4>1
    <3>2. CASE PaceOf(c) # 0
      BY <1>6, <1>7, <1>10, <3>2
    <3> QED
      BY <3>1, <3>2
  <2>2. /\ t \in Channel /\ t.split = "complete" /\ t.nyets = nyets
        /\ t.request = ch.request /\ t.stage = ch.stage /\ t.actual = ch.actual
        /\ t.pending = ch.pending
    BY <1>6, <1>8, <2>1 DEF Channel, Split
  <2> QED
    BY <1>4, <1>8, <1>10, <2>2 DEF t
<1> QED
  BY <1>9, <1>10

\* The top half moves no request, no stage and no byte.
LEMMA TopHalfKeeps ==
  ASSUME Types, Stages, NEW starts \in BOOLEAN, TopHalf(starts)
  PROVE  /\ chan' \in [Chan -> Channel] /\ hw' \in [Chan -> HostChannel]
         /\ \A c \in Chan :
              /\ chan'[c].request = chan[c].request /\ chan'[c].stage = chan[c].stage
              /\ chan'[c].actual = chan[c].actual
              /\ (chan'[c].split = "none") <=> (chan[c].split = "none")
         /\ \A c \in Free : chan'[c] = chan[c]
         /\ \A c \in pacing' : c \in Busy /\ chan[c].split # "none"
<1>1. /\ chan' = [c \in Chan |->
                IF c \in Raised THEN TakenChan(c, hw[c].int)
                ELSE IF c \in Issued(starts) THEN IssueComplete(chan[c])
                ELSE IF c \in Paced(starts) THEN [chan[c] EXCEPT !.delay = @ - 1]
                ELSE chan[c]]
  BY DEF TopHalf
<1> DEFINE claimed == {c \in Raised : Claimed(c, hw[c].int)}
           now     == {c \in claimed : PaceOf(c) = 0}
<1>2. /\ hw' = [c \in Chan |->
                IF c \in Issued(starts) \cup now THEN Enabled(hw[c])
                ELSE IF c \in Raised THEN [hw[c] EXCEPT !.int = {}] ELSE hw[c]]
      /\ pacing' = ((IF starts THEN Paced(starts) \ Issued(starts) ELSE pacing)
                      \cup claimed) \ now
  BY DEF TopHalf
<1>3. Raised \subseteq Busy /\ Busy \subseteq Chan
  BY DEF Raised, Busy
<1>4. Paced(starts) \subseteq pacing /\ Issued(starts) \subseteq Paced(starts)
  BY DEF Paced, Issued
<1>5. \A c \in pacing : c \in Busy /\ chan[c].split # "none"
  BY DEF Stages
<1>6. \A c \in pacing' : c \in Busy /\ chan[c].split # "none"
  <2>1. \A c \in claimed : c \in Busy /\ chan[c].split # "none"
    BY <1>3 DEF Claimed, Accepted, NotYet
  <2> QED
    BY <1>2, <1>4, <1>5, <2>1
<1> HIDE DEF claimed, now
<1>7. ASSUME NEW c \in Chan
      PROVE  hw'[c] \in HostChannel
  BY <1>2 DEF Types, HostChannel, Enabled
<1>8. ASSUME NEW c \in Chan
      PROVE  /\ chan'[c] \in Channel
             /\ chan'[c].request = chan[c].request /\ chan'[c].stage = chan[c].stage
             /\ chan'[c].actual = chan[c].actual
             /\ (chan'[c].split = "none") <=> (chan[c].split = "none")
             /\ c \in Free => chan'[c] = chan[c]
  <2>1. chan[c] \in Channel /\ hw[c].int \in SUBSET Bit
    BY DEF Types, HostChannel
  <2>2. CASE c \in Raised
    <3>1. chan'[c] = TakenChan(c, hw[c].int) /\ c \in Busy
      BY <1>1, <1>3, <2>2
    <3> QED
      BY <2>1, <3>1, TakenIs DEF Free
  <2>3. CASE c \notin Raised /\ c \in Issued(starts)
    <3>1. chan'[c] = IssueComplete(chan[c]) /\ c \in Busy /\ chan[c].split # "none"
      BY <1>1, <1>4, <1>5, <2>3
    <3>2. 0 \in 0..Silence /\ 0 \in Nat /\ "complete" \in Split
      BY LimitAssumption DEF Split
    <3> QED
      BY <2>1, <3>1, <3>2 DEF Free, IssueComplete, Channel
  <2>4. CASE c \notin Raised /\ c \notin Issued(starts) /\ c \in Paced(starts)
    <3>1. chan'[c] = [chan[c] EXCEPT !.delay = @ - 1] /\ c \in Busy /\ chan[c].delay > 0
      BY <1>1, <1>4, <1>5, <2>4 DEF Paced
    <3>2. chan[c].delay - 1 \in Nat
      BY <2>1, <3>1 DEF Channel
    <3> QED
      BY <2>1, <3>1, <3>2 DEF Free, Channel
  <2>5. CASE c \notin Raised /\ c \notin Issued(starts) /\ c \notin Paced(starts)
    BY <1>1, <2>1, <2>5
  <2> QED
    BY <2>2, <2>3, <2>4, <2>5
<1>9. chan' \in [Chan -> Channel] /\ hw' \in [Chan -> HostChannel]
  BY <1>1, <1>2, <1>7, <1>8
<1> QED
  BY <1>6, <1>8, <1>9 DEF Free

-----------------------------------------------------------------------------
(* Stages.                                                                 *)

\* One channel is given new bookkeeping.
LEMMA OneChannel ==
  ASSUME Types, Stages, NotOverfull, NEW c \in Chan, NEW now \in Channel,
         chan' = [chan EXCEPT ![c] = now],
         now.request = NoReq => now = FreeChan,
         now.request # NoReq => Fits(now) /\ now.actual <= Chunks[now.request],
         pacing' \subseteq pacing,
         c \in pacing' => now.request # NoReq /\ now.split # "none"
  PROVE  chan' \in [Chan -> Channel] /\ pacing' \subseteq Chan /\ Stages' /\ NotOverfull'
<1>1. /\ chan' \in [Chan -> Channel] /\ chan'[c] = now
      /\ \A d \in Chan \ {c} : chan'[d] = chan[d]
  BY DEF Types
<1>2. Busy' = {d \in Chan : chan'[d].request # NoReq} /\ Free' = Chan \ Busy'
  BY DEF Busy, Free
<1>3. \A d \in Chan \ {c} : (d \in Busy' <=> d \in Busy) /\ (d \in Free' <=> d \in Free)
  BY <1>1, <1>2 DEF Busy, Free
<1>4. \A d \in Free' : chan'[d] = FreeChan
  BY <1>1, <1>2, <1>3 DEF Stages
<1>5. \A d \in Busy' : Fits(chan'[d]) /\ chan'[d].actual <= Chunks[chan'[d].request]
  BY <1>1, <1>2, <1>3 DEF Stages, NotOverfull
<1>6. \A d \in pacing' : d \in Busy' /\ chan'[d].split # "none"
  BY <1>1, <1>2, <1>3 DEF Stages, Types
<1>7. Stages'
  BY <1>4, <1>5, <1>6 DEF Stages, Fits
<1> QED
  BY <1>1, <1>5, <1>7 DEF NotOverfull, Types

\* FreeChan is a channel's bookkeeping.
LEMMA FreeChanIs ==
  FreeChan \in Channel /\ FreeChan.request = NoReq /\ FreeChan.pending = {}
<1>1. 0 \in Nat /\ 0 \in 0..RetryLimit /\ 0 \in 0..XactLimit /\ 0 \in 0..Silence
  BY LimitAssumption
<1>2. "none" \in Stage /\ "none" \in Split
  BY DEF Stage, Split
<1> QED
  BY <1>1, <1>2 DEF FreeChan, Channel

\* channel_release and abort_channel free a channel.
LEMMA Freed ==
  ASSUME Types, Stages, NotOverfull, NEW c \in Chan,
         chan' = [chan EXCEPT ![c] = FreeChan], pacing' = pacing \ {c}
  PROVE  chan' \in [Chan -> Channel] /\ pacing' \subseteq Chan /\ Stages' /\ NotOverfull'
  BY FreeChanIs, OneChannel

\* Whatever channel_irq does, the channel it is about stays sound.
LEMMA ChannelIrqStages ==
  ASSUME Types, Stages, NotOverfull, NEW c \in Busy, NEW status, NEW loop,
         ChannelIrq(c, status, loop)
  PROVE  chan' \in [Chan -> Channel] /\ pacing' \subseteq Chan /\ Stages' /\ NotOverfull'
<1>1. /\ c \in Chan /\ chan[c] \in Channel /\ chan[c].request \in Req
      /\ chan[c].request # NoReq /\ pacing \subseteq Chan
      /\ Fits(chan[c]) /\ chan[c].actual <= Chunks[chan[c].request]
  BY BusyHas, RequestAssumption DEF Stages, NotOverfull, Types
<1>2. CASE Rearmed(c, loop)
  <2>1. PICK now \in Channel :
            /\ now.request = chan[c].request
            /\ now.actual <= Chunks[now.request] /\ Fits(now)
            /\ chan' = [chan EXCEPT ![c] = now] /\ pacing' = pacing
    BY <1>2 DEF Rearmed
  <2>2. c \in pacing => now.split # "none"
    BY <1>1, <2>1 DEF Stages, Fits
  <2> QED
    BY <1>1, <2>1, <2>2, OneChannel
<1>3. CASE Finish(c, loop)
  BY <1>1, <1>3, Freed DEF Finish, Release
<1>4. CASE Park(c, loop)
  BY <1>1, <1>4, Freed DEF Park, Release
<1>5. CASE SplitRestart(c, loop) /\ chan[c].split = "complete"
  <2> DEFINE now == [chan[c] EXCEPT !.split = "start", !.nyets = 0, !.ticks = 0]
  <2>1. chan' = [chan EXCEPT ![c] = now] /\ pacing' = pacing
    BY <1>5 DEF SplitRestart
  <2>2. 0 \in Nat /\ 0 \in 0..Silence /\ "start" \in Split
    BY LimitAssumption DEF Split
  <2>3. now \in Channel /\ now.split = "start" /\ now.request = chan[c].request
        /\ now.stage = chan[c].stage /\ now.actual = chan[c].actual
    BY <1>1, <2>2 DEF Channel
  <2> HIDE DEF now
  <2>4. Fits(now)
    BY <1>1, <1>5, <2>3 DEF Fits
  <2> QED
    BY <1>1, <2>1, <2>3, <2>4, OneChannel
<1>6. CASE Stopped(c, loop)
  <2> DEFINE now == [chan[c] EXCEPT !.retries = @ + 1]
  <2>1. chan' = [chan EXCEPT ![c] = now] /\ pacing' = pacing
    BY <1>1, <1>6 DEF Stopped, Types
  <2>2. chan[c].retries + 1 \in 0..RetryLimit
    BY <1>1, <1>6, LimitAssumption DEF Stopped, Channel
  <2>3. now \in Channel /\ now.request = chan[c].request /\ now.split = chan[c].split
        /\ now.stage = chan[c].stage /\ now.actual = chan[c].actual
    BY <1>1, <2>2 DEF Channel
  <2> HIDE DEF now
  <2>4. Fits(now) /\ (c \in pacing => now.split # "none")
    BY <1>1, <2>3 DEF Fits, Stages
  <2> QED
    BY <1>1, <2>1, <2>3, <2>4, OneChannel
<1>7. CASE Dismissed(c, status, loop)
  BY <1>7 DEF Dismissed, Types, Stages, NotOverfull, Busy, Free
<1> QED
  BY <1>2, <1>3, <1>4, <1>5, <1>6, <1>7, ChannelIrqCases

\* submit_on takes a free channel.
LEMMA StartedStages ==
  ASSUME Types, Stages, NotOverfull, NEW r \in Req, Started(r)
  PROVE  /\ chan' \in [Chan -> Channel] /\ pacing' \subseteq Chan /\ Stages' /\ NotOverfull'
         /\ hw' \in [Chan -> HostChannel]
<1>1. PICK c \in Free, now \in Channel :
        /\ now.request = r /\ now.actual <= Chunks[r] /\ Fits(now)
        /\ chan' = [chan EXCEPT ![c] = now] /\ hw' = [hw EXCEPT ![c] = ArmedHw]
        /\ pacing' = pacing
  BY DEF Started
<1>2. c \in Chan /\ c \notin pacing /\ r # NoReq
  BY RequestAssumption DEF Free, Stages
<1>3. hw' \in [Chan -> HostChannel]
  BY <1>1 DEF Types, ArmedHw, IdleHw, HostChannel
<1> QED
  BY <1>1, <1>2, <1>3, OneChannel

\* dwc2_transfer_submit takes a free channel or leaves them alone.
LEMMA SubmitIs ==
  ASSUME Types, Stages, NEW r \in Req, Submit(r)
  PROVE  \/ MayArm(r) /\ Started(r) /\ UNCHANGED queue
         \/ /\ ~MayArm(r) \/ Free = {}
            /\ queue' = Append(queue, r) /\ UNCHANGED chanVars
  BY SubmitOnIs DEF Submit

\* The request a step of the task is about is one of the client's.
LEMMA HeadsAreRequests ==
  ASSUME Types
  PROVE  /\ port # <<>> => Head(port) \in Req
         /\ queue # <<>> => Head(queue) \in Req
         /\ Due # {} => FirstAt(parked, Due) \in 1..Len(parked)
                        /\ parked[FirstAt(parked, Due)] \in Req
                        /\ parked[FirstAt(parked, Due)] \in Due
<1>1. port # <<>> => Head(port) \in Req
  BY TailPlace DEF Types
<1>2. queue # <<>> => Head(queue) \in Req
  BY TailPlace DEF Types
<1>3. ASSUME Due # {}
      PROVE  FirstAt(parked, Due) \in 1..Len(parked) /\ parked[FirstAt(parked, Due)] \in Req
             /\ parked[FirstAt(parked, Due)] \in Due
  <2>1. parked \in Seq(Req) /\ Range(parked) \cap Due # {}
    BY <1>3 DEF Types, Due
  <2>2. FirstAt(parked, Due) \in 1..Len(parked) /\ parked[FirstAt(parked, Due)] \in Due
    BY <2>1, FirstAtIs
  <2> QED
    BY <2>1, <2>2
<1> QED
  BY <1>1, <1>2, <1>3

\* The channels stay sound in every step.
LEMMA StagesStep ==
  ASSUME Types, Stages, NotOverfull, Walk, [Next]_vars
  PROVE  chan' \in [Chan -> Channel] /\ pacing' \subseteq Chan /\ Stages' /\ NotOverfull'
<1> DEFINE Kept == chan' \in [Chan -> Channel] /\ pacing' \subseteq Chan
                   /\ Stages' /\ NotOverfull'
<1>1. ASSUME UNCHANGED <<chan, pacing>> PROVE Kept
  BY <1>1 DEF Types, Stages, NotOverfull, Busy, Free
<1>2. CASE TakePending
  <2>1. CASE task.work = {}
    BY <1>1, <1>2, <2>1 DEF TakePending
  <2>2. CASE task.work # {}
    <3> DEFINE c == First(task.work)
               now == [chan[c] EXCEPT !.pending = {}]
    <3>1. c \in Chan
      BY <2>2, FirstIs DEF Types, Task
    <3>2. chan' = [chan EXCEPT ![c] = now] /\ pacing' = pacing
      BY <1>2, <2>2, <3>1 DEF TakePending, Types
    <3>3. chan[c] \in Channel
      BY <3>1 DEF Types
    <3>4. now \in Channel /\ now.request = chan[c].request /\ now.split = chan[c].split
          /\ now.stage = chan[c].stage /\ now.actual = chan[c].actual
      BY <3>3 DEF Channel
    <3>5. now.request = NoReq => now = FreeChan
      <4>1. now.request = NoReq => chan[c] = FreeChan
        BY <3>1, <3>4 DEF Stages, Free, Busy
      <4>2. [FreeChan EXCEPT !.pending = {}] = FreeChan
        BY DEF FreeChan
      <4> QED
        BY <4>1, <4>2
    <3> HIDE DEF now, c
    <3>6. now.request # NoReq => Fits(now) /\ now.actual <= Chunks[now.request]
      BY <3>1, <3>4 DEF Stages, NotOverfull, Busy, Fits
    <3>7. c \in pacing => now.request # NoReq /\ now.split # "none"
      BY <3>1, <3>4 DEF Stages, Busy
    <3> QED
      BY <3>1, <3>2, <3>4, <3>5, <3>6, <3>7, OneChannel
  <2> QED
    BY <2>1, <2>2
<1>3. CASE Handle
  BY <1>3, ChannelIrqStages DEF Handle, Walk, At
<1>4. CASE Delay
  <2> DEFINE c == First(task.work)
             now == Armed(chan[c], chan[c].stage)
  <2>1. c \in Busy
    BY <1>4 DEF Delay, Walk, At
  <2>2. c \in Chan /\ chan[c] \in Channel /\ chan[c].request \in Req /\ chan[c].stage \in Stage
        /\ chan[c].actual <= Chunks[chan[c].request] /\ Fits(chan[c])
    BY <2>1, BusyHas DEF Stages, NotOverfull, Channel
  <2>3. chan' = [chan EXCEPT ![c] = now] /\ pacing' = pacing
    BY <1>4 DEF Delay, Arm
  <2> HIDE DEF c
  <2>4. now \in Channel /\ Fits(now) /\ now.request = chan[c].request
        /\ now.actual = chan[c].actual
    BY <2>2, ArmFits DEF Fits
  <2>5. now.request # NoReq /\ (c \in pacing => now.split # "none")
    BY <2>2, <2>4, RequestAssumption DEF Stages, Fits
  <2> HIDE DEF now
  <2> QED
    BY <2>2, <2>3, <2>4, <2>5, OneChannel
<1>5. CASE Promote
  <2>1. CASE Due # {} /\ Free # {} /\ Submit(parked[FirstAt(parked, Due)])
    <3>1. parked[FirstAt(parked, Due)] \in Req
      BY <2>1, HeadsAreRequests
    <3>2. Started(parked[FirstAt(parked, Due)]) \/ UNCHANGED chanVars
      BY <2>1, <3>1, SubmitIs
    <3> QED
      BY <1>1, <3>1, <3>2, StartedStages DEF chanVars
  <2>2. CASE UNCHANGED chanVars
    BY <1>1, <2>2 DEF chanVars
  <2> QED
    BY <1>5, <2>1, <2>2 DEF Promote
<1>6. CASE StartNext
  <2>1. CASE Free # {} /\ HeadArmable /\ SubmitOn(First(Free), Head(queue))
    <3>1. Head(queue) \in Req
      BY <2>1, HeadsAreRequests DEF HeadArmable
    <3> QED
      BY <2>1, <3>1, SubmitOnIs, StartedStages
  <2>2. CASE UNCHANGED chanVars
    BY <1>1, <2>2 DEF chanVars
  <2> QED
    BY <1>6, <2>1, <2>2 DEF StartNext
<1>7. CASE Messages
  <2>1. CASE port # <<>> /\ Submit(Head(port))
    <3>1. Head(port) \in Req
      BY <2>1, HeadsAreRequests
    <3>2. Started(Head(port)) \/ UNCHANGED chanVars
      BY <2>1, <3>1, SubmitIs
    <3> QED
      BY <1>1, <3>1, <3>2, StartedStages DEF chanVars
  <2>2. CASE UNCHANGED chanVars
    BY <1>1, <2>2 DEF chanVars
  <2> QED
    BY <1>7, <2>1, <2>2 DEF Messages
<1>8. CASE Recover
  <2> DEFINE c == First(task.work)
  <2>1. c \in Busy
    BY <1>8 DEF Recover, Walk, At
  <2>2. CASE ChannelIrq(c, task.status, "look")
    BY <2>1, <2>2, ChannelIrqStages
  <2>3. CASE AbortChannel(c, "look")
    BY <2>1, <2>3, BusyHas, Freed DEF AbortChannel
  <2>4. CASE /\ chan[c].ticks + 1 < Silence
             /\ chan' = [chan EXCEPT ![c].ticks = @ + 1] /\ UNCHANGED <<pacing, hw, timerVars>>
    <3> DEFINE now == [chan[c] EXCEPT !.ticks = @ + 1]
    <3>1. c \in Chan /\ chan[c] \in Channel /\ Fits(chan[c]) /\ chan[c].request # NoReq
          /\ chan[c].actual <= Chunks[chan[c].request]
      BY <2>1, BusyHas, RequestAssumption DEF Stages, NotOverfull
    <3>2. chan' = [chan EXCEPT ![c] = now] /\ pacing' = pacing
      BY <2>4, <3>1 DEF Types
    <3>3. chan[c].ticks + 1 \in 0..Silence
      BY <2>4, <3>1, LimitAssumption DEF Channel
    <3>4. now \in Channel /\ now.request = chan[c].request /\ now.split = chan[c].split
          /\ now.stage = chan[c].stage /\ now.actual = chan[c].actual
      BY <3>1, <3>3 DEF Channel
    <3> HIDE DEF now, c
    <3>5. Fits(now) /\ (c \in pacing => now.split # "none")
      BY <3>1, <3>4 DEF Fits, Stages
    <3> QED
      BY <3>1, <3>2, <3>4, <3>5, OneChannel
  <2> QED
    BY <1>8, <2>2, <2>3, <2>4 DEF Recover
<1>9. CASE Aborts
  <2> DEFINE left == {c \in task.work \cap Busy : chan[c].request \in aborted}
  <2>1. CASE left # {} /\ AbortChannel(First(left), "aborts")
    <3>1. First(left) \in Chan
      <4>1. left \in SUBSET Chan
        BY DEF Busy
      <4> HIDE DEF left
      <4> QED
        BY <2>1, <4>1, FirstIs
    <3> QED
      BY <2>1, <3>1, Freed DEF AbortChannel
  <2>2. CASE OnlyTask
    BY <1>1, <2>2 DEF OnlyTask, chanVars
  <2> QED
    BY <1>9, <2>1, <2>2 DEF Aborts
<1>10. ASSUME NEW starts \in BOOLEAN, TopHalf(starts) PROVE Kept
  <2>1. /\ chan' \in [Chan -> Channel]
        /\ \A c \in Chan :
              /\ chan'[c].request = chan[c].request /\ chan'[c].stage = chan[c].stage
              /\ chan'[c].actual = chan[c].actual
              /\ (chan'[c].split = "none") <=> (chan[c].split = "none")
        /\ \A c \in Free : chan'[c] = chan[c]
        /\ \A c \in pacing' : c \in Busy /\ chan[c].split # "none"
    BY <1>10, TopHalfKeeps
  <2>2. Busy' = Busy /\ Free' = Free /\ Busy \subseteq Chan /\ Free \subseteq Chan
    BY <2>1 DEF Busy, Free
  <2>3. \A c \in Free' : chan'[c] = FreeChan
    BY <2>1, <2>2 DEF Stages
  <2>4. \A c \in Busy' : Fits(chan[c]) /\ chan[c].actual <= Chunks[chan[c].request]
    BY <2>2 DEF Stages, NotOverfull
  <2>5. \A c \in Busy' : Fits(chan'[c]) /\ chan'[c].actual <= Chunks[chan'[c].request]
    <3>1. TAKE c \in Busy'
    <3>2. c \in Chan
      BY <2>2
    <3> QED
      BY <2>1, <2>4, <3>2 DEF Fits
  <2>6. \A c \in pacing' : c \in Busy' /\ chan'[c].split # "none"
    BY <2>1, <2>2
  <2>7. Stages'
    BY <2>3, <2>5, <2>6 DEF Stages, Fits
  <2> QED
    BY <2>1, <2>2, <2>5, <2>6, <2>7 DEF NotOverfull
<1>11. CASE UNCHANGED vars
  BY <1>1, <1>11 DEF vars, chanVars
<1>12. ASSUME NEW r \in Req, BeginIO(r) \/ AbortIO(r) PROVE Kept
  BY <1>1, <1>12 DEF BeginIO, AbortIO, chanVars
<1>13. ASSUME NEW c \in Chan, Answer(c) \/ Accept(c) \/ Hesitate(c) PROVE Kept
  BY <1>1, <1>13 DEF Answer, Accept, Hesitate, WireUnchanged
<1>14. CASE Frame \/ Expire
  BY <1>1, <1>14 DEF Frame, Expire, chanVars
<1>15. CASE Wait \/ Drain \/ Reopen \/ CollectTimer \/ ArmWatchdog
  BY <1>1, <1>15 DEF Wait, Drain, Reopen, CollectTimer, ArmWatchdog, chanVars
<1>16. CASE ServiceInSof \/ ServiceOnce
  BY <1>1, <1>16 DEF ServiceInSof, ServiceOnce, Service, chanVars
<1>17. CASE Watch \/ Look
  BY <1>1, <1>17 DEF Watch, Look, OnlyTask, chanVars
<1> QED
  BY <1>2, <1>3, <1>4, <1>5, <1>6, <1>7, <1>8, <1>9, <1>10, <1>11, <1>12, <1>13,
     <1>14, <1>15, <1>16, <1>17 DEF Next, UnitTask

-----------------------------------------------------------------------------
(* Places.                                                                 *)

\* Nothing is moved.
LEMMA NothingMoved ==
  ASSUME Types, Places, \A c \in Chan : chan'[c].request = chan[c].request,
         UNCHANGED <<out, port, queue, parked>>
  PROVE  Places' /\ InFlight' = InFlight
<1>1. Busy' = Busy /\ Busy \subseteq Chan
  BY DEF Busy
<1>2. InFlight' = InFlight
  BY <1>1 DEF InFlight
<1>3. \A c, d \in Busy' : chan'[c].request = chan'[d].request => c = d
  BY <1>1 DEF Places
<1> QED
  BY <1>2, <1>3 DEF Places, Waiting

\* A channel is freed.
LEMMA InFlightLoses ==
  ASSUME Types, Places, NEW c \in Busy, chan' = [chan EXCEPT ![c] = FreeChan]
  PROVE  /\ InFlight' = InFlight \ {chan[c].request}
         /\ chan[c].request \in InFlight /\ chan[c].request \in Req
         /\ chan[c].request \in out /\ chan[c].request \notin Waiting
         /\ \A b, d \in Busy' : chan'[b].request = chan'[d].request => b = d
<1>1. c \in Chan /\ chan'[c] = FreeChan /\ \A d \in Chan \ {c} : chan'[d] = chan[d]
  BY DEF Busy, Types
<1>2. Busy' = Busy \ {c}
  BY <1>1, FreeChanIs DEF Busy
<1>3. \A d \in Busy' : chan'[d] = chan[d] /\ d \in Busy
  BY <1>1, <1>2 DEF Busy
<1>4. chan[c].request \in InFlight /\ chan[c].request \in Req
  BY BusyHas DEF InFlight
<1>5. InFlight' = {chan[d].request : d \in Busy \ {c}}
  BY <1>2, <1>3 DEF InFlight
<1>6. InFlight' = InFlight \ {chan[c].request}
  BY <1>5 DEF InFlight, Places
<1>7. \A b, d \in Busy' : chan'[b].request = chan'[d].request => b = d
  BY <1>3 DEF Places
<1> QED
  BY <1>4, <1>6, <1>7 DEF Places

\* A channel is taken.
LEMMA InFlightGains ==
  ASSUME Types, Places, NEW r \in Req, r \notin InFlight, Started(r)
  PROVE  /\ InFlight' = InFlight \cup {r}
         /\ \A b, d \in Busy' : chan'[b].request = chan'[d].request => b = d
<1>1. PICK c \in Free, now \in Channel :
        now.request = r /\ chan' = [chan EXCEPT ![c] = now]
  BY DEF Started
<1>2. c \in Chan /\ c \notin Busy /\ chan'[c] = now
      /\ \A d \in Chan \ {c} : chan'[d] = chan[d]
  BY <1>1 DEF Free, Types
<1>3. Busy' = Busy \cup {c}
  BY <1>1, <1>2, RequestAssumption DEF Busy
<1>4. \A d \in Busy : chan'[d] = chan[d]
  BY <1>2 DEF Busy
<1>5. InFlight' = InFlight \cup {r}
  BY <1>1, <1>2, <1>3, <1>4 DEF InFlight
<1>6. \A d \in Busy : chan[d].request # r
  BY DEF InFlight
<1>7. \A b, d \in Busy' : chan'[b].request = chan'[d].request => b = d
  BY <1>1, <1>2, <1>3, <1>4, <1>6 DEF Places
<1> QED
  BY <1>5, <1>7

\* Finish and AbortChannel reply the request of a channel.
LEMMA RepliedPlaces ==
  ASSUME Types, Places, NEW c \in Busy, chan' = [chan EXCEPT ![c] = FreeChan],
         out' = out \ {chan[c].request}, UNCHANGED <<port, queue, parked>>
  PROVE  Places'
<1>1. /\ InFlight' = InFlight \ {chan[c].request} /\ chan[c].request \notin Waiting
      /\ \A b, d \in Busy' : chan'[b].request = chan'[d].request => b = d
  BY InFlightLoses
<1>2. Waiting' = Waiting
  BY DEF Waiting
<1> QED
  BY <1>1, <1>2 DEF Places

\* A request waits in a list and is given to dwc2_transfer_submit, which finds a
\* channel for it or puts it on the queue.
LEMMA SubmittedPlaces ==
  ASSUME Types, Stages, Places, NEW r \in Range(port) \cup Range(parked), r \in Req,
         \/ MayArm(r) /\ Started(r) /\ UNCHANGED queue
         \/ queue' = Append(queue, r) /\ UNCHANGED chanVars,
         \/ /\ r \in Range(port) /\ IsInjective(port')
            /\ Range(port') = Range(port) \ {r} /\ UNCHANGED parked
         \/ /\ r \in Range(parked) /\ IsInjective(parked')
            /\ Range(parked') = Range(parked) \ {r} /\ UNCHANGED port,
         UNCHANGED out
  PROVE  Places'
<1>1. r \notin InFlight /\ r \notin Range(queue)
  BY DEF Places, Waiting
<1>2. /\ IsInjective(port') /\ IsInjective(parked')
      /\ Range(port') \cup Range(parked') = (Range(port) \cup Range(parked)) \ {r}
      /\ Range(port') \cap Range(parked') = {}
      /\ Range(port') \subseteq Range(port) /\ Range(parked') \subseteq Range(parked)
  BY DEF Places
<1>3. CASE Started(r) /\ UNCHANGED queue
  <2>1. /\ InFlight' = InFlight \cup {r}
        /\ \A b, d \in Busy' : chan'[b].request = chan'[d].request => b = d
    BY <1>1, <1>3, InFlightGains
  <2>2. Waiting' = Waiting \ {r}
    BY <1>1, <1>2, <1>3 DEF Waiting
  <2>3. out' = Waiting' \cup InFlight'
    BY <2>1, <2>2 DEF Places, Waiting
  <2> QED
    BY <1>2, <1>3, <2>1, <2>2, <2>3 DEF Places
<1>4. CASE queue' = Append(queue, r) /\ UNCHANGED chanVars
  <2>1. Range(queue') = Range(queue) \cup {r} /\ IsInjective(queue')
    BY <1>1, <1>4, AppendPlace DEF Types, Places
  <2>2. Waiting' = Waiting
    BY <1>2, <2>1 DEF Waiting
  <2>3. InFlight' = InFlight /\ Busy' = Busy /\ chan' = chan
    BY <1>4 DEF chanVars, InFlight, Busy
  <2> QED
    BY <1>1, <1>2, <2>1, <2>2, <2>3 DEF Places
<1> QED
  BY <1>3, <1>4

\* The channel that is changed keeps its request.
LEMMA SameRequest ==
  ASSUME Types, Places, NEW c \in Chan, NEW now, now.request = chan[c].request,
         chan' = [chan EXCEPT ![c] = now], UNCHANGED <<out, port, queue, parked>>
  PROVE  Places'
<1>1. \A d \in Chan : chan'[d].request = chan[d].request
  BY DEF Types
<1> QED
  BY <1>1, NothingMoved

\* Whatever channel_irq does, every request stays in one place.
LEMMA ChannelIrqPlaces ==
  ASSUME Types, NotOverfull, Stages, Places, NEW c \in Busy, NEW status, NEW loop,
         ChannelIrq(c, status, loop)
  PROVE  Places'
<1> DEFINE r == chan[c].request
<1>1. c \in Chan /\ chan[c] \in Channel /\ r \in Req
  BY BusyHas
<1>2. CASE Rearmed(c, loop)
  BY <1>1, <1>2, SameRequest DEF Rearmed, OnlyChannel, clientVars, queueVars
<1>3. CASE Finish(c, loop)
  BY <1>3, RepliedPlaces DEF Finish, Release, queueVars
<1>4. CASE Park(c, loop)
  <2>1. /\ chan' = [chan EXCEPT ![c] = FreeChan] /\ parked' = Append(parked, r)
        /\ UNCHANGED <<out, port, queue>>
    BY <1>4 DEF Park, Release, clientVars
  <2>2. /\ InFlight' = InFlight \ {r} /\ r \in InFlight /\ r \notin Waiting
        /\ \A b, d \in Busy' : chan'[b].request = chan'[d].request => b = d
    BY <2>1, InFlightLoses
  <2>3. Range(parked') = Range(parked) \cup {r} /\ IsInjective(parked')
    BY <1>1, <2>1, <2>2, AppendPlace DEF Types, Places, Waiting
  <2>4. Waiting' = Waiting \cup {r}
    BY <2>1, <2>3 DEF Waiting
  <2>5. out' = Waiting' \cup InFlight'
    BY <2>1, <2>2, <2>4 DEF Places
  <2> QED
    BY <2>1, <2>2, <2>3, <2>4, <2>5 DEF Places, Waiting
<1>5. CASE SplitRestart(c, loop)
  <2> DEFINE now == [chan[c] EXCEPT !.split = "start", !.nyets = 0, !.ticks = 0]
  <2>1. chan' = [chan EXCEPT ![c] = now] /\ UNCHANGED <<out, port, queue, parked>>
    BY <1>5 DEF SplitRestart, OnlyChannel, clientVars, queueVars
  <2>2. now.request = r
    BY <1>1 DEF Channel
  <2> QED
    BY <1>1, <2>1, <2>2, SameRequest
<1>6. CASE Stopped(c, loop)
  <2> DEFINE now == [chan[c] EXCEPT !.retries = @ + 1]
  <2>1. chan' = [chan EXCEPT ![c] = now] /\ UNCHANGED <<out, port, queue, parked>>
    BY <1>1, <1>6 DEF Stopped, OnlyChannel, clientVars, queueVars, Types
  <2>2. now.request = r
    BY <1>1 DEF Channel
  <2> QED
    BY <1>1, <2>1, <2>2, SameRequest
<1>7. CASE Dismissed(c, status, loop)
  BY <1>7, NothingMoved DEF Dismissed, OnlyChannel, clientVars, queueVars
<1> QED
  BY <1>2, <1>3, <1>4, <1>5, <1>6, <1>7, ChannelIrqCases

\* Every request stays in one place in every step.
LEMMA PlacesStep ==
  ASSUME Types, NotOverfull, Stages, Places, Walk, [Next]_vars
  PROVE  Places'
<1>1. ASSUME UNCHANGED <<chan, out, port, queue, parked>> PROVE Places'
  BY <1>1, NothingMoved
<1>2. ASSUME NEW r \in Req, BeginIO(r) PROVE Places'
  <2>1. /\ r \notin out /\ out' = out \cup {r} /\ port' = Append(port, r)
        /\ UNCHANGED <<queue, parked, chan>>
    BY <1>2 DEF BeginIO, chanVars
  <2>2. Range(port') = Range(port) \cup {r} /\ IsInjective(port')
    BY <2>1, AppendPlace DEF Types, Places, Waiting
  <2>3. InFlight' = InFlight /\ Waiting' = Waiting \cup {r} /\ Busy' = Busy
    BY <2>1, <2>2 DEF InFlight, Waiting, Busy
  <2> QED
    BY <2>1, <2>2, <2>3 DEF Places, Waiting
<1>3. ASSUME NEW r \in Req, AbortIO(r) PROVE Places'
  BY <1>1, <1>3 DEF AbortIO, chanVars, queueVars
<1>4. ASSUME NEW c \in Chan, Answer(c) \/ Accept(c) \/ Hesitate(c) PROVE Places'
  BY <1>1, <1>4 DEF Answer, Accept, Hesitate, WireUnchanged, clientVars, queueVars
<1>5. CASE Frame \/ Expire
  BY <1>1, <1>5 DEF Frame, Expire, chanVars, clientVars, queueVars
<1>6. CASE Wait \/ Drain \/ Reopen \/ CollectTimer \/ ArmWatchdog
  BY <1>1, <1>6 DEF Wait, Drain, Reopen, CollectTimer, ArmWatchdog, chanVars,
     clientVars, queueVars
<1>7. CASE Watch \/ Look
  BY <1>1, <1>7 DEF Watch, Look, OnlyTask, chanVars, clientVars, queueVars
<1>8. CASE TakePending
  <2>1. CASE task.work = {}
    BY <1>1, <1>8, <2>1 DEF TakePending, clientVars, queueVars
  <2>2. CASE task.work # {}
    <3> DEFINE c == First(task.work)
               now == [chan[c] EXCEPT !.pending = {}]
    <3>1. c \in Chan
      BY <2>2, FirstIs DEF Types, Task
    <3>2. chan' = [chan EXCEPT ![c] = now] /\ UNCHANGED <<out, port, queue, parked>>
      BY <1>8, <2>2, <3>1 DEF TakePending, Types, clientVars, queueVars
    <3>3. now.request = chan[c].request
      BY <3>1 DEF Types, Channel
    <3> QED
      BY <3>1, <3>2, <3>3, SameRequest
  <2> QED
    BY <2>1, <2>2
<1>9. CASE Handle
  BY <1>9, ChannelIrqPlaces DEF Handle, Walk, At
<1>10. CASE Delay
  <2> DEFINE c == First(task.work)
             now == Armed(chan[c], chan[c].stage)
  <2>1. c \in Chan /\ chan[c] \in Channel
    BY <1>10, BusyHas DEF Delay, Walk, At
  <2>2. chan' = [chan EXCEPT ![c] = now] /\ UNCHANGED <<out, port, queue, parked>>
    BY <1>10 DEF Delay, Arm, clientVars, queueVars
  <2>3. now.request = chan[c].request
    BY <2>1 DEF Armed, Channel
  <2> QED
    BY <2>1, <2>2, <2>3, SameRequest
<1>11. CASE ServiceInSof \/ ServiceOnce
  <2>1. CASE Range(parked) \cap aborted # {}
    <3> DEFINE i == FirstAt(parked, aborted)
    <3>1. parked \in Seq(Req) /\ i \in 1..Len(parked)
      BY <2>1, FirstAtIs DEF Types
    <3>2. /\ parked' = Without(parked, i) /\ out' = out \ {parked[i]}
          /\ UNCHANGED <<chan, port, queue>>
      BY <1>11, <2>1 DEF ServiceInSof, ServiceOnce, Service, chanVars
    <3> HIDE DEF i
    <3>3. /\ IsInjective(parked') /\ Range(parked') = Range(parked) \ {parked[i]}
          /\ parked[i] \in Range(parked)
      BY <3>1, <3>2, WithoutPlace DEF Places
    <3>4. InFlight' = InFlight /\ Waiting' = Waiting \ {parked[i]} /\ Busy' = Busy
      BY <3>2, <3>3 DEF InFlight, Waiting, Busy, Places
    <3> QED
      BY <3>2, <3>3, <3>4 DEF Places, Waiting
  <2>2. CASE Range(parked) \cap aborted = {}
    BY <1>1, <1>11, <2>2 DEF ServiceInSof, ServiceOnce, Service, chanVars
  <2> QED
    BY <2>1, <2>2
<1>12. CASE Promote
  <2>1. CASE /\ Due # {} /\ Free # {} /\ Submit(parked[FirstAt(parked, Due)])
             /\ parked' = Without(parked, FirstAt(parked, Due))
    <3> DEFINE i == FirstAt(parked, Due)
    <3>1. i \in 1..Len(parked) /\ parked[i] \in Req /\ parked \in Seq(Req)
      BY <2>1, HeadsAreRequests DEF Types
    <3>2. Submit(parked[i]) /\ parked' = Without(parked, i) /\ UNCHANGED <<out, port>>
      BY <1>12, <2>1 DEF Promote, clientVars
    <3> HIDE DEF i
    <3>3. /\ IsInjective(parked') /\ Range(parked') = Range(parked) \ {parked[i]}
          /\ parked[i] \in Range(parked)
      BY <3>1, <3>2, WithoutPlace DEF Places
    <3>4. \/ MayArm(parked[i]) /\ Started(parked[i]) /\ UNCHANGED queue
          \/ queue' = Append(queue, parked[i]) /\ UNCHANGED chanVars
      BY <3>1, <3>2, SubmitIs
    <3> QED
      BY <3>1, <3>2, <3>3, <3>4, SubmittedPlaces
  <2>2. CASE UNCHANGED <<chanVars, queue, parked, due>>
    BY <1>1, <1>12, <2>2 DEF Promote, chanVars, clientVars
  <2> QED
    BY <1>12, <2>1, <2>2 DEF Promote
<1>13. CASE StartNext
  <2>1. CASE /\ HeadAborted /\ queue' = Tail(queue) /\ out' = out \ {Head(queue)}
             /\ UNCHANGED chanVars
    <3>1. /\ IsInjective(queue') /\ Range(queue') = Range(queue) \ {Head(queue)}
          /\ Head(queue) \in Range(queue)
      BY <2>1, TailPlace DEF HeadAborted, Types, Places
    <3>2. chan' = chan /\ UNCHANGED <<port, parked>>
      BY <1>13, <2>1 DEF StartNext, chanVars
    <3>3. InFlight' = InFlight /\ Waiting' = Waiting \ {Head(queue)} /\ Busy' = Busy
      BY <3>1, <3>2 DEF InFlight, Waiting, Busy, Places
    <3> QED
      BY <2>1, <3>1, <3>2, <3>3 DEF Places, Waiting
  <2>2. CASE /\ Free # {} /\ HeadArmable /\ queue' = Tail(queue)
             /\ SubmitOn(First(Free), Head(queue)) /\ UNCHANGED out
    <3> DEFINE r == Head(queue)
    <3>1. /\ IsInjective(queue') /\ Range(queue') = Range(queue) \ {r}
          /\ r \in Range(queue) /\ r \in Req
      BY <2>2, TailPlace DEF HeadArmable, Types, Places
    <3>2. Started(r) /\ UNCHANGED <<port, parked>>
      BY <1>13, <2>2, <3>1, SubmitOnIs DEF StartNext
    <3>3. r \notin InFlight
      BY <3>1 DEF Places, Waiting
    <3>4. /\ InFlight' = InFlight \cup {r}
          /\ \A b, d \in Busy' : chan'[b].request = chan'[d].request => b = d
      BY <3>1, <3>2, <3>3, InFlightGains
    <3>5. Waiting' = Waiting \ {r}
      BY <3>1, <3>2 DEF Waiting, Places
    <3> HIDE DEF r
    <3> QED
      BY <2>2, <3>1, <3>2, <3>3, <3>4, <3>5 DEF Places, Waiting
  <2>3. CASE UNCHANGED <<queue, out, chanVars>>
    BY <1>1, <1>13, <2>3 DEF StartNext, chanVars
  <2> QED
    BY <1>13, <2>1, <2>2, <2>3 DEF StartNext
<1>14. CASE Recover
  <2> DEFINE c == First(task.work)
  <2>1. c \in Busy
    BY <1>14 DEF Recover, Walk, At
  <2>2. CASE ChannelIrq(c, task.status, "look")
    BY <2>1, <2>2, ChannelIrqPlaces
  <2>3. CASE AbortChannel(c, "look")
    BY <2>1, <2>3, RepliedPlaces DEF AbortChannel, queueVars
  <2>4. CASE chan' = [chan EXCEPT ![c].ticks = @ + 1] /\ OnlyChannel
    <3> DEFINE now == [chan[c] EXCEPT !.ticks = @ + 1]
    <3>1. c \in Chan /\ chan[c] \in Channel
      BY <2>1, BusyHas
    <3>2. chan' = [chan EXCEPT ![c] = now] /\ UNCHANGED <<out, port, queue, parked>>
      BY <2>4, <3>1 DEF Types, OnlyChannel, clientVars, queueVars
    <3>3. now.request = chan[c].request
      BY <3>1 DEF Channel
    <3> QED
      BY <3>1, <3>2, <3>3, SameRequest
  <2> QED
    BY <1>14, <2>2, <2>3, <2>4 DEF Recover
<1>15. CASE Aborts
  <2> DEFINE left == {c \in task.work \cap Busy : chan[c].request \in aborted}
  <2>1. CASE left # {} /\ AbortChannel(First(left), "aborts")
    <3>1. First(left) \in Busy
      <4>1. left \in SUBSET Chan /\ left \subseteq Busy
        BY DEF Busy
      <4> HIDE DEF left
      <4> QED
        BY <2>1, <4>1, FirstIs
    <3> QED
      BY <2>1, <3>1, RepliedPlaces DEF AbortChannel, queueVars
  <2>2. CASE OnlyTask
    BY <1>1, <2>2 DEF OnlyTask, chanVars, clientVars, queueVars
  <2> QED
    BY <1>15, <2>1, <2>2 DEF Aborts
<1>16. CASE Messages
  <2>1. CASE UNCHANGED <<out, chanVars, port, queue>>
    BY <1>1, <1>16, <2>1 DEF Messages, chanVars
  <2>2. CASE port # <<>> /\ port' = Tail(port)
    <3> DEFINE r == Head(port)
    <3>1. /\ IsInjective(port') /\ Range(port') = Range(port) \ {r}
          /\ r \in Range(port) /\ r \in Req
      BY <2>2, TailPlace DEF Types, Places
    <3>2. CASE out' = out \ {r} /\ UNCHANGED <<chanVars, queue>>
      <4>1. chan' = chan /\ UNCHANGED <<queue, parked>>
        BY <1>16, <3>2 DEF Messages, chanVars
      <4>2. InFlight' = InFlight /\ Waiting' = Waiting \ {r} /\ Busy' = Busy
        BY <3>1, <4>1 DEF InFlight, Waiting, Busy, Places
      <4> HIDE DEF r
      <4> QED
        BY <3>1, <3>2, <4>1, <4>2 DEF Places, Waiting
    <3>3. CASE Submit(r) /\ UNCHANGED out
      <4>1. UNCHANGED parked
        BY <1>16 DEF Messages
      <4>2. \/ MayArm(r) /\ Started(r) /\ UNCHANGED queue
            \/ queue' = Append(queue, r) /\ UNCHANGED chanVars
        BY <3>1, <3>3, SubmitIs
      <4> HIDE DEF r
      <4> QED
        BY <3>1, <3>3, <4>1, <4>2, SubmittedPlaces
    <3> QED
      BY <1>16, <2>2, <3>2, <3>3 DEF Messages
  <2> QED
    BY <1>16, <2>1, <2>2 DEF Messages
<1>17. ASSUME NEW starts \in BOOLEAN, TopHalf(starts) PROVE Places'
  <2>1. \A c \in Chan : chan'[c].request = chan[c].request
    BY <1>17, TopHalfKeeps
  <2>2. UNCHANGED <<out, port, queue, parked>>
    BY <1>17 DEF TopHalf, clientVars, queueVars
  <2> QED
    BY <2>1, <2>2, NothingMoved
<1>18. CASE UNCHANGED vars
  BY <1>1, <1>18 DEF vars, chanVars, clientVars, queueVars
<1> QED
  BY <1>2, <1>3, <1>4, <1>5, <1>6, <1>7, <1>8, <1>9, <1>10, <1>11, <1>12, <1>13,
     <1>14, <1>15, <1>16, <1>17, <1>18 DEF Next, UnitTask

-----------------------------------------------------------------------------
(* Types.                                                                  *)

\* Where the task goes from a channel's interrupt.
LEMMA ChannelIrqTask ==
  ASSUME Types, NotOverfull, Stages, NEW c \in Busy, NEW status, NEW loop,
         ChannelIrq(c, status, loop)
  PROVE  /\ \/ Proceed(c, loop)
            \/ ThenNext(c, loop)
            \/ task' = [task EXCEPT !.pc = "delay", !.back = loop] /\ Busy' = Busy
         /\ hw' \in [Chan -> HostChannel]
         /\ UNCHANGED <<uses, aborted, port, queue, irqVars, sig, timerVars, history>>
         /\ out' \subseteq out
         /\ \/ UNCHANGED <<parked, due>>
            \/ /\ parked' = Append(parked, chan[c].request)
               /\ due' = [due EXCEPT ![chan[c].request] = Interval]
<1>1. c \in Chan /\ chan[c] \in Channel /\ hw \in [Chan -> HostChannel]
  BY BusyHas DEF Types
<1>2. IdleHw \in HostChannel /\ ArmedHw \in HostChannel
      /\ [IdleHw EXCEPT !.ena = hw[c].ena /\ chan[c].split = "none"] \in HostChannel
  BY DEF IdleHw, ArmedHw, HostChannel
<1>3. CASE Rearmed(c, loop)
  BY <1>1, <1>2, <1>3 DEF Rearmed, OnlyChannel, clientVars, queueVars
<1>4. CASE Finish(c, loop)
  BY <1>1, <1>2, <1>4 DEF Finish, Release, queueVars
<1>5. CASE Park(c, loop)
  BY <1>1, <1>2, <1>5 DEF Park, Release, clientVars
<1>6. CASE SplitRestart(c, loop)
  <2>1. [hw EXCEPT ![c] = Enabled(@)] \in [Chan -> HostChannel]
    BY <1>1 DEF Enabled, HostChannel
  <2> QED
    BY <1>6, <2>1 DEF SplitRestart, OnlyChannel, clientVars, queueVars
<1>7. CASE Stopped(c, loop)
  <2>1. Busy' = Busy
    BY <1>1, <1>7 DEF Stopped, Busy, Types, Channel
  <2> QED
    BY <1>1, <1>2, <1>7, <2>1 DEF Stopped, OnlyChannel, clientVars, queueVars
<1>8. CASE Dismissed(c, status, loop)
  <2>1. [hw EXCEPT ![c].int = @ \ status] \in [Chan -> HostChannel]
    BY <1>1 DEF HostChannel
  <2> QED
    BY <1>8, <2>1 DEF Dismissed, OnlyChannel, clientVars, queueVars
<1> QED
  BY <1>3, <1>4, <1>5, <1>6, <1>7, <1>8, ChannelIrqCases

\* Types, but for the channels' bookkeeping.
OtherTypes ==
    /\ out \subseteq Req /\ aborted \subseteq Req /\ uses \in [Req -> 0..MaxUses]
    /\ port \in Seq(Req) /\ queue \in Seq(Req) /\ parked \in Seq(Req)
    /\ due \in [Req -> 0..Interval] /\ hw \in [Chan -> HostChannel]
    /\ sof \in BOOLEAN /\ gate \in BOOLEAN
    /\ irq \subseteq {"sof", "hch"} /\ flagged \subseteq Chan
    /\ sig \subseteq {"port", "timer"} /\ timer \in {"idle", "sent", "replied"}
    /\ watchdog_active \in BOOLEAN /\ faults \in 0..MaxFaults /\ stolen \in BOOLEAN
    /\ task \in Task

\* SOF is wanted or it is not.
LEMMA SofType == ASSUME sof \in BOOLEAN, UpdateSof \/ UNCHANGED sof
                 PROVE  sof' \in BOOLEAN
  BY DEF UpdateSof, SofWanted

\* The task stays in its type when it goes on in a loop.
LEMMA LoopTask ==
  ASSUME Types, NEW c, NEW loop \in Loop,
         \/ Proceed(c, loop) \/ ThenNext(c, loop)
         \/ task' = [task EXCEPT !.pc = "delay", !.back = loop]
  PROVE  task' \in Task
<1>1. task \in Task /\ loop \in Label /\ "next" \in Label /\ "delay" \in Label
  BY DEF Types, Label, Loop
<1>2. CASE Proceed(c, loop)
  BY <1>1, <1>2 DEF Proceed, Task
<1>3. CASE ThenNext(c, loop)
  BY <1>1, <1>3 DEF ThenNext, Task
<1>4. CASE task' = [task EXCEPT !.pc = "delay", !.back = loop]
  BY <1>1, <1>4 DEF Task
<1> QED
  BY <1>2, <1>3, <1>4

\* channel_irq keeps the types.
LEMMA ChannelIrqTypes ==
  ASSUME Types, NotOverfull, Stages, NEW c \in Busy, NEW status, NEW loop \in Loop,
         ChannelIrq(c, status, loop)
  PROVE  OtherTypes'
<1>1. /\ hw' \in [Chan -> HostChannel]
      /\ UNCHANGED <<uses, aborted, port, queue, irqVars, sig, timerVars, history>>
      /\ out' \subseteq out
      /\ \/ UNCHANGED <<parked, due>>
         \/ /\ parked' = Append(parked, chan[c].request)
            /\ due' = [due EXCEPT ![chan[c].request] = Interval]
  BY ChannelIrqTask
<1>2. task' \in Task
  BY ChannelIrqTask, LoopTask
<1>3. chan[c].request \in Req
  BY BusyHas
<1>4. parked' \in Seq(Req) /\ due' \in [Req -> 0..Interval]
  <2>1. Append(parked, chan[c].request) \in Seq(Req)
    BY <1>3, AppendPlace DEF Types
  <2>2. [due EXCEPT ![chan[c].request] = Interval] \in [Req -> 0..Interval]
    BY <1>3, LimitAssumption DEF Types
  <2> QED
    BY <1>1, <2>1, <2>2 DEF Types
<1>5. sof' \in BOOLEAN
  <2>1. UpdateSof \/ UNCHANGED sof
    BY ChannelIrqCases DEF Rearmed, Finish, Park, SplitRestart, Stopped, Dismissed,
       OnlyChannel
  <2> QED
    BY <2>1, SofType DEF Types
<1> QED
  BY <1>1, <1>2, <1>4, <1>5 DEF OtherTypes, Types, irqVars, timerVars, history

\* dwc2_transfer_submit keeps the types.
LEMMA SubmitTypes ==
  ASSUME Types, Stages, NotOverfull, NEW r \in Req, Submit(r)
  PROVE  hw' \in [Chan -> HostChannel] /\ queue' \in Seq(Req)
<1>1. \/ Started(r) /\ UNCHANGED queue
      \/ queue' = Append(queue, r) /\ UNCHANGED chanVars
  BY SubmitIs
<1>2. CASE Started(r) /\ UNCHANGED queue
  BY <1>2, StartedStages DEF Types
<1>3. CASE queue' = Append(queue, r) /\ UNCHANGED chanVars
  BY <1>3, AppendPlace DEF Types, chanVars
<1> QED
  BY <1>1, <1>2, <1>3

LEMMA OtherTypesStep ==
  ASSUME Types, Stages, NotOverfull, Walk, [Next]_vars
  PROVE  OtherTypes'
<1> USE DEF clientVars, queueVars, chanVars, irqVars, timerVars, history
<1>1. OtherTypes
  BY DEF Types, OtherTypes
<1>2. ASSUME NEW r \in Req, BeginIO(r) PROVE OtherTypes'
  <2>1. port' \in Seq(Req)
    BY <1>2, AppendPlace DEF BeginIO, Types
  <2>2. uses' \in [Req -> 0..MaxUses]
    BY <1>2, LimitAssumption DEF BeginIO, Types
  <2> QED
    BY <1>1, <1>2, <2>1, <2>2 DEF BeginIO, OtherTypes
<1>3. ASSUME NEW r \in Req, AbortIO(r) PROVE OtherTypes'
  BY <1>1, <1>3 DEF AbortIO, OtherTypes
<1>4. ASSUME NEW c \in Chan, Answer(c) \/ Accept(c) \/ Hesitate(c) PROVE OtherTypes'
  <2>1. ASSUME NEW bits \in SUBSET Bit, NEW on \in BOOLEAN, NEW fin \in BOOLEAN,
               NEW moved \in {"none", "short", "full"}, Raise(c, bits, on, moved, fin)
        PROVE  hw' \in [Chan -> HostChannel]
    BY <2>1 DEF Types, Raise, HostChannel
  <2>2. /\ hw[c].moved \in {"none", "short", "full"}
        /\ {"done", "halt"} \in SUBSET Bit /\ {"halt"} \in SUBSET Bit
        /\ {"xact", "halt"} \in SUBSET Bit /\ {"stall", "halt"} \in SUBSET Bit
        /\ {"nak"} \in SUBSET Bit /\ {"nyet", "halt"} \in SUBSET Bit
        /\ {"nak", "halt"} \in SUBSET Bit /\ {"ack", "halt"} \in SUBSET Bit
        /\ {"ack"} \in SUBSET Bit
    BY DEF Types, HostChannel, Bit
  <2>3. CASE Answer(c)
    <3>1. hw' \in [Chan -> HostChannel]
      BY <1>4, <2>1, <2>2, <2>3 DEF Answer, Complete
    <3> QED
      BY <1>1, <2>3, <3>1 DEF Answer, WireUnchanged, OtherTypes
  <2>4. CASE Accept(c)
    <3>1. hw' \in [Chan -> HostChannel]
      BY <1>4, <2>1, <2>2, <2>4 DEF Accept
    <3> QED
      BY <1>1, <2>4, <3>1 DEF Accept, WireUnchanged, OtherTypes
  <2>5. CASE Hesitate(c)
    <3>1. hw' \in [Chan -> HostChannel]
      BY <1>4, <2>1, <2>2, <2>5 DEF Hesitate, Refuse
    <3>2. faults' \in 0..MaxFaults
      BY <2>5, LimitAssumption DEF Hesitate, Types
    <3> QED
      BY <1>1, <2>5, <3>1, <3>2 DEF Hesitate, WireUnchanged, OtherTypes
  <2> QED
    BY <1>4, <2>3, <2>4, <2>5
<1>5. CASE Frame
  <2>1. due' \in [Req -> 0..Interval]
    BY <1>5, LimitAssumption DEF Frame, Types
  <2> QED
    BY <1>1, <1>5, <2>1 DEF Frame, OtherTypes
<1>6. CASE Expire
  BY <1>1, <1>6 DEF Expire, OtherTypes
<1>7. CASE Wait
  <2>1. task' \in Task
    <3>1. ("timer" \in sig) \in BOOLEAN /\ "drain" \in Label
      BY DEF Label
    <3> QED
      BY <1>7, <3>1 DEF Wait, Types, Task
  <2> QED
    BY <1>1, <1>7, <2>1 DEF Wait, OtherTypes
<1>8. ASSUME NEW label \in Label, Goto(label) PROVE task' \in Task
  BY <1>8 DEF Goto, Types, Task
<1>9. CASE Drain
  <2>1. task.after \in Label
    BY DEF Types, Task, Label
  <2>2. task' \in Task
    <3>1. CASE irq = {}
      BY <1>8, <1>9, <2>1, <3>1 DEF Drain
    <3>2. CASE irq # {} /\ "hch" \in irq
      BY <1>9, <3>2 DEF Drain, Types, Task, Label, Loop
    <3>3. CASE irq # {} /\ "hch" \notin irq
      BY <1>9, <3>3 DEF Drain, Types, Task, Label, Loop
    <3> QED
      BY <3>1, <3>2, <3>3
  <2>3. irq' \subseteq {"sof", "hch"} /\ flagged' \subseteq Chan
    BY <1>9 DEF Drain, Types
  <2> QED
    BY <1>1, <1>9, <2>2, <2>3 DEF Drain, OtherTypes
<1>10. CASE TakePending
  <2>1. task' \in Task
    <3>1. CASE task.work = {}
      BY <1>10, <3>1 DEF TakePending, Types, Task, Label, Loop
    <3>2. CASE task.work # {} /\ chan[First(task.work)].pending = {}
      BY <1>10, <3>2, LoopTask DEF TakePending, Loop
    <3>3. CASE task.work # {} /\ chan[First(task.work)].pending # {}
      <4>1. First(task.work) \in Chan
        BY <3>3, FirstIs DEF Types, Task
      <4>2. chan[First(task.work)].pending \in SUBSET Bit /\ "handle" \in Label
        BY <4>1 DEF Types, Channel, Label
      <4> QED
        BY <1>10, <3>3, <4>2 DEF TakePending, Types, Task
    <3> QED
      BY <3>1, <3>2, <3>3
  <2> QED
    BY <1>1, <1>10, <2>1 DEF TakePending, OtherTypes
<1>11. CASE Handle
  BY <1>11, ChannelIrqTypes DEF Handle, Walk, At, Loop
<1>12. CASE Delay
  <2>1. task' \in Task
    BY <1>12 DEF Delay, Walk, At, Types, Task, Label, Loop
  <2>2. hw' \in [Chan -> HostChannel]
    BY <1>12 DEF Delay, Arm, Types, ArmedHw, IdleHw, HostChannel
  <2>3. timer' \in {"idle", "sent", "replied"} /\ sig' \subseteq {"port", "timer"}
    BY <1>12 DEF Delay, Types
  <2> QED
    BY <1>1, <1>12, <2>1, <2>2, <2>3 DEF Delay, OtherTypes
<1>13. CASE ServiceInSof \/ ServiceOnce
  <2>1. "promote" \in Label /\ "drain" \in Label
    BY DEF Label
  <2>2. task' \in Task
    BY <1>8, <1>13, <2>1 DEF ServiceInSof, ServiceOnce, Service, Types
  <2>3. parked' \in Seq(Req) /\ due' \in [Req -> 0..Interval]
    <3>1. CASE Range(parked) \cap aborted # {}
      <4> DEFINE i == FirstAt(parked, aborted)
      <4>1. parked \in Seq(Req) /\ i \in 1..Len(parked)
        BY <3>1, FirstAtIs DEF Types
      <4>2. parked' = Without(parked, i) /\ due' = [due EXCEPT ![parked[i]] = 0]
        BY <1>13, <3>1 DEF ServiceInSof, ServiceOnce, Service
      <4> HIDE DEF i
      <4> QED
        BY <4>1, <4>2, WithoutPlace, LimitAssumption DEF Types
    <3>2. CASE Range(parked) \cap aborted = {}
      BY <1>13, <3>2 DEF ServiceInSof, ServiceOnce, Service, Types
    <3> QED
      BY <3>1, <3>2
  <2>4. sof' \in BOOLEAN
    BY <1>13, SofType DEF ServiceInSof, ServiceOnce, Service, Types
  <2>5. out' \subseteq out
    BY <1>13 DEF ServiceInSof, ServiceOnce, Service
  <2> QED
    BY <1>1, <1>13, <2>2, <2>3, <2>4, <2>5
       DEF ServiceInSof, ServiceOnce, Service, OtherTypes
<1>14. CASE Promote
  <2>1. CASE /\ Due # {} /\ Free # {} /\ Submit(parked[FirstAt(parked, Due)])
             /\ parked' = Without(parked, FirstAt(parked, Due))
             /\ UNCHANGED <<due, sof, task>>
    <3> DEFINE i == FirstAt(parked, Due)
    <3>1. i \in 1..Len(parked) /\ parked[i] \in Req /\ parked \in Seq(Req)
      BY <2>1, HeadsAreRequests DEF Types
    <3>2. Submit(parked[i]) /\ parked' = Without(parked, i)
      BY <2>1
    <3> HIDE DEF i
    <3>3. hw' \in [Chan -> HostChannel] /\ queue' \in Seq(Req) /\ parked' \in Seq(Req)
      BY <3>1, <3>2, SubmitTypes, WithoutPlace
    <3> QED
      BY <1>1, <1>14, <2>1, <3>3 DEF Promote, OtherTypes
  <2>2. CASE UNCHANGED <<chanVars, queue, parked, due>> /\ UpdateSof /\ Goto("reopen")
    <3>1. task' \in Task /\ sof' \in BOOLEAN
      BY <1>8, <2>2, SofType DEF Types, Label
    <3> QED
      BY <1>1, <1>14, <2>2, <3>1 DEF Promote, OtherTypes
  <2> QED
    BY <1>14, <2>1, <2>2 DEF Promote
<1>15. CASE Reopen
  <2>1. task.after \in Label
    BY DEF Types, Task, Label
  <2> QED
    BY <1>1, <1>8, <1>15, <2>1 DEF Reopen, OtherTypes
<1>16. CASE StartNext
  <2>1. CASE queue # <<>> /\ queue' = Tail(queue) /\ out' \subseteq out
             /\ hw' \in [Chan -> HostChannel] /\ UNCHANGED task
    <3>1. queue' \in Seq(Req)
      BY <2>1, TailPlace DEF Types
    <3> QED
      BY <1>1, <1>16, <2>1, <3>1 DEF StartNext, OtherTypes
  <2>2. CASE /\ task' = [task EXCEPT !.pc = task.back, !.back = "reopen"]
             /\ UNCHANGED <<queue, out, chanVars>>
    <3>1. task' \in Task
      BY <1>16, <2>2 DEF StartNext, Walk, At, Types, Task, Label, Loop
    <3> QED
      BY <1>1, <1>16, <2>2, <3>1 DEF StartNext, OtherTypes
  <2>3. ASSUME Free # {}, HeadArmable, SubmitOn(First(Free), Head(queue))
        PROVE  hw' \in [Chan -> HostChannel]
    BY <2>3, HeadsAreRequests, SubmitOnIs, StartedStages DEF HeadArmable
  <2>4. hw \in [Chan -> HostChannel]
    BY DEF Types
  <2> QED
    BY <1>16, <2>1, <2>2, <2>3, <2>4 DEF StartNext, HeadAborted, HeadArmable
<1>17. ToAborts \in Task
  BY DEF ToAborts, Types, Task, Label, Loop
<1>18. CASE CollectTimer
  <2>1. task' \in Task
    <3>1. CASE task.woken /\ watchdog_active
      BY <1>18, <3>1 DEF CollectTimer, Types, Task, Label
    <3>2. CASE ~(task.woken /\ watchdog_active)
      BY <1>17, <1>18, <3>2 DEF CollectTimer, Task
    <3> QED
      BY <3>1, <3>2
  <2>2. timer' \in {"idle", "sent", "replied"} /\ watchdog_active' \in BOOLEAN
    BY <1>18 DEF CollectTimer, Types
  <2> QED
    BY <1>1, <1>18, <2>1, <2>2 DEF CollectTimer, OtherTypes
<1>19. CASE Watch
  <2>1. [task EXCEPT !.pc = "look", !.work = Chan] \in Task
    BY DEF Types, Task, Label, Loop
  <2> QED
    BY <1>1, <1>17, <1>19, <2>1 DEF Watch, OnlyTask, OtherTypes
<1>20. CASE Look
  <2>1. task' \in Task
    <3> DEFINE left == task.work \cap Busy
    <3>1. CASE left = {}
      BY <1>17, <1>20, <3>1 DEF Look
    <3>2. CASE left # {}
      <4>1. left \in SUBSET Chan
        BY DEF Busy
      <4>2. task' = [task EXCEPT !.pc = "recover", !.work = left,
                                 !.status = hw[First(left)].int]
        BY <1>20, <3>2 DEF Look
      <4> HIDE DEF left
      <4>3. hw[First(left)].int \in SUBSET Bit
        BY <3>2, <4>1, FirstIs DEF Types, HostChannel
      <4> QED
        BY <4>1, <4>2, <4>3 DEF Types, Task, Label
    <3> QED
      BY <3>1, <3>2
  <2> QED
    BY <1>1, <1>20, <2>1 DEF Look, OnlyTask, OtherTypes
<1>21. ASSUME NEW c \in Busy, AbortChannel(c, "look") \/ AbortChannel(c, "aborts")
       PROVE  OtherTypes'
  <2>1. task' \in Task
    BY <1>21, LoopTask DEF AbortChannel, Loop
  <2>2. hw' \in [Chan -> HostChannel]
    <3>1. IdleHw \in HostChannel
      BY DEF IdleHw, HostChannel
    <3> QED
      BY <1>21, <3>1 DEF AbortChannel, Types
  <2> QED
    BY <1>1, <1>21, <2>1, <2>2 DEF AbortChannel, OtherTypes
<1>22. CASE Recover
  <2> DEFINE c == First(task.work)
  <2>1. c \in Busy
    BY <1>22 DEF Recover, Walk, At
  <2>2. CASE ChannelIrq(c, task.status, "look")
    BY <2>1, <2>2, ChannelIrqTypes DEF Loop
  <2>3. CASE AbortChannel(c, "look")
    BY <1>21, <2>1, <2>3
  <2>4. CASE Proceed(c, "look") /\ OnlyChannel /\ UNCHANGED <<pacing, hw, timerVars>>
    <3>1. task' \in Task
      BY <2>4, LoopTask DEF Loop
    <3> QED
      BY <1>1, <2>4, <3>1 DEF OnlyChannel, OtherTypes
  <2> QED
    BY <1>22, <2>2, <2>3, <2>4 DEF Recover
<1>23. CASE Aborts
  <2> DEFINE left == {c \in task.work \cap Busy : chan[c].request \in aborted}
  <2>1. CASE left # {} /\ AbortChannel(First(left), "aborts")
    <3>1. First(left) \in Busy
      <4>1. left \in SUBSET Chan /\ left \subseteq Busy
        BY DEF Busy
      <4> HIDE DEF left
      <4> QED
        BY <2>1, <4>1, FirstIs
    <3> QED
      BY <1>21, <2>1, <3>1
  <2>2. CASE task' = [task EXCEPT !.pc = "messages", !.work = {}] /\ OnlyTask
    <3>1. task' \in Task
      BY <2>2 DEF Types, Task, Label
    <3> QED
      BY <1>1, <2>2, <3>1 DEF OnlyTask, OtherTypes
  <2> QED
    BY <1>23, <2>1, <2>2 DEF Aborts
<1>24. CASE Messages
  <2>1. CASE Goto("service") /\ UNCHANGED <<out, chanVars, port, queue>>
    <3>1. task' \in Task
      BY <1>8, <2>1 DEF Label
    <3> QED
      BY <1>1, <1>24, <2>1, <3>1 DEF Messages, OtherTypes
  <2>2. CASE port # <<>> /\ port' = Tail(port) /\ UNCHANGED task /\ out' \subseteq out
             /\ hw' \in [Chan -> HostChannel] /\ queue' \in Seq(Req)
    <3>1. port' \in Seq(Req)
      BY <2>2, TailPlace DEF Types
    <3> QED
      BY <1>1, <1>24, <2>2, <3>1 DEF Messages, OtherTypes
  <2>3. ASSUME port # <<>>, Submit(Head(port))
        PROVE  hw' \in [Chan -> HostChannel] /\ queue' \in Seq(Req)
    BY <2>3, HeadsAreRequests, SubmitTypes
  <2>4. hw \in [Chan -> HostChannel] /\ queue \in Seq(Req)
    BY DEF Types
  <2> QED
    BY <1>24, <2>1, <2>2, <2>3, <2>4 DEF Messages
<1>25. CASE ArmWatchdog
  <2>1. task' \in Task
    BY <1>8, <1>25 DEF ArmWatchdog, Label
  <2> QED
    BY <1>1, <1>25, <2>1 DEF ArmWatchdog, OtherTypes
<1>26. ASSUME NEW starts \in BOOLEAN, TopHalf(starts) PROVE OtherTypes'
  <2>1. hw' \in [Chan -> HostChannel]
    BY <1>26, TopHalfKeeps
  <2>2. gate' \in BOOLEAN /\ irq' \subseteq {"sof", "hch"}
        /\ sig' \subseteq {"port", "timer"}
    BY <1>26 DEF TopHalf, Active, Types
  <2>3. flagged' \subseteq Chan
    BY <1>26 DEF TopHalf, Types, Raised, Busy
  <2>4. stolen' \in BOOLEAN
    BY <1>26 DEF TopHalf, Types
  <2> QED
    BY <1>1, <1>26, <2>1, <2>2, <2>3, <2>4 DEF TopHalf, OtherTypes
<1>27. CASE UNCHANGED vars
  BY <1>1, <1>27 DEF vars, OtherTypes
<1> QED
  BY <1>2, <1>3, <1>4, <1>5, <1>6, <1>7, <1>9, <1>10, <1>11, <1>12, <1>13, <1>14,
     <1>15, <1>16, <1>18, <1>19, <1>20, <1>22, <1>23, <1>24, <1>25, <1>26, <1>27
     DEF Next, UnitTask

\* Every action keeps every variable in its type.
LEMMA TypesStep ==
  ASSUME Types, Stages, NotOverfull, Walk, [Next]_vars
  PROVE  Types'
  BY StagesStep, OtherTypesStep DEF Types, OtherTypes

-----------------------------------------------------------------------------
(* Where the task is.                                                      *)

\* Going on in a loop, or to start_next from it.
LEMMA LoopWalk ==
  ASSUME Types, NEW c, NEW loop \in Loop, Proceed(c, loop) \/ ThenNext(c, loop),
         loop = "look" => task.after = "watch", loop = "aborts" => task.after = "arm"
  PROVE  Walk'
<1>1. task \in Task
  BY DEF Types
<1>2. CASE Proceed(c, loop)
  <2>1. task'.pc = loop /\ task'.after = task.after
    BY <1>1, <1>2 DEF Proceed, Task
  <2> QED
    BY <2>1 DEF Walk, At, Loop
<1>3. CASE ThenNext(c, loop)
  <2>1. task'.pc = "next" /\ task'.back = loop /\ task'.after = task.after
    BY <1>1, <1>3 DEF ThenNext, Task
  <2> QED
    BY <2>1 DEF Walk, At, Loop
<1> QED
  BY <1>2, <1>3

\* channel_irq, from either loop.
LEMMA ChannelIrqWalk ==
  ASSUME Types, NotOverfull, Stages, NEW loop \in {"irqs", "look"},
         First(task.work) \in Busy, task.work # {}, NEW status,
         ChannelIrq(First(task.work), status, loop), loop = "look" => task.after = "watch"
  PROVE  Walk'
<1> DEFINE c == First(task.work)
<1>1. \/ Proceed(c, loop) \/ ThenNext(c, loop)
      \/ task' = [task EXCEPT !.pc = "delay", !.back = loop] /\ Busy' = Busy
  BY ChannelIrqTask
<1>2. CASE Proceed(c, loop) \/ ThenNext(c, loop)
  BY <1>2, LoopWalk DEF Loop
<1>3. CASE task' = [task EXCEPT !.pc = "delay", !.back = loop] /\ Busy' = Busy
  <2>1. task'.pc = "delay" /\ task'.back = loop /\ task'.work = task.work
        /\ task'.after = task.after
    BY <1>3 DEF Types, Task
  <2> QED
    BY <1>3, <2>1 DEF Walk, At
<1> QED
  BY <1>1, <1>2, <1>3

\* The task's labels and phases stay in step.
LEMMA WalkStep ==
  ASSUME Types, Stages, NotOverfull, Walk, Gated, [Next]_vars
  PROVE  Walk'
<1> USE DEF clientVars, queueVars, chanVars, irqVars, timerVars, history
<1>1. ASSUME UNCHANGED <<task, chan>> PROVE Walk'
  BY <1>1 DEF Walk, At, Busy
<1>2. task \in Task
  BY DEF Types
<1>3. ASSUME NEW r \in Req, BeginIO(r) \/ AbortIO(r) PROVE Walk'
  BY <1>1, <1>3 DEF BeginIO, AbortIO
<1>4. ASSUME NEW c \in Chan, Answer(c) \/ Accept(c) \/ Hesitate(c) PROVE Walk'
  BY <1>1, <1>4 DEF Answer, Accept, Hesitate, WireUnchanged
<1>5. CASE Frame \/ Expire
  BY <1>1, <1>5 DEF Frame, Expire
<1>6. CASE Wait
  BY <1>2, <1>6 DEF Wait, Walk, At, Task
<1>7. CASE Drain
  <2>1. CASE irq = {}
    <3>1. task'.pc = task.after /\ task'.after = task.after
          /\ task.after \in {"timer", "watch", "arm"}
      BY <1>2, <1>7, <2>1 DEF Drain, Goto, Task
    <3> QED
      BY <3>1 DEF Walk, At
  <2>2. CASE irq # {}
    <3>1. task'.pc \in {"irqs", "sof"}
      BY <1>2, <1>7, <2>2 DEF Drain, Task
    <3> QED
      BY <3>1 DEF Walk, At
  <2> QED
    BY <2>1, <2>2
<1>8. CASE TakePending
  <2>1. CASE task.work = {}
    <3>1. task'.pc \in {"sof", "reopen"}
      BY <1>2, <1>8, <2>1 DEF TakePending, Task
    <3> QED
      BY <3>1 DEF Walk, At
  <2> DEFINE c == First(task.work)
  <2>2. CASE task.work # {} /\ chan[c].pending = {}
    BY <1>8, <2>2, LoopWalk DEF TakePending, Loop
  <2>3. CASE task.work # {} /\ chan[c].pending # {}
    <3>1. c \in Chan
      BY <1>2, <2>3, FirstIs DEF Task
    <3>2. c \in Busy
      BY <2>3, <3>1, FreeChanIs DEF Stages, Free
    <3>3. chan' = [chan EXCEPT ![c].pending = {}]
          /\ task' = [task EXCEPT !.pc = "handle", !.status = chan[c].pending]
      BY <1>8, <2>3 DEF TakePending
    <3>4. chan'[c].pending = {} /\ chan'[c].request = chan[c].request
      BY <3>1, <3>3 DEF Types, Channel
    <3>5. c \in Busy'
      BY <3>1, <3>2, <3>4 DEF Busy
    <3>6. task'.pc = "handle" /\ task'.status = chan[c].pending /\ task'.work = task.work
      BY <1>2, <3>3 DEF Task
    <3> QED
      BY <2>3, <3>4, <3>5, <3>6 DEF Walk, At
  <2> QED
    BY <2>1, <2>2, <2>3
<1>9. CASE Handle
  BY <1>9, ChannelIrqWalk DEF Handle, Walk, At
<1>10. CASE Delay
  <2>1. task'.pc = task.back /\ task'.after = task.after
    BY <1>2, <1>10 DEF Delay, Task
  <2> QED
    BY <1>10, <2>1 DEF Delay, Walk, At
<1>11. CASE ServiceInSof \/ ServiceOnce
  <2>1. CASE Range(parked) \cap aborted # {}
    BY <1>1, <1>11, <2>1 DEF ServiceInSof, ServiceOnce, Service
  <2>2. CASE Range(parked) \cap aborted = {}
    <3>1. task'.pc \in {"promote", "drain"}
      BY <1>2, <1>11, <2>2 DEF ServiceInSof, ServiceOnce, Service, Goto, Task
    <3> QED
      BY <3>1 DEF Walk, At
  <2> QED
    BY <2>1, <2>2
<1>12. CASE Promote
  <2>1. task'.pc \in {"promote", "reopen"}
    BY <1>2, <1>12 DEF Promote, At, Goto, Task
  <2> QED
    BY <2>1 DEF Walk, At
<1>13. CASE Reopen
  <2>1. task'.pc = task.after /\ task'.after = task.after
        /\ task.after \in {"timer", "watch", "arm"}
    BY <1>2, <1>13 DEF Reopen, Goto, Task
  <2> QED
    BY <2>1 DEF Walk, At
<1>14. CASE StartNext
  <2>1. CASE UNCHANGED task
    BY <1>14, <2>1 DEF StartNext, Walk, At
  <2>2. CASE task' = [task EXCEPT !.pc = task.back, !.back = "reopen"]
    <3>1. task'.pc = task.back /\ task'.after = task.after
      BY <1>2, <2>2 DEF Task
    <3> QED
      BY <1>14, <3>1 DEF StartNext, Walk, At, Loop
  <2> QED
    BY <1>14, <2>1, <2>2 DEF StartNext
<1>15. ASSUME task' = ToAborts PROVE Walk'
  <2>1. task'.pc = "aborts" /\ task'.after = "arm"
    BY <1>2, <1>15 DEF ToAborts, Task
  <2> QED
    BY <2>1 DEF Walk, At
<1>16. CASE CollectTimer
  <2>1. task'.pc = "drain" \/ (task'.pc = "aborts" /\ task'.after = "arm")
    BY <1>2, <1>16 DEF CollectTimer, ToAborts, Task
  <2> QED
    BY <2>1 DEF Walk, At
<1>17. CASE Watch
  <2>1. CASE gate
    <3>1. task'.pc = "look" /\ task'.after = task.after
      BY <1>2, <1>17, <2>1 DEF Watch, Task
    <3> QED
      BY <1>17, <3>1 DEF Watch, Walk, At
  <2> QED
    BY <1>15, <1>17, <2>1 DEF Watch
<1>18. CASE Look
  <2> DEFINE left == task.work \cap Busy
  <2>1. CASE left # {}
    <3>1. left \in SUBSET Chan
      BY DEF Busy
    <3>2. task'.pc = "recover" /\ task'.work = left /\ task'.after = task.after
      BY <1>2, <1>18, <2>1 DEF Look, Task
    <3>3. Busy' = Busy
      BY <1>18 DEF Look, OnlyTask, Busy
    <3> HIDE DEF left
    <3>4. First(left) \in left
      BY <2>1, <3>1, FirstIs
    <3>5. left \subseteq Busy
      BY DEF left
    <3> QED
      BY <1>18, <2>1, <3>2, <3>3, <3>4, <3>5 DEF Look, Walk, At
  <2>2. CASE left = {}
    BY <1>15, <1>18, <2>2 DEF Look
  <2> QED
    BY <2>1, <2>2
<1>19. CASE Recover
  <2>1. First(task.work) \in Busy /\ task.work # {} /\ task.after = "watch"
    BY <1>19 DEF Recover, Walk, At
  <2>2. CASE ChannelIrq(First(task.work), task.status, "look")
    BY <2>1, <2>2, ChannelIrqWalk
  <2>3. CASE AbortChannel(First(task.work), "look") \/ Proceed(First(task.work), "look")
    BY <2>1, <2>3, LoopWalk DEF AbortChannel, Loop
  <2> QED
    BY <1>19, <2>2, <2>3 DEF Recover
<1>20. CASE Aborts
  <2>1. ASSUME NEW c, AbortChannel(c, "aborts") PROVE Walk'
    BY <1>20, <2>1, LoopWalk DEF AbortChannel, Loop, Aborts, Walk, At
  <2>2. CASE task' = [task EXCEPT !.pc = "messages", !.work = {}]
    <3>1. task'.pc = "messages" /\ task'.after = task.after
      BY <1>2, <2>2 DEF Task
    <3> QED
      BY <1>20, <3>1 DEF Aborts, Walk, At
  <2> QED
    BY <1>20, <2>1, <2>2 DEF Aborts
<1>21. CASE Messages
  <2>1. task'.pc \in {"messages", "service"} /\ task'.after = task.after
    BY <1>2, <1>21 DEF Messages, At, Goto, Task
  <2> QED
    BY <1>21, <2>1 DEF Messages, Walk, At
<1>22. CASE ArmWatchdog
  <2>1. task'.pc = "wait" /\ task'.after = task.after
    BY <1>2, <1>22 DEF ArmWatchdog, Goto, Task
  <2> QED
    BY <1>22, <2>1 DEF ArmWatchdog, Walk, At
<1>23. ASSUME NEW starts \in BOOLEAN, TopHalf(starts) PROVE Walk'
  <2>1. \A c \in Chan : chan'[c].request = chan[c].request
    BY <1>23, TopHalfKeeps
  <2>2. Busy' = Busy
    BY <2>1 DEF Busy
  <2>3. task' = task /\ ~At("handle")
    BY <1>23 DEF TopHalf, Gated, Draining, At
  <2> QED
    BY <2>2, <2>3 DEF Walk, At
<1>24. CASE UNCHANGED vars
  BY <1>1, <1>24 DEF vars
<1> QED
  BY <1>3, <1>4, <1>5, <1>6, <1>7, <1>8, <1>9, <1>10, <1>11, <1>12, <1>13, <1>14,
     <1>16, <1>17, <1>18, <1>19, <1>20, <1>21, <1>22, <1>23, <1>24
     DEF Next, UnitTask

-----------------------------------------------------------------------------
(* The gate.                                                               *)

\* channel_irq leaves the gate and what is behind it alone, and stays in the
\* drain if it was called from there.
LEMMA LoopGated ==
  ASSUME Types, Gated, NEW c, NEW loop \in Loop, UNCHANGED <<gate, irq, flagged, sig>>,
         \/ Proceed(c, loop) \/ ThenNext(c, loop)
         \/ task' = [task EXCEPT !.pc = "delay", !.back = loop],
         Draining <=> loop = "irqs", ~At("drain")
  PROVE  Gated'
<1>1. task \in Task
  BY DEF Types
<1>2. Draining' <=> loop = "irqs"
  <2>1. CASE Proceed(c, loop)
    <3>1. task'.pc = loop
      BY <1>1, <2>1 DEF Proceed, Task
    <3> QED
      BY <3>1 DEF Draining, At, Loop
  <2>2. CASE ThenNext(c, loop)
    <3>1. task'.pc = "next" /\ task'.back = loop
      BY <1>1, <2>2 DEF ThenNext, Task
    <3> QED
      BY <3>1 DEF Draining, At
  <2>3. CASE task' = [task EXCEPT !.pc = "delay", !.back = loop]
    <3>1. task'.pc = "delay" /\ task'.back = loop
      BY <1>1, <2>3 DEF Task
    <3> QED
      BY <3>1 DEF Draining, At
  <2> QED
    BY <2>1, <2>2, <2>3
<1> QED
  BY <1>2 DEF Gated

\* The task moves, and is draining afterwards if and only if it was.
LEMMA MoveGated ==
  ASSUME Gated, UNCHANGED <<gate, irq, flagged>>, sig \subseteq sig',
         Draining' <=> Draining, irq = {} \/ ~At("drain")
  PROVE  Gated'
  BY DEF Gated

\* The gate is closed while something taken is not drained, and opened after.
LEMMA GatedStep ==
  ASSUME Types, Stages, NotOverfull, Walk, Gated, [Next]_vars
  PROVE  Gated'
<1> USE DEF clientVars, queueVars, chanVars, irqVars, timerVars, history
<1>1. ASSUME UNCHANGED <<task, gate, irq, flagged>>, sig \subseteq sig' PROVE Gated'
  BY <1>1 DEF Gated, Draining, At
<1>2. task \in Task
  BY DEF Types
<1>3. ASSUME NEW r \in Req, BeginIO(r) \/ AbortIO(r) PROVE Gated'
  BY <1>1, <1>3 DEF BeginIO, AbortIO
<1>4. ASSUME NEW c \in Chan, Answer(c) \/ Accept(c) \/ Hesitate(c) PROVE Gated'
  BY <1>1, <1>4 DEF Answer, Accept, Hesitate, WireUnchanged
<1>5. CASE Frame \/ Expire
  BY <1>1, <1>5 DEF Frame, Expire
<1>6. CASE Wait
  <2>1. task'.pc = "drain" /\ UNCHANGED <<gate, irq, flagged>> /\ ~Draining
    BY <1>2, <1>6 DEF Wait, Task, Draining, At
  <2> QED
    BY <2>1 DEF Gated, Draining, At
<1>7. CASE Drain
  <2>1. CASE irq = {}
    <3>1. /\ task'.pc \in {"timer", "watch", "arm"}
          /\ UNCHANGED <<gate, irq, flagged, sig>> /\ ~Draining
      BY <1>2, <1>7, <2>1 DEF Drain, Goto, Task, Draining, At
    <3> QED
      BY <2>1, <3>1 DEF Gated, Draining, At
  <2>2. CASE irq # {}
    <3>1. /\ task'.pc \in {"irqs", "sof"} /\ irq' = {} /\ UNCHANGED gate /\ ~gate
          /\ flagged' = {}
      BY <1>2, <1>7, <2>2 DEF Drain, Task, Gated
    <3> QED
      BY <3>1 DEF Gated, Draining, At
  <2> QED
    BY <2>1, <2>2
<1>8. CASE TakePending
  <2>1. Draining /\ UNCHANGED <<gate, irq, flagged, sig>> /\ ~At("drain")
    BY <1>8 DEF TakePending, Draining, At
  <2>2. Draining'
    <3>1. CASE task.work = {}
      <4>1. task'.pc \in {"sof", "reopen"}
        BY <1>2, <1>8, <3>1 DEF TakePending, Task
      <4> QED
        BY <4>1 DEF Draining, At
    <3>2. CASE task.work # {}
      <4>1. task'.pc \in {"irqs", "handle"}
        BY <1>2, <1>8, <3>2 DEF TakePending, Proceed, Task
      <4> QED
        BY <4>1 DEF Draining, At
    <3> QED
      BY <3>1, <3>2
  <2> QED
    BY <2>1, <2>2, MoveGated
<1>9. CASE Handle
  <2>1. /\ First(task.work) \in Busy /\ Draining /\ ~At("drain")
        /\ ChannelIrq(First(task.work), task.status, "irqs")
    BY <1>9 DEF Handle, Walk, Draining, At
  <2>2. /\ \/ Proceed(First(task.work), "irqs") \/ ThenNext(First(task.work), "irqs")
           \/ task' = [task EXCEPT !.pc = "delay", !.back = "irqs"]
        /\ UNCHANGED <<gate, irq, flagged, sig>>
    BY <2>1, ChannelIrqTask
  <2> QED
    BY <2>1, <2>2, LoopGated DEF Loop
<1>10. CASE Delay
  <2>1. /\ task'.pc = task.back /\ task.back \in {"irqs", "look"} /\ task.pc = "delay"
        /\ UNCHANGED <<gate, irq, flagged>>
    BY <1>2, <1>10 DEF Delay, Walk, At, Task
  <2>2. Draining' <=> Draining
    BY <2>1 DEF Draining, At
  <2>3. irq # {} => "port" \in sig'
    BY <1>10 DEF Delay, Gated, At
  <2> QED
    BY <2>1, <2>2, <2>3 DEF Gated
<1>11. CASE ServiceInSof \/ ServiceOnce
  <2>1. CASE Range(parked) \cap aborted # {}
    BY <1>1, <1>11, <2>1 DEF ServiceInSof, ServiceOnce, Service
  <2>2. CASE Range(parked) \cap aborted = {}
    <3>1. /\ \/ task.pc = "sof" /\ task'.pc = "promote"
             \/ task.pc = "service" /\ task'.pc = "drain"
          /\ UNCHANGED <<gate, irq, flagged, sig>>
      BY <1>2, <1>11, <2>2 DEF ServiceInSof, ServiceOnce, Service, Goto, At, Task
    <3>2. Draining' <=> Draining
      BY <3>1 DEF Draining, At
    <3> QED
      BY <3>1, <3>2, MoveGated DEF At
  <2> QED
    BY <2>1, <2>2
<1>12. CASE Promote
  <2>1. /\ task.pc = "promote" /\ task'.pc \in {"promote", "reopen"}
        /\ UNCHANGED <<gate, irq, flagged, sig>>
    BY <1>2, <1>12 DEF Promote, At, Goto, Task
  <2>2. Draining' <=> Draining
    BY <2>1 DEF Draining, At
  <2> QED
    BY <2>1, <2>2, MoveGated DEF At
<1>13. CASE Reopen
  <2>1. /\ task'.pc \in {"timer", "watch", "arm"} /\ gate' = TRUE
        /\ irq' = irq /\ irq = {} /\ flagged' = flagged /\ flagged = {}
    BY <1>2, <1>13 DEF Reopen, Goto, Task, Gated, Draining, At
  <2> QED
    BY <2>1 DEF Gated, Draining, At
<1>14. CASE StartNext
  <2>1. CASE UNCHANGED task
    BY <1>1, <1>14, <2>1 DEF StartNext
  <2>2. CASE task' = [task EXCEPT !.pc = task.back, !.back = "reopen"]
    <3>1. /\ task.pc = "next" /\ task'.pc = task.back /\ task.back \in Loop
          /\ UNCHANGED <<gate, irq, flagged, sig>>
      BY <1>2, <1>14, <2>2 DEF StartNext, Walk, At, Task
    <3>2. Draining' <=> Draining
      BY <3>1 DEF Draining, At, Loop
    <3> QED
      BY <3>1, <3>2, MoveGated DEF At
  <2> QED
    BY <1>14, <2>1, <2>2 DEF StartNext
<1>15. ASSUME task.pc \in {"timer", "watch", "look", "recover", "aborts", "messages", "arm"},
              task'.pc \in {"drain", "look", "recover", "aborts", "messages", "service", "wait"},
              UNCHANGED <<gate, irq, flagged, sig>>
       PROVE  Gated'
  <2>1. ~Draining /\ ~Draining' /\ ~At("drain")
    BY <1>15 DEF Draining, At
  <2> QED
    BY <1>15, <2>1, MoveGated
<1>16. CASE CollectTimer
  BY <1>2, <1>15, <1>16 DEF CollectTimer, ToAborts, At, Task
<1>17. CASE Watch
  BY <1>2, <1>15, <1>17 DEF Watch, ToAborts, At, Task, OnlyTask
<1>18. CASE Look
  BY <1>2, <1>15, <1>18 DEF Look, ToAborts, At, Task, OnlyTask
<1>19. CASE Recover
  <2> DEFINE c == First(task.work)
  <2>1. c \in Busy /\ ~Draining /\ ~At("drain")
    BY <1>19 DEF Recover, Walk, Draining, At
  <2>2. /\ \/ Proceed(c, "look") \/ ThenNext(c, "look")
           \/ task' = [task EXCEPT !.pc = "delay", !.back = "look"]
        /\ UNCHANGED <<gate, irq, flagged, sig>>
    BY <1>19, <2>1, ChannelIrqTask DEF Recover, AbortChannel, OnlyChannel
  <2> QED
    BY <2>1, <2>2, LoopGated DEF Loop
<1>20. CASE Aborts
  <2>1. ASSUME NEW c, AbortChannel(c, "aborts") PROVE Gated'
    <3>1. ~Draining /\ ~At("drain") /\ ThenNext(c, "aborts")
          /\ UNCHANGED <<gate, irq, flagged, sig>>
      BY <1>20, <2>1 DEF AbortChannel, Aborts, Draining, At
    <3> QED
      BY <3>1, LoopGated DEF Loop
  <2>2. CASE task' = [task EXCEPT !.pc = "messages", !.work = {}] /\ OnlyTask
    BY <1>2, <1>15, <1>20, <2>2 DEF Aborts, At, Task, OnlyTask
  <2> QED
    BY <1>20, <2>1, <2>2 DEF Aborts
<1>21. CASE Messages
  BY <1>1, <1>2, <1>15, <1>21 DEF Messages, At, Goto, Task
<1>22. CASE ArmWatchdog
  BY <1>2, <1>15, <1>22 DEF ArmWatchdog, At, Goto, Task
<1>23. ASSUME NEW starts \in BOOLEAN, TopHalf(starts) PROVE Gated'
  <2>1. gate /\ irq = {} /\ ~Draining /\ flagged = {}
    BY <1>23 DEF TopHalf, Gated
  <2>2. /\ gate' = (Active(starts) = {}) /\ irq' = Active(starts) /\ task' = task
        /\ Active(starts) # {} => "port" \in sig'
    BY <1>23, <2>1 DEF TopHalf
  <2>3. flagged' # {} => "hch" \in irq'
    BY <1>23, <2>1, <2>2 DEF TopHalf, Active
  <2> QED
    BY <2>1, <2>2, <2>3 DEF Gated, Draining, At
<1>24. CASE UNCHANGED vars
  BY <1>1, <1>24 DEF vars
<1> QED
  BY <1>3, <1>4, <1>5, <1>6, <1>7, <1>8, <1>9, <1>10, <1>11, <1>12, <1>13, <1>14,
     <1>16, <1>17, <1>18, <1>19, <1>20, <1>21, <1>22, <1>23, <1>24
     DEF Next, UnitTask

-----------------------------------------------------------------------------
(* The wire.                                                               *)

\* One channel changes, for the better.
LEMMA WireOne ==
  ASSUME Wire, NEW c \in Chan,
         \A d \in Chan \ {c} : chan'[d] = chan[d] /\ hw'[d] = hw[d],
         pacing' \subseteq pacing, UNCHANGED stolen,
         c \in Busy' => Raises(c)' /\ (~stolen => Pends(c)'),
         ~stolen => Works(First(task.work))'
  PROVE  Wire'
<1>1. ASSUME NEW d \in Busy', d # c PROVE Raises(d)' /\ (~stolen => Pends(d)')
  <2>1. d \in Busy /\ chan'[d] = chan[d] /\ hw'[d] = hw[d]
    BY <1>1 DEF Busy
  <2>2. Raises(d)'
    BY <2>1 DEF Wire, Raises
  <2>3. ~stolen => Pends(d)'
    BY <2>1 DEF Wire, Pends, Quiet
  <2> QED
    BY <2>2, <2>3
<1> QED
  BY <1>1 DEF Wire

\* Where the task works on no channel's status there is nothing to show.
LEMMA Away ==
  ASSUME task'.pc \notin {"handle", "recover", "delay"}
  PROVE  Works(First(task.work))'
  BY DEF Works, At

\* A device ends a transaction, or is asked on.
LEMMA WireRaise ==
  ASSUME Types, Wire, NEW c \in Chan, OnWire(c),
         NEW bits \in SUBSET Bit, NEW on \in BOOLEAN, NEW moved, NEW fin \in BOOLEAN,
         Raise(c, bits, on, moved, fin),
         "done" \in bits => ~on /\ fin, "nyet" \in bits => ~on,
         chan[c].split # "none" => ~on,
         UNCHANGED <<chan, pacing, task, stolen>>
  PROVE  Wire'
<1>1. /\ hw[c].int \in SUBSET Bit /\ c \in Busy /\ hw[c].ena
      /\ hw'[c] = [ena |-> on, int |-> hw[c].int \cup bits, moved |-> moved, fin |-> fin]
      /\ \A d \in Chan \ {c} : chan'[d] = chan[d] /\ hw'[d] = hw[d]
  BY DEF OnWire, Raise, Types, HostChannel
<1>2. /\ hw'[c].ena = on /\ hw'[c].int = hw[c].int \cup bits /\ hw'[c].fin = fin
  BY <1>1
<1>3. Raises(c)'
  BY <1>1, <1>2 DEF Wire, Raises
<1>4. ~stolen => Pends(c)'
  BY <1>1, <1>2 DEF Wire, Pends, Quiet
<1>5. ASSUME ~stolen PROVE Works(First(task.work))'
  <2> DEFINE d == First(task.work)
  <2>1. task'.pc = task.pc /\ First(task'.work) = d /\ task'.status = task.status
        /\ chan'[d] = chan[d] /\ pacing' = pacing
    OBVIOUS
  <2>2. At("handle")' => Ready(d)'
    BY <1>5, <2>1 DEF Wire, Works, At, Ready
  <2>3. At("recover")' => task'.status \subseteq hw'[d].int
    BY <1>1, <1>2, <1>5, <2>1 DEF Wire, Works, At, Raise, Types
  <2>4. At("delay")' => Quiet(d)' /\ Ready(d)'
    BY <1>1, <1>5, <2>1 DEF Wire, Works, At, Ready, Quiet, Raise, Types
  <2> QED
    BY <2>2, <2>3, <2>4 DEF Works
<1> QED
  BY <1>1, <1>3, <1>4, <1>5, WireOne

\* channel_irq on a channel that is ready.
LEMMA ChannelIrqWire ==
  ASSUME Types, Stages, NotOverfull, Wire, NEW c \in Busy, c = First(task.work),
         NEW status, NEW loop \in Loop, ChannelIrq(c, status, loop),
         ~stolen => Ready(c)
  PROVE  Wire'
<1>1. /\ c \in Chan /\ chan[c] \in Channel /\ hw[c] \in HostChannel /\ task \in Task
      /\ chan \in [Chan -> Channel] /\ hw \in [Chan -> HostChannel]
      /\ chan[c].request \in Req /\ Fits(chan[c]) /\ Raises(c)
      /\ ~stolen => Pends(c) /\ Ready(c)
  BY BusyHas DEF Types, Stages, Wire
<1>2. \/ Proceed(c, loop) \/ ThenNext(c, loop)
      => Works(First(task.work))'
  BY <1>1, Away DEF Proceed, ThenNext, Task, Loop
<1>3. CASE Rearmed(c, loop)
  <2>1. PICK now \in Channel :
            /\ now.request = chan[c].request /\ now.pending = chan[c].pending
            /\ now.nyets = 0 /\ Fits(now)
            /\ chan' = [chan EXCEPT ![c] = now] /\ hw' = [hw EXCEPT ![c] = ArmedHw]
            /\ pacing' = pacing /\ stolen' = stolen /\ Proceed(c, loop)
    BY <1>3 DEF Rearmed, OnlyChannel, history
  <2>2. /\ chan'[c] = now /\ hw'[c].int = {}
        /\ \A d \in Chan \ {c} : chan'[d] = chan[d] /\ hw'[d] = hw[d]
    BY <1>1, <2>1 DEF ArmedHw, IdleHw
  <2>3. Raises(c)'
    BY <2>2 DEF Raises
  <2>4. (now.split = "none") <=> (chan[c].split = "none")
    BY <1>1, <2>1 DEF Fits
  <2>5. ~stolen => Pends(c)'
    BY <1>1, <2>1, <2>2, <2>4, LimitAssumption DEF Pends, Ready
  <2> QED
    BY <1>1, <1>2, <2>1, <2>2, <2>3, <2>5, WireOne
<1>4. CASE Finish(c, loop) \/ Park(c, loop)
  <2>1. Release(c) /\ ThenNext(c, loop) /\ stolen' = stolen
    BY <1>4 DEF Finish, Park, history
  <2>2. /\ c \notin Busy' /\ pacing' \subseteq pacing
        /\ \A d \in Chan \ {c} : chan'[d] = chan[d] /\ hw'[d] = hw[d]
    BY <1>1, <2>1, FreeChanIs DEF Release, Busy
  <2> QED
    BY <1>1, <1>2, <2>1, <2>2, WireOne
<1>5. CASE SplitRestart(c, loop) /\ chan[c].split = "complete"
  <2>1. /\ chan' = [chan EXCEPT ![c] = [@ EXCEPT !.split = "start", !.nyets = 0, !.ticks = 0]]
        /\ hw' = [hw EXCEPT ![c] = Enabled(@)]
        /\ pacing' = pacing /\ stolen' = stolen /\ Proceed(c, loop)
    BY <1>5 DEF SplitRestart, OnlyChannel, history
  <2>2. /\ chan'[c].pending = chan[c].pending /\ chan'[c].nyets = 0 /\ hw'[c].int = {}
        /\ \A d \in Chan \ {c} : chan'[d] = chan[d] /\ hw'[d] = hw[d]
    BY <1>1, <2>1 DEF Enabled, Channel, HostChannel
  <2>3. Raises(c)'
    BY <2>2 DEF Raises
  <2>4. ~stolen => Pends(c)'
    BY <1>1, <1>5, <2>1, <2>2, LimitAssumption DEF Pends, Ready
  <2> QED
    BY <1>1, <1>2, <2>1, <2>2, <2>3, <2>4, WireOne
<1>6. CASE Stopped(c, loop)
  <2>1. /\ chan' = [chan EXCEPT ![c].retries = @ + 1] /\ hw' = [hw EXCEPT ![c] = IdleHw]
        /\ task' = [task EXCEPT !.pc = "delay", !.back = loop]
        /\ pacing' = pacing /\ stolen' = stolen
    BY <1>6 DEF Stopped, OnlyChannel, history
  <2>2. /\ chan'[c].pending = chan[c].pending /\ chan'[c].nyets = chan[c].nyets
        /\ chan'[c].split = chan[c].split /\ hw'[c].int = {} /\ ~hw'[c].ena
        /\ \A d \in Chan \ {c} : chan'[d] = chan[d] /\ hw'[d] = hw[d]
    BY <1>1, <2>1 DEF IdleHw, Channel
  <2>3. Raises(c)'
    BY <2>2 DEF Raises
  <2>4. ~stolen => Pends(c)' /\ Quiet(c)' /\ Ready(c)'
    BY <1>1, <2>1, <2>2 DEF Pends, Ready, Quiet
  <2>5. ~stolen => Works(First(task.work))'
    <3>1. task'.pc = "delay" /\ First(task'.work) = c
      BY <1>1, <2>1 DEF Task
    <3> QED
      BY <2>4, <3>1 DEF Works, At, Quiet, Ready
  <2> QED
    BY <1>1, <2>1, <2>2, <2>3, <2>4, <2>5, WireOne
<1>7. CASE Dismissed(c, status, loop)
  <2>1. /\ hw' = [hw EXCEPT ![c].int = @ \ status] /\ chan' = chan
        /\ pacing' = pacing /\ stolen' = stolen /\ Proceed(c, loop)
    BY <1>7 DEF Dismissed, OnlyChannel, history
  <2>2. /\ hw'[c].int \subseteq hw[c].int /\ hw'[c].ena = hw[c].ena /\ hw'[c].fin = hw[c].fin
        /\ \A d \in Chan \ {c} : chan'[d] = chan[d] /\ hw'[d] = hw[d]
    BY <1>1, <2>1 DEF HostChannel
  <2>3. Raises(c)'
    BY <1>1, <2>1, <2>2 DEF Raises
  <2>4. ~stolen => Pends(c)'
    BY <1>1, <2>1, <2>2 DEF Pends, Ready, Quiet
  <2> QED
    BY <1>1, <1>2, <2>1, <2>2, <2>3, <2>4, WireOne
<1> QED
  BY <1>3, <1>4, <1>5, <1>6, <1>7, ChannelIrqCases

\* The interrupt top half on one channel.
LEMMA TopHalfOne ==
  ASSUME Types, Stages, Wire, NEW starts \in BOOLEAN, TopHalf(starts), NEW c \in Busy
  PROVE  Raises(c)' /\ (~stolen => Pends(c)')
<1> DEFINE claimed == {d \in Raised : Claimed(d, hw[d].int)}
           now     == {d \in claimed : PaceOf(d) = 0}
<1>1. /\ c \in Chan /\ chan[c] \in Channel /\ hw[c] \in HostChannel
      /\ hw[c].int \in SUBSET Bit
      /\ Raises(c) /\ (~stolen => Pends(c))
  BY BusyHas DEF Wire, HostChannel
<1>2. /\ chan'[c] = IF c \in Raised THEN TakenChan(c, hw[c].int)
                    ELSE IF c \in Issued(starts) THEN IssueComplete(chan[c])
                    ELSE IF c \in Paced(starts) THEN [chan[c] EXCEPT !.delay = @ - 1]
                    ELSE chan[c]
      /\ hw'[c] = IF c \in Issued(starts) \cup now THEN Enabled(hw[c])
                  ELSE IF c \in Raised THEN [hw[c] EXCEPT !.int = {}] ELSE hw[c]
  BY <1>1 DEF TopHalf
<1>3. pacing' = ((IF starts THEN Paced(starts) \ Issued(starts) ELSE pacing)
                    \cup claimed) \ now
  BY DEF TopHalf
<1>4. /\ Issued(starts) \subseteq pacing /\ Paced(starts) \subseteq pacing
      /\ starts = FALSE => Issued(starts) = {}
      /\ claimed \subseteq Raised /\ now \subseteq claimed
      /\ \A d \in Raised : d \in claimed <=> Claimed(d, hw[d].int)
  BY DEF Issued, Paced
<1> HIDE DEF claimed, now
<1>5. \A d \in pacing' : d \in claimed \/ (d \in pacing /\ d \notin Issued(starts))
  BY <1>3, <1>4
<1>6. CASE c \in Raised
  <2>1. hw[c].int # {}
    BY <1>6 DEF Raised
  <2>2. hw'[c].int = {} /\ hw'[c].fin = hw[c].fin
    BY <1>1, <1>2, <1>6 DEF Enabled, HostChannel
  <2>3. ASSUME ~stolen
        PROVE  /\ c \notin pacing /\ c \notin Issued(starts) /\ ~Quiet(c)
               /\ "done" \notin chan[c].pending /\ chan[c].nyets <= NyetLimit
               /\ chan[c].pending # {} => chan[c].split = "none"
    BY <1>1, <1>4, <2>1, <2>3 DEF Pends, Quiet
  <2>4. CASE c \in claimed
    <3>1. Claimed(c, hw[c].int) /\ chan[c].split # "none"
      BY <1>4, <1>6, <2>4 DEF Claimed, Accepted, NotYet
    <3>2. chan'[c].pending = chan[c].pending /\ chan'[c].nyets <= NyetLimit
      BY <1>1, <1>2, <1>6, <3>1, TakenIs
    <3>3. ~hw[c].ena
      BY <1>1, <2>1, <3>1 DEF Raises
    <3>4. ASSUME ~stolen PROVE c \in pacing' => ~hw'[c].ena
      <4>1. c \in pacing' => c \notin now
        BY <1>3
      <4> QED
        BY <1>1, <1>2, <1>6, <2>3, <3>3, <3>4, <4>1 DEF HostChannel
    <3> QED
      BY <2>2, <2>3, <3>1, <3>2, <3>4 DEF Raises, Pends
  <2>5. CASE c \notin claimed
    <3>1. /\ chan'[c].pending = chan[c].pending \cup hw[c].int
          /\ chan'[c].split = chan[c].split
          /\ \/ chan'[c].nyets = chan[c].nyets
             \/ /\ chan'[c].nyets = chan[c].nyets + 1 /\ chan[c].nyets >= NyetLimit
                /\ "nyet" \in hw[c].int
      BY <1>1, <1>2, <1>4, <1>6, <2>5, TakenIs
    <3>2. ASSUME ~stolen PROVE c \notin pacing' /\ hw'[c].ena = hw[c].ena
      BY <1>1, <1>2, <1>4, <1>5, <1>6, <2>3, <2>5, <3>2 DEF HostChannel
    <3>3. ~stolen /\ ~hw[c].ena => Quiet(c)'
      BY <2>2, <3>2 DEF Quiet
    <3>4. ~stolen /\ chan'[c].split # "none" => Quiet(c)'
      BY <1>1, <2>1, <3>1, <3>3 DEF Raises
    <3>5. ~stolen /\ "done" \in chan'[c].pending => Quiet(c)' /\ hw'[c].fin
      BY <1>1, <2>2, <2>3, <3>1, <3>3 DEF Raises
    <3>6. ~stolen => chan'[c].nyets <= NyetLimit
                     \/ (Quiet(c)' /\ chan'[c].nyets = NyetLimit + 1)
      <4>1. chan[c].nyets \in Nat /\ NyetLimit \in Nat
        BY <1>1, LimitAssumption DEF Channel
      <4> QED
        BY <1>1, <2>3, <3>1, <3>3, <4>1 DEF Raises
    <3> QED
      BY <2>2, <3>2, <3>4, <3>5, <3>6 DEF Raises, Pends
  <2> QED
    BY <2>4, <2>5
<1>7. CASE c \notin Raised /\ c \in Issued(starts)
  <2>1. hw'[c].int = {} /\ c \notin pacing'
    BY <1>1, <1>2, <1>4, <1>5, <1>7 DEF Enabled, HostChannel
  <2>2. chan'[c].pending = chan[c].pending /\ chan'[c].nyets = chan[c].nyets
    BY <1>1, <1>2, <1>7 DEF IssueComplete, Channel
  <2>3. c \in pacing
    BY <1>4, <1>7
  <2> QED
    BY <1>1, <2>1, <2>2, <2>3 DEF Raises, Pends, Quiet
<1>8. CASE c \notin Raised /\ c \notin Issued(starts)
  <2>1. hw'[c] = hw[c] /\ (c \in pacing' => c \in pacing)
    BY <1>2, <1>4, <1>5, <1>8
  <2>2. /\ chan'[c].pending = chan[c].pending /\ chan'[c].nyets = chan[c].nyets
        /\ chan'[c].split = chan[c].split
    BY <1>1, <1>2, <1>8 DEF Channel
  <2> QED
    BY <1>1, <2>1, <2>2 DEF Raises, Pends, Quiet
<1> QED
  BY <1>6, <1>7, <1>8

\* The interrupt top half.
LEMMA TopHalfWire ==
  ASSUME Types, Stages, Walk, Gated, Wire, NEW starts \in BOOLEAN, TopHalf(starts)
  PROVE  Wire'
<1>1. Busy' = Busy
  BY TopHalfKeeps DEF Busy
<1>2. /\ stolen' = (stolen \/ (At("recover") /\ task.status # {}
                               /\ First(task.work) \in Raised))
      /\ task' = task /\ gate
  BY DEF TopHalf
<1>3. ASSUME NEW c \in Busy' PROVE Raises(c)' /\ (~stolen' => Pends(c)')
  BY <1>1, <1>2, TopHalfOne
<1>4. ASSUME ~stolen' PROVE Works(First(task.work))'
  <2> DEFINE d == First(task.work)
  <2>1. ~stolen /\ First(task'.work) = d /\ task'.pc = task.pc /\ task'.status = task.status
    BY <1>2, <1>4
  <2>2. ~At("handle")'
    BY <1>2 DEF Gated, Draining, At
  <2>3. ASSUME At("recover"), task.status # {} PROVE task.status \subseteq hw'[d].int
    <3>1. d \in Busy /\ d \in Chan /\ d \notin Raised /\ task.status \subseteq hw[d].int
      BY <1>2, <1>4, <2>1, <2>3 DEF Walk, Wire, Works, Busy
    <3>2. d \notin pacing
      BY <2>1, <2>3, <3>1 DEF Wire, Pends
    <3>3. hw'[d] = hw[d]
      BY <3>1, <3>2 DEF TopHalf, Issued, Paced
    <3> QED
      BY <3>1, <3>3
  <2>4. ASSUME At("delay") PROVE Quiet(d)' /\ Ready(d)'
    <3>1. d \in Busy /\ d \in Chan /\ Quiet(d) /\ Ready(d)
      BY <2>1, <2>4 DEF Walk, Wire, Works, Busy
    <3>2. d \notin Raised /\ d \notin pacing
      BY <3>1 DEF Raised, Quiet
    <3>3. hw'[d] = hw[d] /\ chan'[d] = chan[d] /\ d \notin pacing'
      BY <3>1, <3>2 DEF TopHalf, Issued, Paced
    <3> QED
      BY <2>1, <3>1, <3>3 DEF Quiet, Ready
  <2> QED
    BY <1>2, <2>1, <2>2, <2>3, <2>4 DEF Works, At
<1> QED
  BY <1>3, <1>4 DEF Wire

\* A request is started on a free channel, while the task is at none of its own.
LEMMA StartedWire ==
  ASSUME Types, Stages, Wire, NEW r \in Req, Started(r), UNCHANGED stolen,
         task'.pc \notin {"handle", "recover", "delay"}
  PROVE  Wire'
<1>1. PICK c \in Free, now \in Channel :
        /\ now.request = r /\ now.pending = {} /\ now.nyets = 0
        /\ chan' = [chan EXCEPT ![c] = now] /\ hw' = [hw EXCEPT ![c] = ArmedHw]
        /\ pacing' = pacing
  BY DEF Started
<1>2. /\ c \in Chan /\ c \notin pacing /\ chan'[c] = now /\ hw'[c].int = {}
      /\ \A d \in Chan \ {c} : chan'[d] = chan[d] /\ hw'[d] = hw[d]
  BY <1>1 DEF Free, Stages, Types, ArmedHw, IdleHw
<1>3. Raises(c)' /\ Pends(c)'
  BY <1>1, <1>2, LimitAssumption DEF Raises, Pends
<1> QED
  BY <1>1, <1>2, <1>3, WireOne, Away

\* Neither a channel nor its registers change.
LEMMA StillWire ==
  ASSUME Wire, UNCHANGED <<chanVars, stolen>>,
         UNCHANGED task \/ task'.pc \notin {"handle", "recover", "delay"}
  PROVE  Wire'
<1> USE DEF chanVars
<1>1. \A c \in Busy' : Raises(c)' /\ (~stolen => Pends(c)')
  BY DEF Wire, Busy, Raises, Pends, Quiet
<1>2. CASE UNCHANGED task
  <2>1. ~stolen => Works(First(task.work))'
    BY <1>2 DEF Wire, Works, At, Quiet, Ready
  <2> QED
    BY <1>1, <2>1 DEF Wire
<1>3. CASE task'.pc \notin {"handle", "recover", "delay"}
  BY <1>1, <1>3, Away DEF Wire
<1> QED
  BY <1>2, <1>3

\* An interrupt is about what its channel was armed with last.
LEMMA WireStep ==
  ASSUME Types, Stages, NotOverfull, Walk, Gated, Wire, [Next]_vars
  PROVE  Wire'
<1> USE DEF clientVars, queueVars, irqVars, timerVars, history
<1>2. task \in Task /\ chan \in [Chan -> Channel] /\ hw \in [Chan -> HostChannel]
  BY DEF Types
<1>3. ASSUME NEW r \in Req, BeginIO(r) \/ AbortIO(r) PROVE Wire'
  BY <1>3, StillWire DEF BeginIO, AbortIO
<1>4. ASSUME NEW c \in Chan, Answer(c) \/ Accept(c) \/ Hesitate(c) PROVE Wire'
  <2>1. OnWire(c) /\ UNCHANGED <<chan, pacing, task, stolen>>
    BY <1>4 DEF Answer, Accept, Hesitate, WireUnchanged
  <2>2. CASE Answer(c)
    <3>1. PICK moved : Raise(c, {"done", "halt"}, FALSE, moved, TRUE)
      BY <2>2 DEF Answer, Complete
    <3> QED
      BY <2>1, <3>1, WireRaise DEF Bit
  <2>3. CASE Accept(c)
    <3>1. CASE Raise(c, {"ack", "halt"}, FALSE, hw[c].moved, FALSE)
      BY <2>1, <3>1, WireRaise DEF Bit
    <3>2. CASE chan[c].split = "none" /\ Raise(c, {"ack"}, TRUE, hw[c].moved, FALSE)
      BY <2>1, <3>2, WireRaise DEF Bit
    <3> QED
      BY <2>3, <3>1, <3>2 DEF Accept
  <2>4. CASE Hesitate(c)
    <3>1. ASSUME NEW bits \in SUBSET Bit, "done" \notin bits,
                 Raise(c, bits, FALSE, hw[c].moved, FALSE)
          PROVE  Wire'
      BY <2>1, <3>1, WireRaise
    <3>2. CASE chan[c].split = "none" /\ Raise(c, {"nak"}, TRUE, hw[c].moved, FALSE)
      BY <2>1, <3>2, WireRaise DEF Bit
    <3> QED
      BY <2>4, <3>1, <3>2 DEF Hesitate, Refuse, Bit
  <2> QED
    BY <1>4, <2>2, <2>3, <2>4
<1>5. CASE Frame \/ Expire
  BY <1>5, StillWire DEF Frame, Expire
<1>6. CASE Wait
  BY <1>2, <1>6, StillWire DEF Wait, Task
<1>7. CASE Drain
  <2>1. task'.pc \in {"timer", "watch", "arm", "irqs", "sof"}
    BY <1>2, <1>7 DEF Drain, Goto, Task
  <2> QED
    BY <1>7, <2>1, StillWire DEF Drain
<1>8. CASE TakePending
  <2>1. CASE task.work = {}
    <3>1. task'.pc \in {"sof", "reopen"} /\ UNCHANGED <<chanVars, stolen>>
      BY <1>2, <1>8, <2>1 DEF TakePending, Task, chanVars
    <3> QED
      BY <3>1, StillWire
  <2>2. CASE task.work # {}
    <3>1. First(task.work) \in Chan
      BY <1>2, <2>2, FirstIs DEF Task
    <3>2. PICK c \in Chan : c = First(task.work)
      BY <3>1
    <3>3. /\ chan' = [chan EXCEPT ![c].pending = {}]
          /\ UNCHANGED <<pacing, hw, stolen>>
          /\ chan[c].pending = {} => Proceed(c, "irqs")
          /\ chan[c].pending # {} =>
                task' = [task EXCEPT !.pc = "handle", !.status = chan[c].pending]
      BY <1>8, <2>2, <3>2 DEF TakePending
    <3>4. /\ chan'[c].pending = {} /\ chan'[c].split = chan[c].split
          /\ chan'[c].nyets = chan[c].nyets /\ chan'[c].request = chan[c].request
          /\ \A d \in Chan \ {c} : chan'[d] = chan[d]
      BY <1>2, <3>2, <3>3 DEF Channel
    <3>5. c \in Busy' => Raises(c)' /\ (~stolen => Pends(c)')
      BY <3>3, <3>4 DEF Busy, Wire, Raises, Pends, Quiet
    <3>6. ASSUME ~stolen PROVE Works(First(task.work))'
      <4>1. CASE chan[c].pending = {}
        <5>1. task'.pc = "irqs"
          BY <1>2, <3>3, <4>1 DEF Proceed, Task
        <5> QED
          BY <5>1, Away
      <4>2. CASE chan[c].pending # {}
        <5>1. task'.pc = "handle" /\ task'.work = task.work
          BY <1>2, <3>3, <4>2 DEF Task
        <5>2. c \in Busy
          BY <4>2, FreeChanIs DEF Stages, Free
        <5>3. c \notin pacing
          BY <3>6, <4>2, <5>2 DEF Wire, Pends
        <5> QED
          BY <3>2, <3>3, <3>4, <5>1, <5>3 DEF Works, At, Ready
      <4> QED
        BY <4>1, <4>2
    <3> QED
      BY <3>3, <3>4, <3>5, <3>6, WireOne
  <2> QED
    BY <2>1, <2>2
<1>9. CASE Handle
  <2>1. PICK c \in Busy : c = First(task.work)
    BY <1>9 DEF Handle, Walk
  <2>2. ChannelIrq(c, task.status, "irqs") /\ (~stolen => Ready(c))
    BY <1>9, <2>1 DEF Handle, Wire, Works
  <2> QED
    BY <2>1, <2>2, ChannelIrqWire DEF Loop
<1>10. CASE Delay
  <2>1. PICK c \in Busy : c = First(task.work)
    BY <1>10 DEF Delay, Walk
  <2>2. /\ c \in Chan /\ (~stolen => Ready(c)) /\ chan[c] \in Channel
        /\ task'.pc \in {"irqs", "look"}
        /\ Arm(c, chan[c], chan[c].stage) /\ stolen' = stolen
    BY <1>2, <1>10, <2>1 DEF Delay, Walk, Wire, Works, Task, At, Busy
  <2> DEFINE now == Armed(chan[c], chan[c].stage)
  <2>3. /\ chan' = [chan EXCEPT ![c] = now] /\ hw' = [hw EXCEPT ![c] = ArmedHw]
        /\ pacing' = pacing
    BY <2>2 DEF Arm
  <2>4. /\ now.pending = chan[c].pending /\ now.nyets = 0
        /\ now.request = chan[c].request
        /\ now.split = IF Hub[now.request] = NoHub THEN "none" ELSE "start"
    BY <2>2 DEF Armed, Channel
  <2> HIDE DEF now
  <2>5. /\ chan'[c] = now /\ hw'[c].int = {}
        /\ \A d \in Chan \ {c} : chan'[d] = chan[d] /\ hw'[d] = hw[d]
    BY <1>2, <2>2, <2>3 DEF ArmedHw, IdleHw
  <2>6. (now.split = "none") <=> (chan[c].split = "none")
    BY <2>1, <2>4 DEF Stages, Fits
  <2>7. Raises(c)' /\ (~stolen => Pends(c)')
    BY <2>2, <2>3, <2>4, <2>5, <2>6, LimitAssumption DEF Raises, Pends, Ready
  <2> QED
    BY <2>2, <2>3, <2>5, <2>7, WireOne, Away
<1>11. CASE ServiceInSof \/ ServiceOnce
  <2>1. /\ UNCHANGED <<chanVars, stolen>>
        /\ UNCHANGED task \/ Goto("promote") \/ Goto("drain")
    BY <1>11 DEF ServiceInSof, ServiceOnce, Service
  <2> QED
    BY <1>2, <2>1, StillWire DEF Goto, Task
<1>12. ASSUME NEW r \in Req, Submit(r), UNCHANGED <<task, stolen>>,
              At("promote") \/ At("messages") \/ At("next")
       PROVE  Wire'
  <2>1. task'.pc \notin {"handle", "recover", "delay"}
    BY <1>12 DEF At
  <2> QED
    BY <1>12, <2>1, SubmitIs, StartedWire, StillWire
<1>13. CASE Promote
  <2>1. CASE Due # {} /\ Free # {}
    <3>1. PICK r \in Req : r = parked[FirstAt(parked, Due)]
      BY <2>1, HeadsAreRequests
    <3>2. Submit(r) /\ UNCHANGED <<task, stolen>>
      BY <1>13, <2>1, <3>1 DEF Promote
    <3> QED
      BY <1>12, <1>13, <3>2 DEF Promote
  <2>2. CASE ~(Due # {} /\ Free # {})
    BY <1>2, <1>13, <2>2, StillWire DEF Promote, Goto, Task
  <2> QED
    BY <2>1, <2>2
<1>14. CASE Reopen
  <2>1. task'.pc \in {"timer", "watch", "arm"} /\ UNCHANGED <<chanVars, stolen>>
    BY <1>2, <1>14 DEF Reopen, Goto, Task
  <2> QED
    BY <2>1, StillWire
<1>15. CASE StartNext
  <2>1. CASE UNCHANGED chanVars
    <3>1. UNCHANGED task \/ task'.pc \in Loop
      BY <1>2, <1>15 DEF StartNext, Walk, Task
    <3> QED
      BY <1>15, <2>1, <3>1, StillWire DEF StartNext, Loop
  <2>2. CASE queue # <<>> /\ Free # {} /\ SubmitOn(First(Free), Head(queue)) /\ UNCHANGED task
    <3>1. Head(queue) \in Req /\ Started(Head(queue))
      BY <2>2, HeadsAreRequests, SubmitOnIs
    <3>2. PICK r \in Req : Started(r)
      BY <3>1
    <3>3. task'.pc = "next" /\ UNCHANGED stolen
      BY <1>15, <2>2 DEF StartNext, At
    <3> QED
      BY <3>2, <3>3, StartedWire
  <2> QED
    BY <1>15, <2>1, <2>2 DEF StartNext, HeadArmable
<1>16. CASE CollectTimer
  <2>1. task'.pc \in {"drain", "aborts"}
    BY <1>2, <1>16 DEF CollectTimer, ToAborts, Task
  <2> QED
    BY <1>16, <2>1, StillWire DEF CollectTimer
<1>17. CASE Watch
  <2>1. task'.pc \in {"look", "aborts"}
    BY <1>2, <1>17 DEF Watch, ToAborts, Task
  <2> QED
    BY <1>17, <2>1, StillWire DEF Watch, OnlyTask
<1>18. CASE Look
  <2> DEFINE left == task.work \cap Busy
  <2>1. UNCHANGED <<chanVars, stolen>>
    BY <1>18 DEF Look, OnlyTask
  <2>2. CASE left = {}
    BY <1>2, <1>18, <2>1, <2>2, StillWire DEF Look, ToAborts, Task
  <2>3. CASE left # {}
    <3>1. task'.pc = "recover" /\ task'.work = left /\ task'.status = hw[First(left)].int
      BY <1>2, <1>18, <2>3 DEF Look, Task
    <3>2. Works(First(task.work))'
      BY <2>1, <3>1 DEF Works, At, chanVars
    <3>3. \A c \in Busy' : Raises(c)' /\ (~stolen => Pends(c)')
      BY <2>1 DEF Wire, Busy, Raises, Pends, Quiet, chanVars
    <3> QED
      BY <2>1, <3>2, <3>3 DEF Wire
  <2> QED
    BY <2>2, <2>3
<1>19. ASSUME NEW c \in Chan, NEW loop \in Loop, AbortChannel(c, loop) PROVE Wire'
  <2>1. /\ c \notin Busy' /\ pacing' \subseteq pacing /\ UNCHANGED stolen
        /\ \A d \in Chan \ {c} : chan'[d] = chan[d] /\ hw'[d] = hw[d]
    BY <1>2, <1>19, FreeChanIs DEF AbortChannel, Busy
  <2>2. task'.pc = "next"
    BY <1>2, <1>19 DEF AbortChannel, ThenNext, Task
  <2> QED
    BY <2>1, <2>2, WireOne, Away
<1>20. CASE Recover
  <2>1. PICK c \in Busy : c = First(task.work)
    BY <1>20 DEF Recover, Walk
  <2>2. c \in Chan
    BY <2>1 DEF Busy
  <2>3. CASE task.status # {} /\ ChannelIrq(c, task.status, "look")
    <3>1. ~stolen => Ready(c)
      <4>1. ~stolen => hw[c].int # {} /\ Pends(c)
        BY <1>20, <2>1, <2>3 DEF Recover, Wire, Works
      <4> QED
        BY <4>1 DEF Ready, Pends, Quiet
    <3> QED
      BY <2>1, <2>3, <3>1, ChannelIrqWire DEF Loop
  <2>4. CASE AbortChannel(c, "look")
    BY <1>19, <2>2, <2>4 DEF Loop
  <2>5. CASE /\ chan' = [chan EXCEPT ![c].ticks = @ + 1] /\ Proceed(c, "look")
             /\ OnlyChannel /\ UNCHANGED <<pacing, hw>>
    <3>1. /\ chan'[c].pending = chan[c].pending /\ chan'[c].split = chan[c].split
          /\ chan'[c].nyets = chan[c].nyets
          /\ \A d \in Chan \ {c} : chan'[d] = chan[d]
      BY <1>2, <2>2, <2>5 DEF Channel
    <3>2. Raises(c)' /\ (~stolen => Pends(c)')
      BY <2>1, <2>5, <3>1 DEF Wire, Raises, Pends, Quiet
    <3>3. task'.pc = "look" /\ UNCHANGED stolen
      BY <1>2, <2>5 DEF Proceed, Task, OnlyChannel
    <3> QED
      BY <2>2, <2>5, <3>1, <3>2, <3>3, WireOne, Away
  <2> QED
    BY <1>20, <2>1, <2>3, <2>4, <2>5 DEF Recover
<1>21. CASE Aborts
  <2> DEFINE left == {c \in task.work \cap Busy : chan[c].request \in aborted}
  <2>1. CASE left # {}
    <3>1. First(left) \in Chan
      <4>1. left \in SUBSET Chan
        BY DEF Busy
      <4> QED
        BY <2>1, <4>1, FirstIs
    <3>2. PICK c \in Chan : AbortChannel(c, "aborts")
      BY <1>21, <2>1, <3>1 DEF Aborts
    <3> QED
      BY <1>19, <3>2 DEF Loop
  <2>2. CASE left = {}
    <3>1. task'.pc = "messages" /\ UNCHANGED <<chanVars, stolen>>
      BY <1>2, <1>21, <2>2 DEF Aborts, Task, OnlyTask
    <3> QED
      BY <3>1, StillWire
  <2> QED
    BY <2>1, <2>2
<1>22. CASE Messages
  <2>1. CASE port # <<>> /\ Submit(Head(port)) /\ UNCHANGED task
    <3>1. PICK r \in Req : r = Head(port)
      BY <2>1, HeadsAreRequests
    <3> QED
      BY <1>12, <1>22, <2>1, <3>1 DEF Messages
  <2>2. CASE UNCHANGED chanVars /\ (UNCHANGED task \/ Goto("service"))
    <3>1. UNCHANGED task \/ task'.pc = "service"
      BY <1>2, <2>2 DEF Goto, Task
    <3> QED
      BY <1>22, <2>2, <3>1, StillWire DEF Messages
  <2> QED
    BY <1>22, <2>1, <2>2 DEF Messages
<1>23. CASE ArmWatchdog
  <2>1. task'.pc = "wait"
    BY <1>2, <1>23 DEF ArmWatchdog, Goto, Task
  <2> QED
    BY <1>23, <2>1, StillWire DEF ArmWatchdog
<1>24. ASSUME NEW starts \in BOOLEAN, TopHalf(starts) PROVE Wire'
  BY <1>24, TopHalfWire
<1>25. CASE UNCHANGED vars
  BY <1>25, StillWire DEF vars
<1> QED
  BY <1>3, <1>4, <1>5, <1>6, <1>7, <1>8, <1>9, <1>10, <1>11, <1>13, <1>14, <1>15,
     <1>16, <1>17, <1>18, <1>20, <1>21, <1>22, <1>23, <1>24, <1>25 DEF Next, UnitTask

\* No split is answered "not yet" more often than the limit.
LEMMA Overlong ==
  ASSUME Types, Stages, Wire
  PROVE  NotOverlong
<1>1. ASSUME ~stolen, NEW c \in Chan PROVE chan[c].nyets <= NyetLimit + 1
  <2>1. chan[c].nyets \in Nat /\ NyetLimit \in Nat
    BY LimitAssumption DEF Types, Channel
  <2>2. CASE c \in Busy
    BY <1>1, <2>1, <2>2 DEF Wire, Pends
  <2>3. CASE c \notin Busy
    BY <2>1, <2>3 DEF Stages, Free, FreeChan
  <2> QED
    BY <2>2, <2>3
<1> QED
  BY <1>1 DEF NotOverlong

-----------------------------------------------------------------------------
(* What the task may not sleep in front of.                                *)

\* A step in the middle of a round leaves the timer alone and takes no signal.
LEMMA RoundWakeful ==
  ASSUME Wakeful, UNCHANGED <<timer, watchdog_active>>, sig \subseteq sig',
         task'.woken = task.woken, task'.after = task.after,
         port' # <<>> => port # <<>>, pacing' \subseteq pacing,
         UNCHANGED sof \/ (pacing' # {} => sof'),
         ComesToPort => ComesToPort',
         At("service") => At("service")' \/ (pacing' # {} => sof'),
         queue' # <<>> => Busy' # {} \/ At("next")', ~At("wait")'
  PROVE  Wakeful'
<1>1. port' # <<>> => "port" \in sig' \/ ComesToPort'
  BY DEF Wakeful
<1>2. pacing' # {} /\ ~sof' => "port" \in sig' \/ ComesToPort' \/ At("service")'
  BY DEF Wakeful
<1>3. /\ timer' # "idle" => watchdog_active'
      /\ timer' = "replied" => "timer" \in sig' \/ (task'.woken /\ task'.after = "timer")
      /\ task'.woken => task'.after = "timer"
  BY DEF Wakeful
<1> QED
  BY <1>1, <1>2, <1>3 DEF Wakeful, At

\* One channel after another, start_next between them.
LEMMA LoopComes ==
  ASSUME Types, NEW c, NEW loop \in Loop,
         \/ Proceed(c, loop) \/ ThenNext(c, loop)
         \/ task' = [task EXCEPT !.pc = "delay", !.back = loop],
         At("aborts") => loop = "aborts" /\ ThenNext(c, loop), ~At("messages"), ~At("next")
  PROVE  /\ task'.woken = task.woken /\ task'.after = task.after
         /\ task'.pc \in {"next", "delay", loop} /\ ~At("wait")'
         /\ ThenNext(c, loop) => At("next")'
         /\ ComesToPort => ComesToPort'
<1>1. task \in Task
  BY DEF Types
<1>2. CASE Proceed(c, loop)
  <2>1. task'.pc = loop /\ task'.woken = task.woken /\ task'.after = task.after
    BY <1>1, <1>2 DEF Proceed, Task
  <2>2. ThenNext(c, loop) => At("next")'
    BY <1>1 DEF ThenNext, Task, At
  <2> QED
    BY <2>1, <2>2 DEF ComesToPort, At, Loop
<1>3. CASE ThenNext(c, loop)
  <2>1. task'.pc = "next" /\ task'.back = loop
        /\ task'.woken = task.woken /\ task'.after = task.after
    BY <1>1, <1>3 DEF ThenNext, Task
  <2> QED
    BY <2>1 DEF ComesToPort, At
<1>4. CASE task' = [task EXCEPT !.pc = "delay", !.back = loop] /\ ~ThenNext(c, loop)
  <2>1. task'.pc = "delay" /\ task'.woken = task.woken /\ task'.after = task.after
    BY <1>1, <1>4 DEF Task
  <2> QED
    BY <1>4, <2>1 DEF ComesToPort, At
<1> QED
  BY <1>2, <1>3, <1>4

\* Whatever channel_irq does, the task does not miss what it must come back for.
LEMMA ChannelIrqWakeful ==
  ASSUME Types, Stages, NotOverfull, Wakeful, NEW c \in Busy, NEW status,
         NEW loop \in Loop, ChannelIrq(c, status, loop), At("handle") \/ At("recover")
  PROVE  Wakeful'
<1> USE DEF queueVars, timerVars, chanVars
<1>1. c \in Chan /\ chan[c] \in Channel /\ chan[c].request # NoReq
  BY BusyHas, RequestAssumption
<1>2. ~At("aborts") /\ ~At("messages") /\ ~At("next") /\ ~At("service")
  BY DEF At
<1>3. ASSUME UNCHANGED <<timer, watchdog_active, sig, port, queue>>, pacing' \subseteq pacing,
             UNCHANGED sof \/ UpdateSof,
             \/ ThenNext(c, loop)
             \/ Busy' = Busy /\ Proceed(c, loop)
             \/ Busy' = Busy /\ task' = [task EXCEPT !.pc = "delay", !.back = loop]
      PROVE  Wakeful'
  <2>1. /\ task'.woken = task.woken /\ task'.after = task.after /\ ~At("wait")'
        /\ ThenNext(c, loop) => At("next")'
        /\ ComesToPort => ComesToPort'
    BY <1>2, <1>3, LoopComes
  <2>2. queue' # <<>> => Busy' # {} \/ At("next")'
    BY <1>2, <1>3, <2>1 DEF Wakeful
  <2>3. UNCHANGED sof \/ (pacing' # {} => sof')
    BY <1>3 DEF UpdateSof, SofWanted
  <2> QED
    BY <1>2, <1>3, <2>1, <2>2, <2>3, RoundWakeful
<1>4. ASSUME NEW now, chan' = [chan EXCEPT ![c] = now], now.request = chan[c].request
      PROVE  Busy' = Busy
  BY <1>1, <1>4 DEF Busy, Types
<1>5. CASE Rearmed(c, loop)
  <2>1. Busy' = Busy
    BY <1>4, <1>5 DEF Rearmed
  <2> QED
    BY <1>3, <1>5, <2>1 DEF Rearmed, OnlyChannel
<1>6. CASE Finish(c, loop)
  BY <1>3, <1>6 DEF Finish, Release
<1>7. CASE Park(c, loop)
  BY <1>3, <1>7 DEF Park, Release
<1>8. CASE SplitRestart(c, loop)
  <2> DEFINE now == [chan[c] EXCEPT !.split = "start", !.nyets = 0, !.ticks = 0]
  <2>1. now.request = chan[c].request /\ chan' = [chan EXCEPT ![c] = now]
    BY <1>1, <1>8 DEF SplitRestart, Channel
  <2>2. Busy' = Busy
    BY <1>4, <2>1
  <2> QED
    BY <1>3, <1>8, <2>2 DEF SplitRestart, OnlyChannel
<1>9. CASE Stopped(c, loop)
  <2> DEFINE now == [chan[c] EXCEPT !.retries = @ + 1]
  <2>1. now.request = chan[c].request /\ chan' = [chan EXCEPT ![c] = now]
    BY <1>1, <1>9 DEF Stopped, Types, Channel
  <2>2. Busy' = Busy
    BY <1>4, <2>1
  <2> QED
    BY <1>3, <1>9, <2>2 DEF Stopped, OnlyChannel
<1>10. CASE Dismissed(c, status, loop)
  <2>1. Busy' = Busy
    BY <1>10 DEF Dismissed, Busy
  <2> QED
    BY <1>3, <1>10, <2>1 DEF Dismissed, OnlyChannel
<1> QED
  BY <1>5, <1>6, <1>7, <1>8, <1>9, <1>10, ChannelIrqCases

\* While no channel is busy anything may be armed.
LEMMA QueuesBehind ==
  ASSUME Types, Stages, NEW r
  PROVE  ~MayArm(r) \/ Free = {} => Busy # {}
  BY LimitAssumption DEF MayArm, Free, Chan

\* The interrupt signals the task, or leaves nothing new to be woken for.
LEMMA TopHalfWakeful ==
  ASSUME Types, Stages, Wakeful, NEW starts \in BOOLEAN, TopHalf(starts)
  PROVE  Wakeful'
<1> USE DEF queueVars, clientVars, timerVars
<1>1. Busy' = Busy
  BY TopHalfKeeps DEF Busy
<1>2. /\ UNCHANGED <<port, queue, parked, sof, timer, watchdog_active, task>>
      /\ sig \subseteq sig' /\ (Raised # {} => "port" \in sig')
  BY DEF TopHalf, Active
<1>3. pacing' \subseteq pacing \cup Raised
  BY DEF TopHalf, Paced
<1>4. pacing' # {} /\ ~sof' => "port" \in sig' \/ ComesToPort' \/ At("service")'
  BY <1>2, <1>3 DEF Wakeful, ComesToPort, At
<1> QED
  BY <1>1, <1>2, <1>4 DEF Wakeful, ComesToPort, At

\* A request is begun on a channel that was free, or joins the queue.
LEMMA SubmitWakeful ==
  ASSUME Types, Stages, Wakeful, NEW r \in Req, Submit(r), ~At("wait"),
         UNCHANGED <<timer, watchdog_active, sig, task, sof>>, port' # <<>> => port # <<>>
  PROVE  Wakeful'
<1>1. Busy' # {}
  <2>1. CASE Started(r)
    <3>1. PICK c \in Free, now \in Channel :
            now.request = r /\ chan' = [chan EXCEPT ![c] = now]
      BY <2>1 DEF Started
    <3>2. c \in Busy'
      BY <3>1, RequestAssumption DEF Busy, Free, Types
    <3> QED
      BY <3>2
  <2>2. CASE (~MayArm(r) \/ Free = {}) /\ UNCHANGED chanVars
    <3>1. Busy # {} /\ Busy' = Busy
      BY <2>2, QueuesBehind DEF chanVars, Busy
    <3> QED
      BY <3>1
  <2> QED
    BY <2>1, <2>2, SubmitIs
<1>2. pacing' = pacing
  BY SubmitIs DEF Started, chanVars
<1> QED
  BY <1>1, <1>2, RoundWakeful DEF ComesToPort, At

\* The task never gets to sleep in front of work.
LEMMA WakefulStep ==
  ASSUME Types, Stages, NotOverfull, Walk, Gated, Wakeful, [Next]_vars
  PROVE  Wakeful'
<1> USE DEF clientVars, queueVars, chanVars, irqVars, timerVars, history
<1>1. task \in Task /\ sof \in BOOLEAN /\ sig \subseteq {"port", "timer"}
  BY DEF Types
<1>2. ASSUME UNCHANGED <<port, queue, parked, pacing, sof, chan, task, timer, watchdog_active>>,
             sig \subseteq sig'
      PROVE  Wakeful'
  BY <1>2 DEF Wakeful, ComesToPort, At, Busy
<1>3. ASSUME NEW r \in Req, BeginIO(r) \/ AbortIO(r) PROVE Wakeful'
  <2>1. /\ "port" \in sig' /\ sig \subseteq sig'
        /\ UNCHANGED <<queue, parked, pacing, sof, chan, task, timer, watchdog_active>>
    BY <1>3 DEF BeginIO, AbortIO
  <2> QED
    BY <2>1 DEF Wakeful, At, Busy
<1>4. ASSUME NEW c \in Chan, Answer(c) \/ Accept(c) \/ Hesitate(c) PROVE Wakeful'
  BY <1>2, <1>4 DEF Answer, Accept, Hesitate, WireUnchanged
<1>5. CASE Frame
  BY <1>2, <1>5 DEF Frame
<1>6. CASE Expire
  <2>1. /\ timer = "sent" /\ timer' = "replied" /\ sig' = sig \cup {"timer"}
        /\ UNCHANGED <<port, queue, parked, pacing, sof, chan, task, watchdog_active>>
    BY <1>6 DEF Expire
  <2> QED
    BY <2>1 DEF Wakeful, ComesToPort, At, Busy
<1>7. CASE Wait
  <2>1. /\ task'.pc = "drain" /\ task'.after = "timer"
        /\ task'.woken = ("timer" \in sig)
    BY <1>1, <1>7 DEF Wait, Task
  <2>2. timer = "replied" => "timer" \in sig
    BY <1>7 DEF Wait, Wakeful, Walk, At
  <2>3. /\ UNCHANGED <<port, queue, parked, pacing, sof, chan, timer, watchdog_active>>
        /\ At("wait")
    BY <1>7 DEF Wait
  <2> QED
    BY <2>1, <2>2, <2>3 DEF Wakeful, ComesToPort, At, Busy
<1>8. ASSUME UNCHANGED <<port, queue, parked, chan, pacing, timer, watchdog_active, sig>>,
             task'.woken = task.woken, task'.after = task.after,
             UNCHANGED sof \/ UpdateSof, At("service") => UpdateSof,
             ~At("aborts"), ~At("next"), ~At("messages"), ~At("wait")'
      PROVE  Wakeful'
  <2>1. Busy' = Busy /\ (pacing' # {} /\ UpdateSof => sof')
    BY <1>8 DEF Busy, UpdateSof, SofWanted
  <2>2. ComesToPort => ComesToPort'
    BY <1>8 DEF ComesToPort
  <2>3. port' # <<>> => "port" \in sig' \/ ComesToPort'
    BY <1>8, <2>2 DEF Wakeful
  <2>4. pacing' # {} /\ ~sof' => "port" \in sig' \/ ComesToPort'
    BY <1>8, <2>1, <2>2 DEF Wakeful
  <2>5. queue' # <<>> => Busy' # {}
    BY <1>8, <2>1 DEF Wakeful
  <2> QED
    BY <1>8, <2>3, <2>4, <2>5 DEF Wakeful, At
<1>9. CASE Drain
  <2>1. task'.woken = task.woken /\ task'.after = task.after /\ ~At("wait")'
    BY <1>1, <1>9 DEF Drain, Goto, Task, At
  <2> QED
    BY <1>8, <1>9, <2>1 DEF Drain, At
<1>10. CASE TakePending
  <2>1. task'.woken = task.woken /\ task'.after = task.after /\ ~At("wait")'
    BY <1>1, <1>10 DEF TakePending, Proceed, Task, At
  <2>2. Busy' = Busy
    <3>1. CASE UNCHANGED chan
      BY <3>1 DEF Busy
    <3>2. CASE chan' = [chan EXCEPT ![First(task.work)].pending = {}]
      BY <3>2 DEF Busy, Types, Channel
    <3> QED
      BY <1>10, <3>1, <3>2 DEF TakePending
  <2>3. UNCHANGED <<port, queue, parked, pacing, sof, timer, watchdog_active, sig>>
    BY <1>10 DEF TakePending
  <2>4. ~At("aborts") /\ ~At("messages") /\ ~At("next") /\ ~At("service")
    BY <1>10 DEF TakePending, At
  <2>5. (ComesToPort => ComesToPort') /\ (queue' # <<>> => Busy' # {})
    BY <2>1, <2>2, <2>3, <2>4 DEF ComesToPort, Wakeful
  <2> QED
    BY <2>1, <2>3, <2>4, <2>5, RoundWakeful
<1>11. CASE Handle
  <2>1. First(task.work) \in Busy
    BY <1>11 DEF Handle, Walk
  <2> QED
    BY <1>11, <2>1, ChannelIrqWakeful DEF Handle, Loop
<1>12. CASE Delay
  <2>1. /\ task'.woken = task.woken /\ task'.after = task.after /\ ~At("wait")'
        /\ ~At("aborts") /\ ~At("messages") /\ ~At("next") /\ ~At("service")
    BY <1>1, <1>12 DEF Delay, Walk, Task, At
  <2>2. Busy' = Busy /\ pacing' = pacing
    <3>1. First(task.work) \in Busy /\ Arm(First(task.work), chan[First(task.work)],
                                           chan[First(task.work)].stage)
      BY <1>12 DEF Delay, Walk
    <3> QED
      BY <3>1 DEF Arm, Armed, Busy, Types, Channel
  <2>3. /\ UNCHANGED <<port, queue, parked, sof, watchdog_active>>
        /\ \/ UNCHANGED <<timer, sig>>
           \/ timer' = "idle" /\ sig' = sig \ {"timer"}
    BY <1>12 DEF Delay
  <2>4. /\ "port" \in sig => "port" \in sig'
        /\ ComesToPort => ComesToPort'
    BY <2>1, <2>3 DEF ComesToPort
  <2>5. /\ timer' # "idle" => watchdog_active'
        /\ timer' = "replied" => "timer" \in sig' \/ (task'.woken /\ task'.after = "timer")
    BY <2>1, <2>3 DEF Wakeful
  <2> QED
    BY <2>1, <2>2, <2>3, <2>4, <2>5 DEF Wakeful
<1>13. CASE ServiceInSof \/ ServiceOnce
  <2>1. CASE Range(parked) \cap aborted # {}
    <3>1. /\ UNCHANGED <<port, queue, pacing, chan, sof, task, timer, watchdog_active, sig>>
          /\ ~At("wait")
      BY <1>13, <2>1 DEF ServiceInSof, ServiceOnce, Service, At
    <3> QED
      BY <3>1 DEF Wakeful, ComesToPort, At, Busy
  <2>2. CASE Range(parked) \cap aborted = {}
    <3>1. /\ UNCHANGED <<port, queue, parked, pacing, chan, timer, watchdog_active, sig>>
          /\ UpdateSof /\ task.pc \in {"sof", "service"} /\ task'.pc \in {"promote", "drain"}
          /\ task'.woken = task.woken /\ task'.after = task.after
      BY <1>1, <1>13, <2>2 DEF ServiceInSof, ServiceOnce, Service, At, Goto, Task
    <3> QED
      BY <1>8, <3>1 DEF At
  <2> QED
    BY <2>1, <2>2
<1>14. CASE Promote
  <2>1. CASE Due # {} /\ Free # {}
    <3>1. PICK r \in Req : r = parked[FirstAt(parked, Due)]
      BY <2>1, HeadsAreRequests
    <3>2. /\ Submit(r) /\ ~At("wait")
          /\ UNCHANGED <<port, timer, watchdog_active, sig, task, sof>>
      BY <1>14, <2>1, <3>1 DEF Promote, At
    <3> QED
      BY <3>2, SubmitWakeful
  <2>2. CASE ~(Due # {} /\ Free # {})
    <3>1. /\ UNCHANGED <<port, queue, parked, pacing, chan, timer, watchdog_active, sig>>
          /\ UpdateSof /\ task.pc = "promote" /\ task'.pc = "reopen"
          /\ task'.woken = task.woken /\ task'.after = task.after
      BY <1>1, <1>14, <2>2 DEF Promote, At, Goto, Task
    <3> QED
      BY <1>8, <3>1 DEF At
  <2> QED
    BY <2>1, <2>2
<1>15. CASE Reopen
  <2>1. /\ UNCHANGED <<port, queue, parked, pacing, chan, timer, watchdog_active, sig, sof>>
        /\ task.pc = "reopen" /\ task'.pc \in {"timer", "watch", "arm"}
        /\ task'.woken = task.woken /\ task'.after = task.after
    BY <1>1, <1>15 DEF Reopen, At, Goto, Task
  <2> QED
    BY <1>8, <2>1 DEF At
<1>16. CASE StartNext
  <2>1. /\ At("next") /\ task.back \in Loop
        /\ UNCHANGED <<port, parked, sof, timer, watchdog_active, sig>>
    BY <1>16 DEF StartNext, Walk
  <2>2. CASE UNCHANGED task
    <3>1. UNCHANGED pacing
      BY <1>16 DEF StartNext, SubmitOn, Arm
    <3>2. ~At("wait")' /\ At("next")' /\ (ComesToPort => ComesToPort') /\ ~At("service")
      BY <2>1, <2>2 DEF At, ComesToPort
    <3> QED
      BY <2>1, <2>2, <3>1, <3>2, RoundWakeful
  <2>3. CASE /\ Free = {} \/ ~(HeadAborted \/ HeadArmable)
             /\ task' = [task EXCEPT !.pc = task.back, !.back = "reopen"]
             /\ UNCHANGED <<queue, out, chanVars>>
    <3>1. /\ task'.pc = task.back /\ task'.woken = task.woken /\ task'.after = task.after
          /\ ~At("wait")' /\ ~At("service") /\ ~At("aborts") /\ ~At("messages")
      BY <1>1, <2>1, <2>3 DEF Task, At, Loop
    <3>2. ComesToPort => ComesToPort'
      BY <2>1, <3>1 DEF ComesToPort, At
    <3>3. queue # <<>> => Busy # {}
      BY <2>3, QueuesBehind DEF HeadArmable
    <3>4. UNCHANGED <<queue, pacing, Busy>>
      BY <2>3 DEF Busy
    <3> QED
      BY <2>1, <3>1, <3>2, <3>3, <3>4, RoundWakeful
  <2> QED
    BY <1>16, <2>2, <2>3 DEF StartNext
<1>17. CASE CollectTimer
  <2>1. /\ UNCHANGED <<port, queue, parked, pacing, chan, sof, sig>> /\ At("timer")
    BY <1>17 DEF CollectTimer
  <2>2. CASE task.woken /\ watchdog_active
    <3>1. /\ timer' = "idle" /\ watchdog_active' = FALSE
          /\ task'.pc = "drain" /\ task'.after = "watch" /\ task'.woken = FALSE
      BY <1>1, <1>17, <2>2 DEF CollectTimer, Task
    <3> QED
      BY <2>1, <3>1 DEF Wakeful, ComesToPort, At, Busy
  <2>3. CASE ~(task.woken /\ watchdog_active)
    <3>1. /\ UNCHANGED <<timer, watchdog_active>>
          /\ task'.pc = "aborts" /\ task'.woken = FALSE
      BY <1>1, <1>17, <2>3 DEF CollectTimer, ToAborts, Task
    <3> QED
      BY <2>1, <2>3, <3>1 DEF Wakeful, ComesToPort, At, Busy
  <2> QED
    BY <2>2, <2>3
<1>18. ASSUME UNCHANGED <<port, queue, parked, pacing, chan, sof, timer, watchdog_active, sig>>,
              task.pc \in {"watch", "look"}, task'.woken = task.woken,
              \/ task'.pc \in {"look", "recover"} /\ task'.after = task.after
              \/ task'.pc = "aborts"
       PROVE  Wakeful'
  <2>1. ~task.woken /\ task.after = "watch"
    BY <1>18 DEF Walk, Wakeful
  <2>2. ComesToPort'
    BY <1>18, <2>1 DEF ComesToPort, At
  <2> QED
    BY <1>18, <2>1, <2>2 DEF Wakeful, At, Busy
<1>19. CASE Watch
  BY <1>1, <1>18, <1>19 DEF Watch, ToAborts, At, OnlyTask, Task
<1>20. CASE Look
  BY <1>1, <1>18, <1>20 DEF Look, ToAborts, At, OnlyTask, Task
<1>21. ASSUME NEW c, NEW loop \in Loop, AbortChannel(c, loop), At("recover") \/ At("aborts"),
              At("aborts") => loop = "aborts"
       PROVE  Wakeful'
  <2>1. /\ ThenNext(c, loop) /\ pacing' \subseteq pacing /\ ~At("messages") /\ ~At("next")
        /\ ~At("service") /\ UNCHANGED <<port, queue, sof, timer, watchdog_active, sig>>
    BY <1>21 DEF AbortChannel, At
  <2>2. /\ task'.woken = task.woken /\ task'.after = task.after /\ ~At("wait")'
        /\ At("next")' /\ (ComesToPort => ComesToPort')
    BY <1>21, <2>1, LoopComes
  <2> QED
    BY <2>1, <2>2, RoundWakeful
<1>22. CASE Recover
  <2> DEFINE c == First(task.work)
  <2>1. At("recover") /\ c \in Busy
    BY <1>22 DEF Recover, Walk
  <2>2. CASE ChannelIrq(c, task.status, "look")
    BY <2>1, <2>2, ChannelIrqWakeful DEF Loop
  <2>3. CASE AbortChannel(c, "look")
    <3>1. ~At("aborts")
      BY <2>1 DEF At
    <3> QED
      BY <1>21, <2>1, <2>3, <3>1 DEF Loop
  <2>4. CASE /\ chan' = [chan EXCEPT ![c].ticks = @ + 1]
             /\ Proceed(c, "look") /\ OnlyChannel /\ UNCHANGED <<pacing, hw, timerVars>>
    <3>1. Busy' = Busy
      BY <2>4 DEF Busy, Types, Channel
    <3>2. ~At("aborts") /\ ~At("messages") /\ ~At("next") /\ ~At("service")
      BY <2>1 DEF At
    <3>3. /\ task'.woken = task.woken /\ task'.after = task.after /\ ~At("wait")'
          /\ (ComesToPort => ComesToPort')
      BY <2>4, <3>2, LoopComes DEF Loop
    <3>4. queue' # <<>> => Busy' # {}
      BY <2>4, <3>1, <3>2 DEF Wakeful, OnlyChannel
    <3> QED
      BY <2>4, <3>2, <3>3, <3>4, RoundWakeful DEF OnlyChannel
  <2> QED
    BY <1>22, <2>2, <2>3, <2>4 DEF Recover
<1>23. CASE Aborts
  <2>1. ASSUME NEW c, AbortChannel(c, "aborts") PROVE Wakeful'
    BY <1>21, <1>23, <2>1 DEF Aborts, Loop
  <2>2. CASE task' = [task EXCEPT !.pc = "messages", !.work = {}] /\ OnlyTask
    <3>1. task'.pc = "messages" /\ task'.woken = task.woken /\ task'.after = task.after
          /\ ~At("next") /\ ~At("service")
      BY <1>1, <1>23, <2>2 DEF Aborts, Task, At
    <3>2. ComesToPort' /\ ~At("wait")'
      BY <3>1 DEF ComesToPort, At
    <3>3. queue' # <<>> => Busy' # {}
      BY <2>2, <3>1 DEF Wakeful, OnlyTask, Busy
    <3> QED
      BY <2>2, <3>1, <3>2, <3>3, RoundWakeful DEF OnlyTask
  <2> QED
    BY <1>23, <2>1, <2>2 DEF Aborts
<1>24. CASE Messages
  <2>1. At("messages") /\ ~At("wait")
    BY <1>24 DEF Messages, At
  <2>2. CASE port = <<>> /\ Goto("service") /\ UNCHANGED <<out, chanVars, port, queue>>
    <3>1. task'.pc = "service" /\ task'.woken = task.woken /\ task'.after = task.after
      BY <1>1, <2>2 DEF Goto, Task
    <3>2. UNCHANGED <<timer, watchdog_active, sig, sof, parked>>
      BY <1>24 DEF Messages
    <3> QED
      BY <2>1, <2>2, <3>1, <3>2 DEF Wakeful, ComesToPort, At, Busy
  <2>3. CASE port # <<>> /\ UNCHANGED <<chanVars, queue, task>>
    <3>1. UNCHANGED <<timer, watchdog_active, sig, sof, parked>>
      BY <1>24 DEF Messages
    <3> QED
      BY <2>1, <2>3, <3>1 DEF Wakeful, ComesToPort, At, Busy
  <2>4. CASE port # <<>> /\ Submit(Head(port)) /\ UNCHANGED <<out, task>>
    <3>1. PICK r \in Req : r = Head(port)
      BY <2>4, HeadsAreRequests
    <3>2. UNCHANGED <<timer, watchdog_active, sig, sof>>
      BY <1>24 DEF Messages
    <3> QED
      BY <2>1, <2>4, <3>1, <3>2, SubmitWakeful
  <2> QED
    BY <1>24, <2>2, <2>3, <2>4 DEF Messages
<1>25. CASE ArmWatchdog
  <2>1. /\ UNCHANGED <<port, queue, parked, pacing, chan, sof, sig>> /\ At("arm")
        /\ task'.pc = "wait" /\ task'.woken = task.woken /\ task'.after = task.after
    BY <1>1, <1>25 DEF ArmWatchdog, Goto, Task
  <2>2. ~ComesToPort /\ task.after = "arm"
    BY <2>1 DEF ComesToPort, At, Walk
  <2>3. \/ timer' = "sent" /\ watchdog_active'
        \/ UNCHANGED <<timer, watchdog_active>> /\ (Unfinished => watchdog_active)
    BY <1>25 DEF ArmWatchdog
  <2> QED
    BY <2>1, <2>2, <2>3 DEF Wakeful, At, Busy, Unfinished
<1>26. ASSUME NEW starts \in BOOLEAN, TopHalf(starts) PROVE Wakeful'
  BY <1>26, TopHalfWakeful
<1>27. CASE UNCHANGED vars
  BY <1>2, <1>27 DEF vars
<1> QED
  BY <1>3, <1>4, <1>5, <1>6, <1>7, <1>9, <1>10, <1>11, <1>12, <1>13, <1>14, <1>15,
     <1>16, <1>17, <1>19, <1>20, <1>22, <1>23, <1>24, <1>25, <1>26, <1>27
     DEF Next, UnitTask

-----------------------------------------------------------------------------
(* The invariant and what follows from it.                                 *)

\* No split is answered "not yet" more often than the limit, after the step.
LEMMA OverlongStep ==
  ASSUME Types', Stages', Wire'
  PROVE  NotOverlong'
<1>1. ASSUME ~stolen', NEW c \in Chan PROVE chan'[c].nyets <= NyetLimit + 1
  <2>1. chan'[c].nyets \in Nat /\ NyetLimit \in Nat
    BY LimitAssumption DEF Types, Channel
  <2>2. CASE c \in Busy'
    BY <1>1, <2>1, <2>2 DEF Wire, Pends
  <2>3. CASE c \notin Busy'
    BY <2>1, <2>3 DEF Stages, Free, FreeChan
  <2> QED
    BY <2>2, <2>3
<1> QED
  BY <1>1 DEF NotOverlong

\* The driver starts within its invariant.
LEMMA InitInv ==
  ASSUME Init
  PROVE  IInv
<1>1. \A c \in Chan : chan[c] = FreeChan /\ hw[c] = IdleHw
  BY DEF Init
<1>2. Busy = {} /\ Free = Chan
  BY <1>1, FreeChanIs DEF Busy, Free
<1>3. Types
  <2>1. chan \in [Chan -> Channel] /\ hw \in [Chan -> HostChannel]
    BY FreeChanIs DEF Init, HostChannel, IdleHw
  <2>2. /\ uses \in [Req -> 0..MaxUses] /\ due \in [Req -> 0..Interval]
        /\ faults \in 0..MaxFaults
    BY LimitAssumption DEF Init
  <2>3. task \in Task
    BY DEF Init, Task, Label, Loop
  <2>4. port \in Seq(Req) /\ queue \in Seq(Req) /\ parked \in Seq(Req)
    BY DEF Init
  <2> QED
    BY <2>1, <2>2, <2>3, <2>4 DEF Init, Types
<1>4. NotOverfull /\ NotOverlong
  BY <1>1, <1>2, LimitAssumption DEF NotOverfull, NotOverlong, FreeChan
<1>5. Places
  <2>1. port = <<>> /\ queue = <<>> /\ parked = <<>> /\ out = {}
    BY DEF Init
  <2>2. Range(<<>>) = {} /\ IsInjective(<<>>)
    BY DEF Range, IsInjective
  <2>3. InFlight = {}
    BY <1>2 DEF InFlight
  <2> QED
    BY <1>2, <2>1, <2>2, <2>3 DEF Places, Waiting
<1>6. Stages
  BY <1>1, <1>2 DEF Stages, Init
<1>7. task.pc = "wait" /\ task.after = "arm" /\ task.woken = FALSE
  BY DEF Init
<1>8. Walk
  BY <1>7 DEF Walk, At
<1>9. Gated
  BY <1>7 DEF Init, Gated, Draining, At
<1>10. Wire
  BY <1>2, <1>7 DEF Wire, Works, At
<1>11. Wakeful
  BY <1>2, <1>7 DEF Init, Wakeful, At
<1> QED
  BY <1>3, <1>4, <1>5, <1>6, <1>8, <1>9, <1>10, <1>11 DEF IInv, TypeOK

\* Every step keeps it.
LEMMA InvStep ==
  ASSUME IInv, [Next]_vars
  PROVE  IInv'
<1>1. /\ Types /\ NotOverfull /\ NotOverlong /\ Places /\ Stages /\ Walk /\ Gated
      /\ Wire /\ Wakeful
  BY DEF IInv, TypeOK
<1>2. Types' /\ NotOverfull' /\ Stages'
  BY <1>1, TypesStep, StagesStep
<1>3. Wire'
  BY <1>1, WireStep
<1>4. NotOverlong'
  BY <1>2, <1>3, OverlongStep
<1>5. Places'
  BY <1>1, PlacesStep
<1>6. Walk' /\ Gated'
  BY <1>1, WalkStep, GatedStep
<1>7. Wakeful'
  BY <1>1, WakefulStep
<1> QED
  BY <1>2, <1>3, <1>4, <1>5, <1>6, <1>7 DEF IInv, TypeOK

\* The inductive invariant holds in every behaviour.
THEOREM Inductive ==
  Spec => []IInv
<1>1. Init => IInv
  BY InitInv
<1>2. IInv /\ [Next]_vars => IInv'
  BY InvStep
<1> QED
  BY <1>1, <1>2, PTL DEF Spec

\* Every variable keeps its type; no transfer moves more than it was asked to, and
\* unless the watchdog and the top half handled one status between them no split
\* is answered "not yet" beyond the limit after which the stage starts over.
THEOREM TypeCorrect ==
  Spec => []TypeOK
<1>1. IInv => TypeOK
  BY DEF IInv
<1> QED
  BY <1>1, Inductive, PTL

\* What two sets with no member in common hold together.
LEMMA SumOfTwo ==
  ASSUME NEW S, NEW T, IsFiniteSet(S), IsFiniteSet(T), S \cap T = {}
  PROVE  IsFiniteSet(S \cup T) /\ Cardinality(S \cup T) = Cardinality(S) + Cardinality(T)
<1>1. /\ IsFiniteSet(S \cup T)
      /\ Cardinality(S \cup T) = Cardinality(S) + Cardinality(T) - Cardinality(S \cap T)
  BY FS_Union
<1>2. Cardinality(S \cap T) = 0
  BY FS_EmptySet
<1>3. Cardinality(S) \in Nat /\ Cardinality(T) \in Nat
  BY FS_CardinalityType
<1> QED
  BY <1>1, <1>2, <1>3

\* As many requests are out as there are places taken on the lists and channels.
LEMMA OutIsSum ==
  ASSUME Types, Places
  PROVE  OneOwner
<1>1. /\ IsFiniteSet(Range(port)) /\ Cardinality(Range(port)) = Len(port)
      /\ IsFiniteSet(Range(queue)) /\ Cardinality(Range(queue)) = Len(queue)
      /\ IsFiniteSet(Range(parked)) /\ Cardinality(Range(parked)) = Len(parked)
  BY LengthIsSize DEF Types, Places
<1>3. IsFiniteSet(Busy)
  <2>1. IsFiniteSet(Chan)
    BY LimitAssumption, FS_Interval DEF Chan
  <2> QED
    BY <2>1, FS_Subset DEF Busy
<1>4. IsFiniteSet(InFlight) /\ Cardinality(InFlight) = Cardinality(Busy)
  <2> DEFINE f == [c \in Busy |-> chan[c].request]
  <2>1. f \in Bijection(Busy, InFlight)
    <3>1. f \in [Busy -> InFlight] /\ \A r \in InFlight : \E c \in Busy : f[c] = r
      BY DEF InFlight
    <3>2. \A c, d \in Busy : f[c] = f[d] => c = d
      BY DEF Places
    <3> HIDE DEF f
    <3> QED
      BY <3>1, <3>2 DEF Bijection, Injection, Surjection, IsInjective
  <2>2. ExistsBijection(Busy, InFlight)
    BY <2>1 DEF ExistsBijection
  <2> QED
    BY <1>3, <2>2, FS_Bijection
<1>6. /\ IsFiniteSet(Range(port) \cup Range(queue))
      /\ Cardinality(Range(port) \cup Range(queue)) = Len(port) + Len(queue)
  <2>1. Range(port) \cap Range(queue) = {}
    BY DEF Places
  <2> QED
    BY <1>1, <2>1, SumOfTwo
<1>7. /\ IsFiniteSet(Waiting)
      /\ Cardinality(Waiting) = Len(port) + Len(queue) + Len(parked)
  <2>1. (Range(port) \cup Range(queue)) \cap Range(parked) = {}
        /\ Waiting = (Range(port) \cup Range(queue)) \cup Range(parked)
    BY DEF Places, Waiting
  <2> DEFINE both == Range(port) \cup Range(queue)
  <2>2. IsFiniteSet(both) /\ Cardinality(both) = Len(port) + Len(queue)
    BY <1>6
  <2>3. both \cap Range(parked) = {} /\ Waiting = both \cup Range(parked)
    BY <2>1
  <2> HIDE DEF both
  <2>4. /\ IsFiniteSet(both \cup Range(parked))
        /\ Cardinality(both \cup Range(parked)) = Cardinality(both) + Cardinality(Range(parked))
    BY <1>1, <2>2, <2>3, SumOfTwo
  <2> QED
    BY <1>1, <2>2, <2>3, <2>4
<1>8. Cardinality(out) = Len(port) + Len(queue) + Len(parked) + Cardinality(Busy)
  <2>1. Waiting \cap InFlight = {} /\ out = Waiting \cup InFlight
    BY DEF Places
  <2>2. Cardinality(Waiting \cup InFlight) = Cardinality(Waiting) + Cardinality(InFlight)
    BY <1>4, <1>7, <2>1, SumOfTwo
  <2> QED
    BY <1>4, <1>7, <2>1, <2>2
<1> QED
  BY <1>8 DEF OneOwner, Places

\* A transfer has exactly one owner, and a completion that is taken of a channel
\* is that of what the channel was armed with last, unless the watchdog and the
\* top half handled one status between them.
THEOREM OneOwnerOneCompletion ==
  Spec => []OwnCompletion
<1>1. IInv => OwnCompletion
  <2> SUFFICES ASSUME IInv PROVE OwnCompletion
    OBVIOUS
  <2>1. OneOwner
    BY OutIsSum DEF IInv, TypeOK
  <2>2. CompletionIsOurs
    BY DEF IInv, Wire, Raises, Pends, CompletionIsOurs
  <2> QED
    BY <2>1, <2>2 DEF OwnCompletion
<1> QED
  BY <1>1, Inductive, PTL

\* The task never sleeps in front of work: whatever waits for it while it has no
\* signal, an interrupt, a start of frame or the watchdog's timer will bring one.
THEOREM NeverSleepsOnWork ==
  Spec => []SleepsSafely
<1>1. IInv => SleepsSafely
  <2> SUFFICES ASSUME IInv, At("wait"), sig = {}
               PROVE  /\ gate /\ irq = {} /\ flagged = {} /\ port = <<>>
                      /\ pacing # {} => sof
                      /\ queue # <<>> => Busy # {}
                      /\ Busy # {} \/ parked # <<>> => timer = "sent" \/ Lost
    BY DEF SleepsSafely
  <2>1. ~ComesToPort /\ ~Draining /\ ~At("drain") /\ ~At("next") /\ ~At("service")
        /\ task.after = "arm"
    BY DEF IInv, Walk, ComesToPort, Draining, At
  <2>2. gate /\ irq = {} /\ flagged = {}
    BY <2>1 DEF IInv, Gated
  <2>3. port = <<>> /\ (pacing # {} => sof) /\ (queue # <<>> => Busy # {})
    BY <2>1 DEF IInv, Wakeful
  <2>4. Busy # {} \/ parked # <<>> => timer = "sent" \/ Lost
    <3>1. timer \in {"idle", "sent", "replied"} /\ timer # "replied"
      BY <2>1 DEF IInv, TypeOK, Types, Wakeful
    <3>2. Busy # {} \/ parked # <<>> => watchdog_active
      BY DEF IInv, Wakeful
    <3> QED
      BY <3>1, <3>2 DEF Lost
  <2> QED
    BY <2>2, <2>3, <2>4
<1> QED
  BY <1>1, Inductive, PTL

-----------------------------------------------------------------------------
(* The engine implements UsbRequests.                                      *)

\* What a step may do to the requests, in terms of where they are.
Begun(r)     == r \notin out /\ out' = out \cup {r} /\ UNCHANGED InFlight
Armable(r)   == /\ r \in out \ InFlight /\ MayArm(r)
                /\ InFlight' = InFlight \cup {r} /\ UNCHANGED out
Suspended(r) == /\ r \in InFlight /\ Kind[r] = "int"
                /\ InFlight' = InFlight \ {r} /\ UNCHANGED out
Replied(r)   == r \in out /\ out' = out \ {r} /\ InFlight' = InFlight \ {r}
Moves == \/ UNCHANGED <<InFlight, out>>
         \/ \E r \in Req : Begun(r) \/ Armable(r) \/ Suspended(r) \/ Replied(r)

\* The state of UsbRequests that the engine's stands for.
StateOf == [r \in Req |-> IF r \in InFlight THEN "active"
                          ELSE IF r \in out THEN "waiting" ELSE "client"]

\* What channel_irq does to the requests.
LEMMA ChannelIrqMoves ==
  ASSUME Types, NotOverfull, Stages, Places, NEW c \in Busy, NEW status, NEW loop,
         ChannelIrq(c, status, loop)
  PROVE  Moves
<1> DEFINE r == chan[c].request
<1>1. c \in Chan /\ chan[c] \in Channel /\ r \in Req
  BY BusyHas
<1>2. ASSUME NEW now, now.request = r, chan' = [chan EXCEPT ![c] = now],
             UNCHANGED <<out, port, queue, parked>>
      PROVE  Moves
  <2>1. \A d \in Chan : chan'[d].request = chan[d].request
    BY <1>1, <1>2 DEF Types
  <2> QED
    BY <1>2, <2>1, NothingMoved DEF Moves
<1>3. ASSUME chan' = [chan EXCEPT ![c] = FreeChan]
      PROVE  InFlight' = InFlight \ {r} /\ r \in InFlight /\ r \in out
  BY <1>3, InFlightLoses
<1>4. CASE Rearmed(c, loop)
  BY <1>2, <1>4 DEF Rearmed, OnlyChannel, clientVars, queueVars
<1>5. CASE Finish(c, loop)
  <2>1. Replied(r)
    BY <1>3, <1>5 DEF Finish, Release, Replied
  <2> QED
    BY <1>1, <2>1 DEF Moves
<1>6. CASE Park(c, loop) /\ Kind[r] = "int"
  <2>1. Suspended(r)
    BY <1>3, <1>6 DEF Park, Release, Suspended, clientVars
  <2> QED
    BY <1>1, <2>1 DEF Moves
<1>7. CASE SplitRestart(c, loop)
  <2> DEFINE now == [chan[c] EXCEPT !.split = "start", !.nyets = 0, !.ticks = 0]
  <2>1. chan' = [chan EXCEPT ![c] = now] /\ UNCHANGED <<out, port, queue, parked>>
    BY <1>7 DEF SplitRestart, OnlyChannel, clientVars, queueVars
  <2>2. now.request = r
    BY <1>1 DEF Channel
  <2> QED
    BY <1>2, <2>1, <2>2
<1>8. CASE Stopped(c, loop)
  <2> DEFINE now == [chan[c] EXCEPT !.retries = @ + 1]
  <2>1. chan' = [chan EXCEPT ![c] = now] /\ UNCHANGED <<out, port, queue, parked>>
    BY <1>1, <1>8 DEF Stopped, OnlyChannel, clientVars, queueVars, Types
  <2>2. now.request = r
    BY <1>1 DEF Channel
  <2> QED
    BY <1>2, <2>1, <2>2
<1>9. CASE Dismissed(c, status, loop)
  <2>1. chan' = chan /\ UNCHANGED <<out, port, queue, parked>>
    BY <1>9 DEF Dismissed, OnlyChannel, clientVars, queueVars
  <2> QED
    BY <2>1, NothingMoved DEF Moves
<1> QED
  BY <1>4, <1>5, <1>6, <1>7, <1>8, <1>9, ChannelIrqCases

\* A request that waited is begun on a channel, or goes on waiting.
LEMMA SubmitMoves ==
  ASSUME Types, Stages, Places, NEW r \in Req, r \in Waiting, UNCHANGED out,
         (MayArm(r) /\ Started(r)) \/ UNCHANGED chanVars
  PROVE  Moves
<1>1. r \in out /\ r \notin InFlight
  BY DEF Places
<1>2. CASE MayArm(r) /\ Started(r)
  <2>1. Armable(r)
    BY <1>1, <1>2, InFlightGains DEF Armable
  <2> QED
    BY <2>1 DEF Moves
<1>3. CASE UNCHANGED chanVars
  BY <1>3 DEF Moves, InFlight, Busy, chanVars
<1> QED
  BY <1>2, <1>3

\* A request that waited is replied.
LEMMA ReplyMoves ==
  ASSUME Types, Places, NEW r \in Req, r \in Waiting, out' = out \ {r}, UNCHANGED chan
  PROVE  Moves
<1>1. r \in out /\ r \notin InFlight /\ InFlight' = InFlight
  BY DEF Places, InFlight, Busy
<1>2. Replied(r)
  BY <1>1 DEF Replied
<1> QED
  BY <1>2 DEF Moves

\* Every step of the engine moves one request or none.
LEMMA MovesStep ==
  ASSUME Types, NotOverfull, Stages, Places, Walk, [Next]_vars
  PROVE  Moves
<1> USE DEF clientVars, queueVars
<1>1. ASSUME UNCHANGED <<out, chan>> PROVE Moves
  BY <1>1 DEF Moves, InFlight, Busy
<1>2. ASSUME NEW r \in Req, BeginIO(r) \/ AbortIO(r) PROVE Moves
  <2>1. UNCHANGED InFlight
    BY <1>2 DEF BeginIO, AbortIO, InFlight, Busy, chanVars
  <2>2. CASE BeginIO(r)
    <3>1. Begun(r)
      BY <2>1, <2>2 DEF BeginIO, Begun
    <3> QED
      BY <3>1 DEF Moves
  <2>3. CASE AbortIO(r)
    BY <2>1, <2>3 DEF AbortIO, Moves
  <2> QED
    BY <1>2, <2>2, <2>3
<1>3. ASSUME NEW c \in Chan, Answer(c) \/ Accept(c) \/ Hesitate(c) PROVE Moves
  BY <1>1, <1>3 DEF Answer, Accept, Hesitate, WireUnchanged
<1>4. CASE Frame \/ Expire \/ Wait \/ Drain \/ Reopen \/ CollectTimer \/ ArmWatchdog
  BY <1>1, <1>4 DEF Frame, Expire, Wait, Drain, Reopen, CollectTimer, ArmWatchdog, chanVars
<1>5. CASE Watch \/ Look
  BY <1>1, <1>5 DEF Watch, Look, OnlyTask, chanVars
<1>6. CASE TakePending
  <2>1. UNCHANGED out
    BY <1>6 DEF TakePending
  <2>2. \A c \in Chan : chan'[c].request = chan[c].request
    <3>1. CASE chan' = [chan EXCEPT ![First(task.work)].pending = {}]
      BY <3>1 DEF Types, Channel
    <3> QED
      BY <1>6, <3>1 DEF TakePending
  <2>3. UNCHANGED InFlight
    <3>1. Busy' = Busy /\ Busy \subseteq Chan
      BY <2>2 DEF Busy
    <3> QED
      BY <2>2, <3>1 DEF InFlight
  <2> QED
    BY <2>1, <2>3 DEF Moves
<1>7. CASE Handle
  BY <1>7, ChannelIrqMoves DEF Handle, Walk, At
<1>8. CASE Delay
  <2>1. \A c \in Chan : chan'[c].request = chan[c].request
    BY <1>8 DEF Delay, Arm, Armed, Types, Channel
  <2>2. UNCHANGED <<out, port, queue, parked>>
    BY <1>8 DEF Delay
  <2> QED
    BY <2>1, <2>2, NothingMoved DEF Moves
<1>9. CASE ServiceInSof \/ ServiceOnce
  <2>1. CASE Range(parked) \cap aborted # {}
    <3>1. FirstAt(parked, aborted) \in 1..Len(parked)
      BY <2>1, FirstAtIs DEF Types
    <3>2. PICK i \in 1..Len(parked) : out' = out \ {parked[i]}
      BY <1>9, <2>1, <3>1 DEF ServiceInSof, ServiceOnce, Service
    <3>3. parked[i] \in Req /\ parked[i] \in Waiting
      BY <3>2, WithoutPlace DEF Types, Waiting
    <3>4. UNCHANGED chan
      BY <1>9 DEF ServiceInSof, ServiceOnce, Service, chanVars
    <3> QED
      BY <3>2, <3>3, <3>4, ReplyMoves
  <2>2. CASE Range(parked) \cap aborted = {}
    BY <1>1, <1>9, <2>2 DEF ServiceInSof, ServiceOnce, Service, chanVars
  <2> QED
    BY <2>1, <2>2
<1>10. CASE Promote
  <2>1. CASE Due # {} /\ Free # {}
    <3>1. PICK r \in Req : r = parked[FirstAt(parked, Due)] /\ r \in Due
      BY <2>1, HeadsAreRequests
    <3>2. Submit(r) /\ UNCHANGED out /\ r \in Waiting
      BY <1>10, <2>1, <3>1 DEF Promote, Due, Waiting
    <3> QED
      BY <3>2, SubmitIs, SubmitMoves
  <2>2. CASE ~(Due # {} /\ Free # {})
    BY <1>1, <1>10, <2>2 DEF Promote, chanVars
  <2> QED
    BY <2>1, <2>2
<1>11. CASE StartNext
  <2>1. ASSUME queue # <<>>
        PROVE  Head(queue) \in Req /\ Head(queue) \in Waiting
    BY <2>1, TailPlace DEF Types, Waiting
  <2>2. CASE HeadAborted /\ out' = out \ {Head(queue)} /\ UNCHANGED chanVars
    BY <2>1, <2>2, ReplyMoves DEF HeadAborted, chanVars
  <2>3. CASE Free # {} /\ HeadArmable /\ SubmitOn(First(Free), Head(queue)) /\ UNCHANGED out
    <3>1. PICK r \in Req : r = Head(queue) /\ r \in Waiting
      BY <2>1, <2>3 DEF HeadArmable
    <3>2. MayArm(r) /\ Started(r)
      BY <2>3, <3>1, SubmitOnIs DEF HeadArmable
    <3> QED
      BY <2>3, <3>1, <3>2, SubmitMoves
  <2>4. CASE UNCHANGED <<queue, out, chanVars>>
    BY <1>1, <2>4 DEF chanVars
  <2> QED
    BY <1>11, <2>2, <2>3, <2>4 DEF StartNext
<1>12. ASSUME NEW c \in Busy, NEW loop, AbortChannel(c, loop) PROVE Moves
  <2>1. chan[c].request \in Req /\ Replied(chan[c].request)
    BY <1>12, InFlightLoses DEF AbortChannel, Replied
  <2> QED
    BY <2>1 DEF Moves
<1>13. CASE Recover
  <2>1. PICK c \in Busy : c = First(task.work)
    BY <1>13 DEF Recover, Walk, At
  <2>2. CASE ChannelIrq(c, task.status, "look")
    BY <2>2, ChannelIrqMoves
  <2>3. CASE AbortChannel(c, "look")
    BY <1>12, <2>3
  <2>4. CASE chan' = [chan EXCEPT ![c].ticks = @ + 1] /\ OnlyChannel
    <3>1. \A d \in Chan : chan'[d].request = chan[d].request
      BY <2>4 DEF Types, Channel
    <3> QED
      BY <2>4, <3>1, NothingMoved DEF Moves, OnlyChannel
  <2> QED
    BY <1>13, <2>1, <2>2, <2>3, <2>4 DEF Recover
<1>14. CASE Aborts
  <2> DEFINE left == {c \in task.work \cap Busy : chan[c].request \in aborted}
  <2>1. CASE left # {} /\ AbortChannel(First(left), "aborts")
    <3>1. First(left) \in Busy
      <4>1. left \in SUBSET Chan /\ left \subseteq Busy
        BY DEF Busy
      <4> HIDE DEF left
      <4> QED
        BY <2>1, <4>1, FirstIs
    <3> QED
      BY <1>12, <2>1, <3>1
  <2>2. CASE OnlyTask
    BY <1>1, <2>2 DEF OnlyTask, chanVars
  <2> QED
    BY <1>14, <2>1, <2>2 DEF Aborts
<1>15. CASE Messages
  <2>1. CASE port # <<>>
    <3>1. PICK r \in Req : r = Head(port) /\ r \in Waiting
      BY <2>1, TailPlace DEF Types, Waiting
    <3>2. CASE out' = out \ {r} /\ UNCHANGED chanVars
      BY <3>1, <3>2, ReplyMoves DEF chanVars
    <3>3. CASE Submit(r) /\ UNCHANGED out
      BY <3>1, <3>3, SubmitIs, SubmitMoves
    <3> QED
      BY <1>15, <2>1, <3>1, <3>2, <3>3 DEF Messages
  <2>2. CASE port = <<>>
    BY <1>1, <1>15, <2>2 DEF Messages, chanVars
  <2> QED
    BY <2>1, <2>2
<1>16. ASSUME NEW starts \in BOOLEAN, TopHalf(starts) PROVE Moves
  <2>1. \A c \in Chan : chan'[c].request = chan[c].request
    BY <1>16, TopHalfKeeps
  <2> QED
    BY <1>16, <2>1, NothingMoved DEF TopHalf, Moves
<1>17. CASE UNCHANGED vars
  BY <1>1, <1>17 DEF vars, chanVars
<1> QED
  BY <1>2, <1>3, <1>4, <1>5, <1>6, <1>7, <1>8, <1>9, <1>10, <1>11, <1>13,
     <1>14, <1>15, <1>16, <1>17 DEF Next, UnitTask

\* A move of one request is a step of UsbRequests.
LEMMA MovesAreSteps ==
  ASSUME Types, Types', Places, Moves
  PROVE  [Requests!Next]_StateOf
<1>1. InFlight \subseteq Req /\ InFlight' \subseteq Req /\ InFlight \subseteq out
  <2>1. InFlight \subseteq Req
    BY BusyHas DEF InFlight
  <2>2. InFlight' \subseteq Req
    BY DEF InFlight, Busy, Types, Channel
  <2> QED
    BY <2>1, <2>2 DEF Places
<1>2. StateOf' = [r \in Req |-> IF r \in InFlight' THEN "active"
                                ELSE IF r \in out' THEN "waiting" ELSE "client"]
  BY DEF StateOf
<1>3. CASE UNCHANGED <<InFlight, out>>
  <2>1. StateOf' = StateOf
    BY <1>2, <1>3 DEF StateOf
  <2> QED
    BY <2>1
<1>4. ASSUME NEW r \in Req, NEW from, NEW to, StateOf[r] = from,
             StateOf' = [StateOf EXCEPT ![r] = to]
      PROVE  Requests!Move(r, from, to)
  BY <1>4 DEF Requests!Move, StateOf
<1>5. ASSUME NEW r \in Req, Begun(r) PROVE Requests!Next
  <2>1. StateOf[r] = "client" /\ StateOf' = [StateOf EXCEPT ![r] = "waiting"]
    BY <1>1, <1>2, <1>5 DEF Begun, StateOf
  <2> QED
    BY <1>4, <2>1 DEF Requests!Next, Requests!Begin
<1>6. ASSUME NEW r \in Req, Armable(r) PROVE Requests!Next
  <2>1. StateOf[r] = "waiting" /\ StateOf' = [StateOf EXCEPT ![r] = "active"]
    BY <1>1, <1>2, <1>6 DEF Armable, StateOf
  <2>2. Requests!Active = InFlight
    BY <1>1 DEF Requests!Active, StateOf
  <2>3. MayArm(r)
    BY <1>6 DEF Armable
  <2>4. Requests!MayStart(r)
    BY <2>2, <2>3 DEF MayArm, InFlight, Requests!MayStart, Requests!SameEndpoint,
       Requests!SameHub
  <2> QED
    BY <1>4, <2>1, <2>4 DEF Requests!Next, Requests!Start
<1>7. ASSUME NEW r \in Req, Suspended(r) PROVE Requests!Next
  <2>1. StateOf[r] = "active" /\ StateOf' = [StateOf EXCEPT ![r] = "waiting"]
    BY <1>1, <1>2, <1>7 DEF Suspended, StateOf
  <2>2. Kind[r] = "int"
    BY <1>7 DEF Suspended
  <2> QED
    BY <1>4, <2>1, <2>2 DEF Requests!Next, Requests!Suspend
<1>8. ASSUME NEW r \in Req, Replied(r) PROVE Requests!Next
  <2>1. StateOf[r] \in {"active", "waiting"} /\ StateOf' = [StateOf EXCEPT ![r] = "client"]
    BY <1>1, <1>2, <1>8 DEF Replied, StateOf
  <2>2. Requests!Reply(r)
    BY <1>4, <2>1 DEF Requests!Reply
  <2> QED
    BY <2>2 DEF Requests!Next
<1> QED
  BY <1>3, <1>5, <1>6, <1>7, <1>8 DEF Moves

\* The engine implements UsbRequests: a request is in one place at a time and is
\* replied once, an endpoint carries one transfer, a translator one split, a
\* control transfer is started on a quiet bus, and only an interrupt request is
\* put back to wait.
THEOREM KeepsItsPromise ==
  Spec => Implements
<1>1. Init => Requests!Init
  <2> SUFFICES ASSUME Init PROVE Requests!Init
    OBVIOUS
  <2>1. InFlight = {} /\ out = {}
    BY FreeChanIs DEF Init, InFlight, Busy
  <2> QED
    BY <2>1 DEF Requests!Init
<1>2. IInv /\ IInv' /\ [Next]_vars => [Requests!Next]_StateOf
  <2> SUFFICES ASSUME IInv, IInv', [Next]_vars PROVE [Requests!Next]_StateOf
    OBVIOUS
  <2>1. Types /\ NotOverfull /\ Stages /\ Places /\ Walk /\ Types'
    BY DEF IInv, TypeOK
  <2>2. Moves
    BY <2>1, MovesStep
  <2> QED
    BY <2>1, <2>2, MovesAreSteps
<1> QED
  BY <1>1, <1>2, Inductive, PTL DEF Spec, Implements, Requests!Spec, StateOf
=============================================================================
