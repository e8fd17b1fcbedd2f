---------------------------- MODULE DriverProofs ----------------------------
(***************************************************************************)
(* What eight of the guest's drivers promise.                              *)
(*                                                                         *)
(* The mailbox (Mailbox): to any number of callers of any patience, where  *)
(* its two forms of a transaction are not mixed (Apart).  Where they are,  *)
(* a caller takes a splitter's reply off the FIFO and NoReplyLost fails.   *)
(*                                                                         *)
(* The card's bus (SdHost, here Card): for transfers of any length, a FIFO *)
(* of any depth and any number of commands.                                *)
(*                                                                         *)
(* The jobs of the 3D engine (V3dJobs, here V3d): for any set of clients,  *)
(* counters of any width and any number of pool sets.                      *)
(*                                                                         *)
(* The clock of the sound (PwmClock, here Clock): for any set of rates.    *)
(* The root hub of the previous USB driver (OtgRootHub, here Hub): for any *)
(* set of readers.                                                         *)
(*                                                                         *)
(* The bus of the wireless chip (SdioHost, here Sdio), its bring-up        *)
(* (WifiBringup, here Chip) and Bluetooth (BtUart, here Hci): for blocks,  *)
(* images, rings and packets of any size.                                  *)
(***************************************************************************)
EXTENDS Mailbox, SequenceTheorems, NaturalsInduction, WellFoundedInduction, TLAPS, Integers

CONSTANTS Blocks, FifoDepth, Commands, Shared
VARIABLES step, cmd, returned, buf, edge, bounce, dma, line, asked, blc, fifo,
          crossing, card, sent, stored, wrote
Card == INSTANCE SdHost WITH pc <- step, result <- returned, Depth <- FifoDepth

CONSTANTS Client, Pools, Count, Pressure, Hangs, Needs, Probes, MaxJobs
VARIABLES ct0, ct1, hung, BFC, RFC, INTCTL, bmoom, bpos, needs, pending_render, seqno,
          finished_seqno, last_bfc, last_rfc, bfc_completed, rfc_completed,
          overflow_handed, pool_seqno, pool_idx, built, render_lock, at, want, ret,
          probes, polling, signal, binned, rendered, killed
V3d == INSTANCE V3dJobs WITH pc <- at

CONSTANTS Rates, Refuses
VARIABLES phase, target, mailbox, claim, cm, got, again, owned
Clock == INSTANCE PwmClock WITH pc <- phase

-----------------------------------------------------------------------------
(* The FIFOs.                                                              *)

LEMMA Members ==
  ASSUME NEW q \in Seq(Task)
  PROVE  /\ Len(q) \in Nat /\ ToSet(q) \subseteq Task
         /\ \A t : t \in ToSet(q) <=> \E i \in 1..Len(q) : q[i] = t
BY DEF ToSet

\* A message goes in at the end.
LEMMA In ==
  ASSUME NEW q \in Seq(Task), NEW t \in Task
  PROVE  /\ Append(q, t) \in Seq(Task) /\ Len(Append(q, t)) = Len(q) + 1
         /\ ToSet(Append(q, t)) = ToSet(q) \cup {t}
         /\ \A u \in Task : /\ Once(q, u)
                            /\ u = t => t \notin ToSet(q)
                            => Once(Append(q, t), u)
<1> DEFINE w == Append(q, t)
<1>1. /\ w \in Seq(Task) /\ Len(w) = Len(q) + 1 /\ Len(q) \in Nat
      /\ \A i \in 1..Len(q) : w[i] = q[i]
      /\ w[Len(q) + 1] = t
  BY AppendProperties
<1> HIDE DEF w
<1>2. ASSUME NEW x \in ToSet(w) PROVE x \in ToSet(q) \cup {t}
  <2>1. PICK i \in 1..(Len(q) + 1) : w[i] = x
    BY <1>1, <1>2, Members
  <2>2. CASE i \in 1..Len(q)
    BY <1>1, <2>1, <2>2, Members
  <2>3. CASE i = Len(q) + 1
    BY <1>1, <2>1, <2>3
  <2> QED
    BY <1>1, <2>1, <2>2, <2>3
<1>3. ASSUME NEW x \in ToSet(q) \cup {t} PROVE x \in ToSet(w)
  <2>1. CASE x = t
    BY <1>1, <2>1, Members
  <2>2. CASE x \in ToSet(q)
    <3>1. PICK i \in 1..Len(q) : q[i] = x
      BY <2>2, Members
    <3> QED
      BY <1>1, <3>1, Members
  <2> QED
    BY <1>3, <2>1, <2>2
<1>4. ASSUME NEW u \in Task, Once(q, u), u = t => t \notin ToSet(q)
      PROVE  Once(w, u)
  <2>1. ASSUME NEW i \in 1..(Len(q) + 1), NEW j \in 1..(Len(q) + 1),
               w[i] = u, w[j] = u
        PROVE  i = j
    <3>1. CASE u = t
      <4>1. \A k \in 1..Len(q) : q[k] # t
        BY <1>4, <3>1, Members
      <4>2. i = Len(q) + 1 /\ j = Len(q) + 1
        BY <1>1, <2>1, <3>1, <4>1
      <4> QED
        BY <4>2
    <3>2. CASE u # t
      <4>1. i \in 1..Len(q) /\ j \in 1..Len(q)
        BY <1>1, <2>1, <3>2
      <4> QED
        BY <1>1, <1>4, <2>1, <4>1 DEF Once
    <3> QED
      BY <3>1, <3>2
  <2> QED
    BY <1>1, <2>1 DEF Once
<1> QED
  BY <1>1, <1>2, <1>3, <1>4 DEF w

\* The first message comes out.
LEMMA Out ==
  ASSUME NEW q \in Seq(Task), q # <<>>
  PROVE  /\ Tail(q) \in Seq(Task) /\ Len(Tail(q)) = Len(q) - 1
         /\ Head(q) \in Task /\ Head(q) \in ToSet(q)
         /\ ToSet(Tail(q)) \subseteq ToSet(q)
         /\ ToSet(q) \ {Head(q)} \subseteq ToSet(Tail(q))
         /\ \A u \in Task : Once(q, u) => /\ Once(Tail(q), u)
                                          /\ u = Head(q) => u \notin ToSet(Tail(q))
<1> DEFINE w == Tail(q)
           h == Head(q)
           n == Len(q)
<1>1. /\ h \in Task /\ w \in Seq(Task) /\ Len(w) = n - 1
      /\ \A i \in 1..(n - 1) : w[i] = q[i + 1]
      /\ n \in Nat \ {0} /\ h = q[1]
  BY HeadTailProperties
<1> HIDE DEF w, h
<1>2. h \in ToSet(q)
  BY <1>1, Members
<1>3. ASSUME NEW x \in ToSet(w) PROVE \E i \in 1..n : i # 1 /\ q[i] = x
  <2>1. PICK i \in 1..(n - 1) : w[i] = x
    BY <1>1, <1>3, Members
  <2>2. q[i + 1] = x /\ i + 1 \in 1..n /\ i + 1 # 1
    BY <1>1, <2>1
  <2> QED
    BY <2>2
<1>4. ASSUME NEW x \in ToSet(q) \ {h} PROVE x \in ToSet(w)
  <2>1. PICK i \in 1..n : q[i] = x
    BY <1>4, Members
  <2>2. i - 1 \in 1..(n - 1) /\ w[i - 1] = x
    BY <1>1, <1>4, <2>1
  <2> QED
    BY <1>1, <2>2, Members
<1>5. ASSUME NEW u \in Task, Once(q, u)
      PROVE  Once(w, u) /\ (u = h => u \notin ToSet(w))
  <2>1. Once(w, u)
    BY <1>1, <1>5 DEF Once
  <2>2. u = h => u \notin ToSet(w)
    BY <1>1, <1>3, <1>5 DEF Once
  <2> QED
    BY <2>1, <2>2
<1>6. ToSet(w) \subseteq ToSet(q)
  BY <1>3, Members
<1> QED
  BY <1>1, <1>2, <1>4, <1>5, <1>6 DEF w, h

-----------------------------------------------------------------------------
(* The steps.                                                              *)

USE DEF Goto, Return

LEMMA InitInv ==
  ASSUME MailAssumption, Init
  PROVE  IInv
<1>1. outbox \in Seq(Task) /\ Len(outbox) = 0 /\ ToSet(outbox) = {}
  BY DEF Init, ToSet
<1>2. inbox \in Seq(Task) /\ Len(inbox) = 0 /\ ToSet(inbox) = {}
  BY DEF Init, ToSet
<1>3. TypeOK
  BY <1>1, <1>2 DEF Init, TypeOK, MailAssumption
<1>4. Owned /\ NoReplyLost
  BY DEF Init, Owned, NoReplyLost, MailAssumption
<1>5. Fresh
  <2>1. \A t \in Task : Once(outbox, t) /\ Once(inbox, t)
    BY <1>1, <1>2 DEF Once
  <2>2. \A t \in Task : pc[t] = "idle" /\ result[t] # "asked" /\ serving # t
    BY DEF Init, MailAssumption, None
  <2> QED
    BY <1>1, <1>2, <2>1, <2>2 DEF Fresh, InOnePlace
<1> QED
  BY <1>3, <1>4, <1>5 DEF IInv

LEMMA TypeStep ==
  ASSUME MailAssumption, IInv, Next
  PROVE  TypeOK' /\ Owned'
<1> USE DEF IInv, TypeOK, Owned
<1>1. ASSUME NEW t \in Task, Build(t) PROVE TypeOK' /\ Owned'
  BY <1>1 DEF Build
<1>2. ASSUME NEW t \in Task, ObtainSemaphore(t) PROVE TypeOK' /\ Owned'
  BY <1>2 DEF ObtainSemaphore, Free, MailAssumption
<1>3. ASSUME NEW t \in Task, Write(t) PROVE TypeOK' /\ Owned'
  <2>1. outbox' \in Seq(Task) /\ Len(outbox') <= Depth
    BY <1>3, In DEF Write, MailAssumption
  <2>2. CASE t \in Callers
    BY <1>3, <2>1, <2>2 DEF Write, MailAssumption
  <2>3. CASE t \notin Callers
    BY <1>3, <2>1, <2>3 DEF Write, MailAssumption, Task
  <2> QED
    BY <2>2, <2>3
<1>4. ASSUME NEW t \in Task, Timeout(t) PROVE TypeOK' /\ Owned'
  BY <1>4 DEF Timeout, MailAssumption
<1>5. ASSUME NEW t \in Task, MBoxRead(t) PROVE TypeOK' /\ Owned'
  BY <1>5 DEF MBoxRead, MailAssumption
<1>6. ASSUME NEW t \in Task, Read(t) PROVE TypeOK' /\ Owned'
  <2>1. inbox' \in Seq(Task) /\ Len(inbox') <= Depth
    BY <1>6, Out DEF Read, MailAssumption
  <2>2. CASE Ours(t)
    <3>1. PICK r \in {None, "asked", "answered", "failed"} : Return(t, r)
      BY <1>6, <2>2 DEF Read
    <3> QED
      BY <1>6, <2>1, <3>1 DEF Read, MailAssumption
  <2>3. CASE ~Ours(t)
    BY <1>6, <2>1, <2>3 DEF Read
  <2> QED
    BY <2>2, <2>3
<1>7. CASE Take
  BY <1>7, Out DEF Take, MailAssumption
<1>8. CASE Answer
  <2>1. serving \in Task
    BY <1>8 DEF Answer
  <2>2. inbox' \in Seq(Task) /\ Len(inbox') <= Depth
    BY <1>8, <2>1, In DEF Answer, MailAssumption
  <2> QED
    BY <1>8, <2>1, <2>2 DEF Answer
<1> QED
  BY <1>1, <1>2, <1>3, <1>4, <1>5, <1>6, <1>7, <1>8 DEF Next

LEMMA FreshStep ==
  ASSUME MailAssumption, Apart, IInv, Next
  PROVE  Fresh'
<1> USE DEF IInv, TypeOK
<1> SUFFICES ASSUME NEW u \in Task \ late'
             PROVE  /\ InOnePlace(u)'
                    /\ pc'[u] \in {"idle", "obtain", "write"} =>
                         u \notin ToSet(outbox') \union ToSet(inbox') \union {serving'}
                    /\ u \in ToSet(inbox') => buffer'[u] = "answered"
                    /\ result'[u] # "asked"
  BY DEF Fresh
<1> DEFINE Goal == /\ InOnePlace(u)'
                   /\ pc'[u] \in {"idle", "obtain", "write"} =>
                        u \notin ToSet(outbox') \union ToSet(inbox') \union {serving'}
                   /\ u \in ToSet(inbox') => buffer'[u] = "answered"
                   /\ result'[u] # "asked"
<1>0. u \in Task \ late
  BY DEF Next, Build, ObtainSemaphore, Write, Timeout, MBoxRead, Read, Take, Answer
<1>f. /\ InOnePlace(u)
      /\ pc[u] \in {"idle", "obtain", "write"} =>
           u \notin ToSet(outbox) \union ToSet(inbox) \union {serving}
      /\ u \in ToSet(inbox) => buffer[u] = "answered"
      /\ result[u] # "asked"
  BY <1>0 DEF Fresh
<1>1. ASSUME NEW t \in Task, Build(t) PROVE Goal
  <2>1. /\ UNCHANGED <<outbox, inbox, serving>> /\ pc[t] = "idle"
        /\ result'[u] # "asked"
        /\ u # t => pc'[u] = pc[u] /\ buffer'[u] = buffer[u]
    BY <1>1, <1>f DEF Build, None
  <2>2. InOnePlace(u)'
    BY <1>f, <2>1 DEF InOnePlace, Once
  <2> QED
    BY <1>f, <2>1, <2>2
<1>2. ASSUME NEW t \in Task, ObtainSemaphore(t) \/ MBoxRead(t) PROVE Goal
  BY <1>2, <1>f DEF ObtainSemaphore, MBoxRead, InOnePlace, Once
<1>3. ASSUME NEW t \in Task, Write(t) PROVE Goal
  <2>1. /\ ToSet(outbox') = ToSet(outbox) \cup {t}
        /\ Once(outbox, u) /\ (u = t => t \notin ToSet(outbox)) => Once(outbox', u)
    BY <1>3, In DEF Write, Once
  <2>2. /\ UNCHANGED <<inbox, serving, buffer, result>>
        /\ pc[t] = "write" /\ pc'[t] \in {"read", "between"}
        /\ \A v \in Task : v # t => pc'[v] = pc[v]
    BY <1>3 DEF Write
  <2>3. Once(inbox, u)' <=> Once(inbox, u)
    BY <2>2 DEF Once
  <2> QED
    BY <1>f, <2>1, <2>2, <2>3 DEF InOnePlace, Once
<1>4. ASSUME NEW t \in Task, Timeout(t) PROVE Goal
  <2>1. t # u
    BY <1>4 DEF Timeout
  <2> QED
    BY <1>4, <1>f, <2>1 DEF Timeout, InOnePlace, Once
<1>5. ASSUME NEW t \in Task, Read(t) PROVE Goal
  <2> DEFINE h == Head(inbox)
  <2>1. /\ h \in ToSet(inbox) /\ h \in Task
        /\ ToSet(inbox') \subseteq ToSet(inbox)
        /\ Once(inbox, u) => /\ Once(inbox', u)
                             /\ u = h => u \notin ToSet(inbox')
    BY <1>5, Out DEF Read, Once
  <2>2. UNCHANGED <<outbox, serving, buffer>>
    BY <1>5 DEF Read
  <2>3. InOnePlace(u)'
    BY <1>f, <2>1, <2>2 DEF InOnePlace, Once
  <2>4. CASE u = t /\ Ours(t)
    <3>1. h = t
      BY <2>1, <2>4 DEF Ours, Apart
    <3>2. pc'[t] = "idle" /\ result'[t] = buffer[t]
      BY <1>5, <2>4, <3>1 DEF Read
    <3>3. buffer[t] = "answered" /\ u \notin ToSet(inbox') \union ToSet(outbox) \union {serving}
      BY <1>f, <2>1, <2>4, <3>1 DEF InOnePlace
    <3> QED
      BY <2>2, <2>3, <2>4, <3>2, <3>3
  <2>5. CASE ~(u = t /\ Ours(t))
    <3>1. pc'[u] = pc[u] /\ result'[u] = result[u]
      BY <1>5, <2>5 DEF Read
    <3> QED
      BY <1>f, <2>1, <2>2, <2>3, <3>1
  <2> QED
    BY <2>4, <2>5
<1>6. CASE Take
  <2>1. /\ Head(outbox) \in ToSet(outbox)
        /\ ToSet(outbox') \subseteq ToSet(outbox)
        /\ Once(outbox, u) => /\ Once(outbox', u)
                              /\ u = Head(outbox) => u \notin ToSet(outbox')
    BY <1>6, Out DEF Take, Once
  <2>2. serving' = Head(outbox) /\ UNCHANGED <<pc, inbox, buffer, result>>
    BY <1>6 DEF Take
  <2> QED
    BY <1>f, <2>1, <2>2 DEF InOnePlace, Once
<1>7. CASE Answer
  <2>1. serving \in Task
    BY <1>7 DEF Answer
  <2>2. /\ ToSet(inbox') = ToSet(inbox) \cup {serving}
        /\ Once(inbox, u) /\ (u = serving => serving \notin ToSet(inbox)) => Once(inbox', u)
    BY <1>7, <2>1, In DEF Answer, Once
  <2>3. /\ serving' = None /\ None \notin Task
        /\ UNCHANGED <<pc, outbox, result>>
        /\ buffer'[serving] = "answered"
        /\ \A v \in Task : v # serving => buffer'[v] = buffer[v]
    BY <1>7, <2>1 DEF Answer, MailAssumption
  <2> QED
    BY <1>f, <2>1, <2>2, <2>3 DEF InOnePlace, Once
<1> QED
  BY <1>1, <1>2, <1>3, <1>4, <1>5, <1>6, <1>7 DEF Next

LEMMA ReplyStep ==
  ASSUME MailAssumption, Apart, IInv, Next
  PROVE  NoReplyLost'
<1> USE DEF IInv, TypeOK
<1> SUFFICES ASSUME NEW u \in Task, pc'[u] \in {"between", "read"}
             PROVE  u \in ToSet(outbox') \union ToSet(inbox') \union {serving'}
  BY DEF NoReplyLost
<1>f. pc[u] \in {"between", "read"} =>
        u \in ToSet(outbox) \union ToSet(inbox) \union {serving}
  BY DEF NoReplyLost
<1> DEFINE Goal == u \in ToSet(outbox') \union ToSet(inbox') \union {serving'}
<1>1. ASSUME NEW t \in Task,
             Build(t) \/ ObtainSemaphore(t) \/ MBoxRead(t) \/ Timeout(t)
      PROVE  Goal
  BY <1>1, <1>f DEF Build, ObtainSemaphore, MBoxRead, Timeout
<1>2. ASSUME NEW t \in Task, Write(t) PROVE Goal
  <2>1. ToSet(outbox') = ToSet(outbox) \cup {t}
    BY <1>2, In DEF Write
  <2> QED
    BY <1>2, <1>f, <2>1 DEF Write
<1>3. ASSUME NEW t \in Task, Read(t) PROVE Goal
  <2>1. /\ ToSet(inbox) \ {Head(inbox)} \subseteq ToSet(inbox')
        /\ UNCHANGED <<outbox, serving>> /\ pc[t] = "read"
    BY <1>3, Out DEF Read
  <2>2. pc[u] \in {"between", "read"} /\ (u = t => ~Ours(t))
    BY <1>3 DEF Read
  <2>3. u # Head(inbox)
    <3>1. CASE u = t
      BY <2>2, <3>1 DEF Ours
    <3>2. CASE u # t
      <4>1. Splitters = {} /\ pc[u] # "between"
        BY <3>2 DEF Apart, Owned
      <4>2. owner = u /\ owner = t
        BY <2>1, <2>2, <4>1 DEF Owned
      <4> QED
        BY <3>2, <4>2
    <3> QED
      BY <3>1, <3>2
  <2> QED
    BY <1>f, <2>1, <2>2, <2>3
<1>4. CASE Take
  <2>1. ToSet(outbox) \ {Head(outbox)} \subseteq ToSet(outbox')
    BY <1>4, Out DEF Take
  <2> QED
    BY <1>4, <1>f, <2>1 DEF Take, MailAssumption
<1>5. CASE Answer
  <2>1. serving \in Task
    BY <1>5 DEF Answer
  <2>2. ToSet(inbox') = ToSet(inbox) \cup {serving}
    BY <1>5, <2>1, In DEF Answer
  <2> QED
    BY <1>5, <1>f, <2>2 DEF Answer
<1> QED
  BY <1>1, <1>2, <1>3, <1>4, <1>5 DEF Next

-----------------------------------------------------------------------------
(* The theorems.                                                           *)

\* The invariant holds in every state.
THEOREM Inductive == ASSUME MailAssumption, Apart PROVE Spec => []IInv
<1>1. Init => IInv
  BY InitInv
<1>2. IInv /\ [Next]_vars => IInv'
  <2>1. CASE Next
    BY <2>1, TypeStep, FreshStep, ReplyStep DEF IInv
  <2>2. CASE UNCHANGED vars
    BY <2>2 DEF vars, IInv, TypeOK, Owned, Fresh, InOnePlace, Once, NoReplyLost
  <2> QED
    BY <2>1, <2>2
<1> QED
  BY <1>1, <1>2, PTL DEF Spec

\* MBoxCall returns the answer to its own message, whatever any other caller gave up
\* before, and the firmware writes to no buffer whose task believes it has returned.
THEOREM AnswersAreOurs ==
  ASSUME MailAssumption, Apart
  PROVE  Spec => []AnswerIsOurs
<1>1. IInv => AnswerIsOurs
  BY DEF IInv, TypeOK, Fresh, AnswerIsOurs
<1> QED
  BY <1>1, Inductive, PTL

\* The reply to whoever waits is still to come: no caller drops it with the stale
\* ones it reads off the FIFO.
THEOREM RepliesAreKept ==
  ASSUME MailAssumption, Apart
  PROVE  Spec => []NoReplyLost
<1>1. IInv => NoReplyLost
  BY DEF IInv
<1> QED
  BY <1>1, Inductive, PTL

\* All that a transaction promises to whoever makes it.
THEOREM MailIsKept ==
  ASSUME MailAssumption, Apart
  PROVE  Spec => []MailKept
<1>1. IInv => TypeOK
  BY DEF IInv
<1> QED
  BY <1>1, Inductive, AnswersAreOurs, RepliesAreKept, PTL DEF MailKept

-----------------------------------------------------------------------------
(* A block, and the blocks of a transfer.                                  *)

LEMMA Names ==
  ASSUME NEW n \in Nat, NEW k \in Nat, NEW m \in Nat, NEW j \in Nat
  PROVE  /\ Card!Block(n, k) = Card!Block(m, j) <=> n = m /\ k = j
         /\ n > 0 => Card!Block(n, k) # Card!None /\ Card!Block(n, k) # Card!Old
BY DEF Card!Block, Card!None, Card!Old

LEMMA Wholes ==
  ASSUME Card!SizeAssumption, NEW n \in 1..Commands, NEW len \in 0..Blocks
  PROVE  /\ Card!Whole(n, len) \in Seq(Card!AnyBlock)
         /\ Len(Card!Whole(n, len)) = len
         /\ \A k \in 1..len : Card!Whole(n, len)[k] = Card!Block(n, k)
<1>1. \A k \in 1..len : Card!Block(n, k) \in Card!AnyBlock
  BY DEF Card!AnyBlock, Card!SizeAssumption
<1> QED
  BY <1>1 DEF Card!Whole, Card!SizeAssumption

LEMMA Matches ==
  ASSUME NEW S, NEW s \in Seq(S), NEW n,
         \A k \in 1..Len(s) : s[k] = Card!Block(n, k)
  PROVE  s = Card!Whole(n, Len(s))
<1>1. s \in [1..Len(s) -> S]
  BY LenProperties
<1> QED
  BY <1>1 DEF Card!Whole

LEMMA Blank ==
  ASSUME NEW len \in Nat
  PROVE  /\ [k \in 1..len |-> Card!Old] \in Seq(Card!AnyBlock)
         /\ Len([k \in 1..len |-> Card!Old]) = len
<1>1. Card!Old \in Card!AnyBlock
  BY DEF Card!AnyBlock
<1> QED
  BY <1>1

\* Dropping the lines of a buffer leaves as many blocks in it.
LEMMA Drops ==
  ASSUME NEW s \in Seq(Card!AnyBlock)
  PROVE  Card!Dropped(s) \in Seq(Card!AnyBlock) /\ Len(Card!Dropped(s)) = Len(s)
<1>1. Card!Old \in Card!AnyBlock
  BY DEF Card!AnyBlock
<1>2. CASE edge /\ Len(s) > 0
  <2>1. 1 \in 1..Len(s)
    BY <1>2, LenProperties
  <2> QED
    BY <1>1, <1>2, <2>1, ExceptSeq DEF Card!Dropped
<1> QED
  BY <1>2 DEF Card!Dropped

\* A block enters the FIFO, or the card.
LEMMA Enters ==
  ASSUME NEW s \in Seq(Card!AnyBlock), NEW b \in Card!AnyBlock
  PROVE  /\ Append(s, b) \in Seq(Card!AnyBlock) /\ Len(Append(s, b)) = Len(s) + 1
         /\ Len(s) \in Nat /\ Append(s, b)[Len(s) + 1] = b
         /\ \A k \in 1..Len(s) : Append(s, b)[k] = s[k]
BY AppendProperties, LenProperties

\* One leaves it.
LEMMA Leaves ==
  ASSUME NEW s \in Seq(Card!AnyBlock), s # <<>>
  PROVE  /\ Head(s) \in Card!AnyBlock /\ Tail(s) \in Seq(Card!AnyBlock)
         /\ Len(s) \in Nat \ {0} /\ Len(Tail(s)) = Len(s) - 1
         /\ Head(s) = s[1] /\ \A k \in 1..Len(s) - 1 : Tail(s)[k] = s[k + 1]
BY HeadTailProperties, LenProperties

\* One is put into a buffer.
LEMMA Lands ==
  ASSUME NEW s \in Seq(Card!AnyBlock), NEW b \in Card!AnyBlock, NEW j \in DOMAIN s
  PROVE  /\ [s EXCEPT ![j] = b] \in Seq(Card!AnyBlock)
         /\ Len([s EXCEPT ![j] = b]) = Len(s) /\ Len(s) \in Nat /\ j \in 1..Len(s)
         /\ \A k \in 1..Len(s) : [s EXCEPT ![j] = b][k] = IF k = j THEN b ELSE s[k]
<1>1. j \in 1..Len(s) /\ Len(s) \in Nat
  BY LenProperties
<1> QED
  BY <1>1, ExceptSeq

\* What fits into what was asked of the card fits into what is asked of it.
LEMMA Asks ==
  ASSUME Card!SizeAssumption, NEW n \in 0..Commands
  PROVE  /\ Blocks * n \in Nat /\ Blocks * Commands \in Nat
         /\ Blocks * n <= Blocks * Commands /\ Blocks * (n + 1) = Blocks * n + Blocks
BY DEF Card!SizeAssumption

\* The FIFO may be drained.
LEMMA Emptied ==
  ASSUME NEW s \in Seq(Card!AnyBlock), NEW t \in {s, <<>>}
  PROVE  t \in Seq(Card!AnyBlock) /\ Len(t) \in Nat /\ Len(t) <= Len(s)
<1>1. CASE t = <<>>
  BY <1>1, EmptySeq, LenProperties
<1>2. CASE t = s
  BY <1>2, LenProperties
<1> QED
  BY <1>1, <1>2

\* The budget holds while no more is on its way than before.
LEMMA NoMore ==
  ASSUME Card!SizeAssumption, Card!TypeOK, Card!TypeOK', Card!Budget,
         cmd'.n = cmd.n, card'.mode = "rcv" => card.mode = "rcv",
         card.mode = "rcv" \/ Len(stored') <= Len(stored),
         card.mode = "rcv" => Len(stored') + Card!OnBus' + Len(fifo') + Card!Coming'
                  <= Len(stored) + Card!OnBus + Len(fifo) + Card!Coming
  PROVE  Card!Budget'
<1>1. PICK room \in Nat : room = Blocks * cmd.n
  BY Asks DEF Card!TypeOK
<1>2. Blocks * cmd'.n = room
  BY <1>1
<1>3. /\ Len(stored) \in Nat /\ Len(stored') \in Nat
      /\ Len(fifo) \in Nat /\ Len(fifo') \in Nat
      /\ Card!OnBus \in Nat /\ Card!OnBus' \in Nat
  BY LenProperties DEF Card!TypeOK, Card!OnBus
<1>4. /\ cmd.len \in Nat /\ dma.left \in Nat /\ cmd'.len \in Nat
      /\ dma'.left \in Nat
  BY DEF Card!TypeOK, Card!SizeAssumption
<1>5. Card!Coming \in Nat /\ Card!Coming' \in Nat
  BY <1>4 DEF Card!Coming
<1> QED
  BY <1>1, <1>2, <1>3, <1>5 DEF Card!Budget

-----------------------------------------------------------------------------
(* The steps of the card's bus.                                            *)

LEMMA InitCard ==
  ASSUME Card!SizeAssumption, Card!Init
  PROVE  Card!IInv
<1> USE DEF Card!Init, Card!SizeAssumption
<1>1. Card!TypeOK
  <2>1. PICK room \in Nat : room = Blocks * Commands
    BY Asks
  <2>2. <<>> \in Seq(Card!AnyBlock) /\ Len(<<>>) = 0
    BY EmptySeq
  <2>3. /\ cmd \in [n : 0..Commands, kind : Card!Kinds, len : 0..Blocks,
                    direct : BOOLEAN]
        /\ asked \in [kind : Card!Kinds, n : 0..Commands]
    BY DEF Card!Kinds, Card!Quiet
  <2>4. /\ card \in [mode : {"tran", "data", "rcv"}, n : 0..Commands]
        /\ dma \in [way : {"none", "read", "write"}, left : 0..Blocks]
    BY DEF Card!Stopped
  <2>5. /\ step = "idle" /\ returned = "ok" /\ line = "done" /\ edge = FALSE
        /\ blc = 0 /\ sent = 0 /\ wrote = 0 /\ buf = <<>> /\ bounce = <<>>
        /\ fifo = <<>> /\ stored = <<>> /\ crossing \in Card!AnyBlock
    BY DEF Card!AnyBlock
  <2>6. stored \in Seq(Card!AnyBlock) /\ Len(stored) <= Blocks * Commands
    BY <2>1, <2>2, <2>5
  <2>7. /\ buf \in Seq(Card!AnyBlock) /\ bounce \in Seq(Card!AnyBlock)
        /\ fifo \in Seq(Card!AnyBlock) /\ Len(fifo) <= FifoDepth
    BY <2>2, <2>5
  <2>8. /\ step = "idle" /\ returned \in {"ok", "error"} /\ edge \in BOOLEAN
        /\ line \in {"done", "new", "fail"} /\ blc \in 0..Blocks
        /\ sent \in 0..Blocks /\ wrote \in 0..Commands
    <3>1. 0 \in 0..Blocks /\ 0 \in 0..Commands
      OBVIOUS
    <3> HIDE DEF Card!Init
    <3> QED
      BY <2>5, <3>1
  <2> HIDE DEF Card!Init
  <2> QED
    BY <2>3, <2>4, <2>5, <2>6, <2>7, <2>8 DEF Card!TypeOK
<1>2. Card!Calling /\ Card!Asked /\ Card!Clean /\ Card!Memory /\ Card!Kept
  BY DEF Card!Calling, Card!Asked, Card!Clean, Card!Memory, Card!Kept, Card!HasData,
         Card!Stopped, Card!Quiet
<1>3. Card!Reading /\ Card!Writing
  BY DEF Card!Reading, Card!Writing
<1>4. Card!Budget
  BY DEF Card!Budget
<1> QED
  BY <1>1, <1>2, <1>3, <1>4 DEF Card!IInv

\* Abbreviations of the model, visible in what follows.
USE DEF Card!IInv, Card!SizeAssumption, Card!driver, Card!medium, Card!memory,
        Card!HasData, Card!Return

LEMMA CallStep ==
  ASSUME Card!SizeAssumption, Card!IInv, NEW kind \in Card!Kinds,
         NEW len \in 0..Blocks, NEW direct \in BOOLEAN,
         kind = "stop" <=> len = 0, Card!Call(kind, len, direct)
  PROVE  Card!IInv'
<1>1. Card!TypeOK'
  <2>8. Commands \in Nat /\ Blocks \in Nat /\ cmd.n \in 0..Commands /\ cmd.n < Commands
    BY DEF Card!Call, Card!TypeOK
  <2>9. /\ cmd' = [n |-> cmd.n + 1, kind |-> kind, len |-> len, direct |-> direct]
        /\ buf' = CASE kind = "read"  -> [k \in 1..len |-> Card!Old]
                    [] kind = "write" -> Card!Whole(cmd.n + 1, len)
                    [] OTHER          -> buf
    BY DEF Card!Call
  <2>10. PICK n \in 1..Commands : n = cmd.n + 1
    BY <2>8
  <2>1. cmd' \in [n : 0..Commands, kind : Card!Kinds, len : 0..Blocks, direct : BOOLEAN]
    <3>1. n \in 0..Commands
      BY <2>8
    <3>2. cmd' = [n |-> n, kind |-> kind, len |-> len, direct |-> direct]
      BY <2>9, <2>10
    <3> HIDE DEF Card!IInv, Card!SizeAssumption
    <3> QED
      BY <3>1, <3>2
  <2>2. buf' \in Seq(Card!AnyBlock)
    <3>1. [k \in 1..len |-> Card!Old] \in Seq(Card!AnyBlock)
      BY Blank
    <3>2. Card!Whole(n, len) \in Seq(Card!AnyBlock)
      BY Wholes
    <3>3. buf \in Seq(Card!AnyBlock)
      BY DEF Card!TypeOK
    <3> HIDE DEF Card!IInv, Card!SizeAssumption
    <3> QED
      BY <2>9, <2>10, <3>1, <3>2, <3>3
  <2>3. /\ step' = "before" /\ edge' = FALSE /\ wrote' \in {wrote, 0}
        /\ UNCHANGED <<returned, bounce, dma, line, asked, blc, fifo, card, sent,
                       stored, crossing>>
    BY DEF Card!Call
  <2>4. /\ stored' \in Seq(Card!AnyBlock) /\ Len(stored') <= Blocks * Commands
        /\ bounce' \in Seq(Card!AnyBlock) /\ crossing' \in Card!AnyBlock
        /\ fifo' \in Seq(Card!AnyBlock) /\ Len(fifo') <= FifoDepth
    BY <2>3 DEF Card!TypeOK
  <2>5. /\ step' = "before" /\ edge' \in BOOLEAN
        /\ returned' \in {"ok", "error"} /\ line' \in {"done", "new", "fail"}
        /\ blc' \in 0..Blocks /\ sent' \in 0..Blocks
    BY <2>3 DEF Card!TypeOK
  <2>7. wrote' \in 0..Commands
    BY <2>3 DEF Card!TypeOK
  <2>6. /\ asked' \in [kind : Card!Kinds, n : 0..Commands]
        /\ card' \in [mode : {"tran", "data", "rcv"}, n : 0..Commands]
        /\ dma' \in [way : {"none", "read", "write"}, left : 0..Blocks]
    BY <2>3 DEF Card!TypeOK
  <2> QED
    BY <2>1, <2>2, <2>4, <2>5, <2>6, <2>7 DEF Card!TypeOK, Card!AnyBlock, Card!Kinds
<1>2. Card!Asked' /\ Card!Clean' /\ Card!Memory' /\ Card!Reading' /\ Card!Writing'
      /\ Card!Kept'
  BY DEF Card!Call, Card!None, Card!Past, Card!Target, Card!OnBus,
         Card!Flushed, Card!Asked, Card!Clean, Card!Memory, Card!Reading,
         Card!Writing, Card!Kept
<1>3. Card!Calling'
  BY DEF Card!Call, Card!Kinds, Card!TypeOK, Card!Calling
<1>4. Card!Budget'
  <2>1. cmd'.n = cmd.n + 1 /\ Card!Coming = 0 /\ Card!Coming' \in 0..Blocks
        /\ UNCHANGED <<stored, crossing, fifo, card>>
    BY DEF Card!Call, Card!TypeOK, Card!Calling, Card!Coming
  <2>2. PICK n \in 0..Commands : n = cmd.n
    BY DEF Card!TypeOK
  <2>3. PICK was \in Nat, room \in Int :
            was = Blocks * n /\ room = Blocks * (n + 1) /\ room = was + Blocks
    BY Asks
  <2>4. Len(stored) \in Nat /\ Len(fifo) \in Nat /\ Card!OnBus' = Card!OnBus
        /\ Card!OnBus \in Nat
    BY <2>1, LenProperties DEF Card!TypeOK, Card!OnBus
  <2>5. /\ Len(stored) <= was /\ was <= room
        /\ card.mode = "rcv" => Len(stored) + Card!OnBus + Len(fifo) <= was
    BY <2>1, <2>2, <2>3, <2>4 DEF Card!Budget
  <2>6. Blocks * cmd'.n = room /\ room = was + Blocks
    BY <2>1, <2>2, <2>3
  <2>7. room \in Int /\ was \in Int /\ Card!Coming' <= Blocks /\ Card!Coming' \in Nat
    BY <2>1, <2>3
  <2>8. /\ Len(stored') <= room
        /\ card'.mode = "rcv" =>
             Len(stored') + Card!OnBus' + Len(fifo') + Card!Coming' <= room
    <3>1. stored' = stored /\ fifo' = fifo /\ card' = card /\ Blocks \in Nat
      BY <2>1
    <3> QED
      BY <2>4, <2>5, <2>6, <2>7, <3>1
  <2> QED
    BY <2>6, <2>8 DEF Card!Budget
<1> QED
  BY <1>1, <1>2, <1>3, <1>4

LEMMA ReadyStep ==
  ASSUME Card!SizeAssumption, Card!IInv, Card!Ready
  PROVE  Card!IInv'
<1>1. Card!TypeOK'
  BY DEF Card!Ready, Card!Kinds, Card!TypeOK
<1>2. Card!Calling' /\ Card!Asked' /\ Card!Clean' /\ Card!Memory' /\ Card!Reading'
      /\ Card!Writing' /\ Card!Kept' /\ Card!Budget'
  BY DEF Card!Ready, Card!None, Card!Past, Card!Target, Card!OnBus,
         Card!Flushed, Card!Coming, Card!Calling, Card!Asked, Card!Clean,
         Card!Memory, Card!Reading, Card!Writing, Card!Kept, Card!Budget
<1> QED
  BY <1>1, <1>2

LEMMA BusyStep ==
  ASSUME Card!SizeAssumption, Card!IInv, Card!Busy
  PROVE  Card!IInv'
<1>1. Card!TypeOK'
  BY DEF Card!Busy, Card!Kinds, Card!TypeOK
<1>2. Card!Calling' /\ Card!Asked' /\ Card!Clean' /\ Card!Memory' /\ Card!Reading'
      /\ Card!Writing' /\ Card!Kept'
  BY DEF Card!Busy, Card!None, Card!Past, Card!Target, Card!OnBus,
         Card!Flushed, Card!Calling, Card!Asked, Card!Clean, Card!Memory,
         Card!Reading, Card!Writing, Card!Kept
<1>3. Card!Budget'
  BY DEF Card!Busy, Card!Kinds, Card!OnBus, Card!Coming, Card!None,
         Card!TypeOK, Card!Calling, Card!Budget
<1> QED
  BY <1>1, <1>2, <1>3

LEMMA ClearStep ==
  ASSUME Card!SizeAssumption, Card!IInv, Card!Clear
  PROVE  Card!IInv'
<1>1. Card!TypeOK'
  BY DEF Card!Clear, Card!Flush, Card!Kinds, Card!TypeOK
<1>2. Card!Calling' /\ Card!Asked' /\ Card!Clean' /\ Card!Memory' /\ Card!Reading'
      /\ Card!Writing' /\ Card!Kept'
  BY DEF Card!Clear, Card!Flush, Card!None, Card!Past, Card!Target,
         Card!OnBus, Card!Flushed, Card!Calling, Card!Asked, Card!Clean,
         Card!Memory, Card!Reading, Card!Writing, Card!Kept
<1>3. Card!Budget'
  <2>1. /\ fifo' \in {fifo, <<>>} /\ cmd' = cmd /\ card' = card /\ stored' = stored
        /\ Card!OnBus' = Card!OnBus /\ Card!Coming' = Card!Coming
    BY DEF Card!Clear, Card!Flush, Card!Coming, Card!OnBus
  <2>2. Len(fifo') <= Len(fifo) /\ Len(fifo') \in Nat /\ Len(fifo) \in Nat
        /\ Len(stored) \in Nat /\ Card!Coming \in Nat /\ Card!OnBus \in Nat
    BY <2>1, Emptied, LenProperties DEF Card!TypeOK, Card!Coming, Card!OnBus
  <2> QED
    BY <1>1, <2>1, <2>2, NoMore
<1> QED
  BY <1>1, <1>2, <1>3

LEMMA SetupStep ==
  ASSUME Card!SizeAssumption, Card!IInv, Card!Setup
  PROVE  Card!IInv'
<1>1. Card!TypeOK'
  <2>1. cmd.len \in Nat /\ bounce' \in Seq(Card!AnyBlock)
    BY Blank DEF Card!Setup, Card!TypeOK
  <2>2. /\ step' = "issue" /\ blc' = cmd.len /\ edge' = FALSE
        /\ dma' = [way |-> "none", left |-> 0]
        /\ UNCHANGED <<cmd, returned, wrote, buf, line, asked, fifo, card, sent,
                       stored, crossing>>
    BY DEF Card!Setup, Card!Stopped
  <2>3. dma' \in [way : {"none", "read", "write"}, left : 0..Blocks]
    BY <2>2
  <2>4. blc' \in 0..Blocks /\ edge' \in BOOLEAN
    BY <2>2 DEF Card!TypeOK
  <2> QED
    BY <2>1, <2>2, <2>3, <2>4 DEF Card!TypeOK, Card!AnyBlock, Card!Kinds
<1>2. Card!Calling' /\ Card!Asked' /\ Card!Clean' /\ Card!Reading' /\ Card!Writing'
      /\ Card!Kept' /\ Card!Budget'
  BY DEF Card!Setup, Card!Stopped, Card!None, Card!Past, Card!Target,
         Card!OnBus, Card!Flushed, Card!Coming, Card!Calling, Card!Asked,
         Card!Clean, Card!Reading, Card!Writing, Card!Kept, Card!Budget
<1>3. Card!Memory'
  BY DEF Card!Setup, Card!Stopped, Card!Kinds, Card!TypeOK, Card!Memory
<1> QED
  BY <1>1, <1>2, <1>3

LEMMA NoPathStep ==
  ASSUME Card!SizeAssumption, Card!IInv, Card!NoPath
  PROVE  Card!IInv'
<1>1. Card!TypeOK'
  BY DEF Card!NoPath, Card!GiveUp, Card!Kinds, Card!Stopped, Card!TypeOK,
         Card!Calling
<1>2. Card!Calling' /\ Card!Asked' /\ Card!Clean' /\ Card!Memory' /\ Card!Reading'
      /\ Card!Writing' /\ Card!Kept'
  BY DEF Card!NoPath, Card!GiveUp, Card!None, Card!Past, Card!Target,
         Card!OnBus, Card!Flushed, Card!Stopped, Card!Calling, Card!Asked,
         Card!Clean, Card!Memory, Card!Reading, Card!Writing, Card!Kept
<1>3. Card!Budget'
  BY DEF Card!NoPath, Card!GiveUp, Card!Kinds, Card!OnBus, Card!Coming,
         Card!Stopped, Card!None, Card!TypeOK, Card!Calling, Card!Budget
<1> QED
  BY <1>1, <1>2, <1>3

LEMMA IssueStep ==
  ASSUME Card!SizeAssumption, Card!IInv, Card!Issue
  PROVE  Card!IInv'
<1>1. Card!TypeOK'
  BY DEF Card!Issue, Card!Kinds, Card!TypeOK
<1>2. Card!Clean' /\ Card!Memory' /\ Card!Kept'
  BY DEF Card!Issue, Card!None, Card!Flushed, Card!Clean, Card!Memory, Card!Kept
<1>7. Card!Asked'
  BY DEF Card!Issue, Card!Asked, Card!Calling
<1>3. Card!Calling'
  BY DEF Card!Issue, Card!Kinds, Card!TypeOK, Card!Calling
<1>4. Card!Reading'
  BY DEF Card!Issue, Card!Kinds, Card!None, Card!Past, Card!Target,
         Card!TypeOK, Card!Clean, Card!Reading
<1>5. Card!Writing'
  BY DEF Card!Issue, Card!Kinds, Card!None, Card!Past, Card!OnBus,
         Card!Flushed, Card!TypeOK, Card!Clean, Card!Writing
<1>6. Card!Budget'
  <2>1. Card!Coming' = Card!Coming /\ Card!OnBus' = Card!OnBus
        /\ UNCHANGED <<stored, fifo, card, cmd>>
    BY DEF Card!Issue, Card!Coming, Card!OnBus, Card!Calling
  <2> QED
    BY <2>1 DEF Card!Budget
<1> QED
  BY <1>1, <1>2, <1>3, <1>4, <1>5, <1>6, <1>7

LEMMA MovedStep ==
  ASSUME Card!SizeAssumption, Card!IInv, Card!Moved
  PROVE  Card!IInv'
<1>1. /\ buf' \in Seq(Card!AnyBlock)
      /\ cmd.kind = "read" => Len(buf') = cmd.len
  BY Drops DEF Card!Moved, Card!TypeOK, Card!Memory, Card!Calling
<1>2. Card!TypeOK'
  <2>1. /\ step' \in {"settle", "writing"} /\ dma' = [way |-> "none", left |-> 0]
        /\ edge' = FALSE
        /\ UNCHANGED <<cmd, returned, wrote, bounce, line, asked, blc, fifo, card,
                       sent, stored, crossing>>
    BY DEF Card!Moved, Card!Stopped
  <2>2. dma' \in [way : {"none", "read", "write"}, left : 0..Blocks]
    BY <2>1
  <2>3. step' \in {"settle", "writing"} /\ edge' \in BOOLEAN
    BY <2>1
  <2>4. /\ stored' \in Seq(Card!AnyBlock) /\ Len(stored') <= Blocks * Commands
        /\ bounce' \in Seq(Card!AnyBlock) /\ crossing' \in Card!AnyBlock
        /\ fifo' \in Seq(Card!AnyBlock) /\ Len(fifo') <= FifoDepth
    BY <2>1 DEF Card!TypeOK
  <2> QED
    BY <1>1, <2>1, <2>2, <2>3, <2>4 DEF Card!TypeOK, Card!AnyBlock, Card!Kinds
<1>3. Card!Asked' /\ Card!Clean' /\ Card!Memory' /\ Card!Writing' /\ Card!Kept'
      /\ Card!Budget'
  BY DEF Card!Moved, Card!Stopped, Card!Dropped, Card!None, Card!Past,
         Card!OnBus, Card!Flushed, Card!Coming, Card!Asked, Card!Clean,
         Card!Memory, Card!Writing, Card!Kept, Card!Budget
<1>4. Card!Calling'
  BY DEF Card!Moved, Card!Stopped, Card!Dropped, Card!Kinds, Card!TypeOK,
         Card!Calling
<1>5. Card!Reading'
  <2>1. ASSUME cmd.kind = "read", line = "done", ~Shared
        PROVE  buf' = Card!Whole(cmd.n, cmd.len)
    <3>1. buf' = Card!Target
      BY <2>1 DEF Card!Moved, Card!Memory, Card!Target, Card!Dropped
    <3>2. \A k \in 1..Len(buf') : buf'[k] = Card!Block(cmd.n, k)
      BY <1>1, <2>1, <3>1 DEF Card!Moved, Card!Reading, Card!Past, Card!TypeOK
    <3> QED
      BY <1>1, <2>1, <3>2, Matches
  <2>2. ASSUME cmd.kind = "read", line = "new" PROVE card.mode # "tran"
    BY <2>2 DEF Card!Moved, Card!Reading, Card!Calling, Card!TypeOK
  <2> QED
    BY <2>1, <2>2 DEF Card!Moved, Card!Reading
<1> QED
  BY <1>2, <1>3, <1>4, <1>5

LEMMA MoveTimeoutStep ==
  ASSUME Card!SizeAssumption, Card!IInv, Card!MoveTimeout
  PROVE  Card!IInv'
<1>1. Card!TypeOK'
  BY DEF Card!MoveTimeout, Card!GiveUp, Card!Kinds, Card!Stopped, Card!TypeOK,
         Card!Calling
<1>2. Card!Calling' /\ Card!Asked' /\ Card!Memory' /\ Card!Reading' /\ Card!Writing'
      /\ Card!Kept'
  BY DEF Card!MoveTimeout, Card!GiveUp, Card!Past, Card!Target, Card!OnBus,
         Card!None, Card!Flushed, Card!Stopped, Card!Calling, Card!Asked,
         Card!Memory, Card!Reading, Card!Writing, Card!Kept
<1>3. Card!Clean'
  BY DEF Card!MoveTimeout, Card!GiveUp, Card!Kinds, Card!None, Card!Stopped,
         Card!TypeOK, Card!Calling, Card!Clean
<1>4. Card!Budget'
  BY DEF Card!MoveTimeout, Card!GiveUp, Card!Kinds, Card!OnBus, Card!Coming,
         Card!Stopped, Card!None, Card!TypeOK, Card!Calling, Card!Budget
<1> QED
  BY <1>1, <1>2, <1>3, <1>4

LEMMA WrittenStep ==
  ASSUME Card!SizeAssumption, Card!IInv, Card!Written
  PROVE  Card!IInv'
<1>1. Card!TypeOK'
  BY DEF Card!Written, Card!Flushed, Card!Kinds, Card!None, Card!TypeOK
<1>2. Card!Calling' /\ Card!Asked' /\ Card!Clean' /\ Card!Memory' /\ Card!Kept'
      /\ Card!Budget'
  BY DEF Card!Written, Card!Flushed, Card!None, Card!OnBus, Card!Coming,
         Card!Calling, Card!Asked, Card!Clean, Card!Memory, Card!Kept,
         Card!Budget
<1>3. Card!Reading'
  BY DEF Card!Written, Card!Flushed, Card!Kinds, Card!Past, Card!Target,
         Card!None, Card!TypeOK, Card!Calling, Card!Reading
<1>4. Card!Writing'
  BY DEF Card!Written, Card!Flushed, Card!Kinds, Card!Past, Card!OnBus,
         Card!None, Card!TypeOK, Card!Calling, Card!Writing
<1> QED
  BY <1>1, <1>2, <1>3, <1>4

LEMMA WriteTimeoutStep ==
  ASSUME Card!SizeAssumption, Card!IInv, Card!WriteTimeout
  PROVE  Card!IInv'
<1>1. Card!TypeOK'
  <2>1. fifo' \in {fifo, <<>>} /\ dma' \in {dma, Card!Stopped}
        /\ step' = "idle" /\ returned' \in {"ok", "error"} /\ wrote' \in {wrote, cmd.n}
        /\ UNCHANGED <<cmd, buf, bounce, edge, line, asked, blc, card, sent, stored,
                       crossing>>
    BY DEF Card!WriteTimeout, Card!GiveUp
  <2>2. fifo' \in Seq(Card!AnyBlock) /\ Len(fifo') <= FifoDepth
    <3>1. fifo \in Seq(Card!AnyBlock) /\ Len(fifo) \in Nat /\ Len(fifo) <= FifoDepth
      BY LenProperties DEF Card!TypeOK
    <3>2. fifo' \in Seq(Card!AnyBlock) /\ Len(fifo') \in Nat
          /\ Len(fifo') <= Len(fifo)
      BY <2>1, <3>1, Emptied
    <3> QED
      BY <3>1, <3>2
  <2>3. dma' \in [way : {"none", "read", "write"}, left : 0..Blocks]
    BY <2>1 DEF Card!TypeOK, Card!Stopped
  <2> QED
    BY <2>1, <2>2, <2>3 DEF Card!TypeOK, Card!AnyBlock
<1>2. Card!Calling' /\ Card!Asked' /\ Card!Memory' /\ Card!Reading' /\ Card!Writing'
      /\ Card!Kept'
  BY DEF Card!WriteTimeout, Card!Flushed, Card!GiveUp, Card!Past, Card!Target,
         Card!OnBus, Card!None, Card!Stopped, Card!Calling, Card!Asked,
         Card!Memory, Card!Reading, Card!Writing, Card!Kept
<1>3. Card!Clean'
  BY DEF Card!WriteTimeout, Card!Flushed, Card!GiveUp, Card!Kinds, Card!None,
         Card!Stopped, Card!TypeOK, Card!Calling, Card!Clean
<1>4. Card!Budget'
  BY DEF Card!WriteTimeout, Card!Flushed, Card!GiveUp, Card!Kinds, Card!OnBus,
         Card!Coming, Card!None, Card!Stopped, Card!TypeOK, Card!Calling,
         Card!Budget
<1> QED
  BY <1>1, <1>2, <1>3, <1>4

LEMMA SettleStep ==
  ASSUME Card!SizeAssumption, Card!IInv, Card!Settle
  PROVE  Card!IInv'
<1>1. Card!TypeOK'
  <2>1. fifo' \in {fifo, <<>>} /\ dma' \in {dma, Card!Stopped}
        /\ step' = "idle" /\ returned' \in {"ok", "error"} /\ wrote' \in {wrote, cmd.n}
        /\ UNCHANGED <<cmd, buf, bounce, edge, line, asked, blc, card, sent, stored,
                       crossing>>
    BY DEF Card!Settle, Card!GiveUp
  <2>2. fifo' \in Seq(Card!AnyBlock) /\ Len(fifo') <= FifoDepth
    <3>1. fifo \in Seq(Card!AnyBlock) /\ Len(fifo) \in Nat /\ Len(fifo) <= FifoDepth
      BY LenProperties DEF Card!TypeOK
    <3>2. fifo' \in Seq(Card!AnyBlock) /\ Len(fifo') \in Nat
          /\ Len(fifo') <= Len(fifo)
      BY <2>1, <3>1, Emptied
    <3> QED
      BY <3>1, <3>2
  <2>3. dma' \in [way : {"none", "read", "write"}, left : 0..Blocks]
    BY <2>1 DEF Card!TypeOK, Card!Stopped
  <2> QED
    BY <2>1, <2>2, <2>3 DEF Card!TypeOK, Card!AnyBlock
<1>2. Card!Calling' /\ Card!Asked' /\ Card!Memory' /\ Card!Writing'
  BY DEF Card!Settle, Card!Refused, Card!GiveUp, Card!Past, Card!OnBus,
         Card!None, Card!Flushed, Card!Stopped, Card!Calling, Card!Asked,
         Card!Memory, Card!Writing
<1>3. Card!Clean'
  BY DEF Card!Settle, Card!Refused, Card!GiveUp, Card!Kinds, Card!None,
         Card!Stopped, Card!TypeOK, Card!Asked, Card!Clean
<1>4. Card!Reading'
  BY DEF Card!Settle, Card!Refused, Card!GiveUp, Card!Kinds, Card!Past,
         Card!Target, Card!Stopped, Card!TypeOK, Card!Reading
<1>5. Card!Kept'
  <2>1. ASSUME wrote' # wrote
        PROVE  Card!Flushed /\ stored = Card!Whole(cmd.n, Len(buf))
               /\ cmd.kind = "write" /\ wrote' = cmd.n /\ card.mode = "rcv"
               /\ line = "done" /\ fifo' = fifo
    <3>1. cmd.kind = "write" /\ line = "done" /\ wrote' = cmd.n /\ fifo' = fifo
      BY <2>1 DEF Card!Settle, Card!Refused, Card!TypeOK
    <3>2. /\ Card!Flushed /\ card.mode = "rcv" /\ Card!Past = Len(stored)
          /\ \A k \in 1..Len(stored) : stored[k] = Card!Block(cmd.n, k)
      BY <3>1, EmptySeq, LenProperties DEF Card!Settle, Card!Writing, Card!Flushed,
             Card!OnBus, Card!TypeOK
    <3>3. buf = Card!Whole(cmd.n, cmd.len) /\ Len(buf) = cmd.len
          /\ Len(stored) = cmd.len
      BY <3>1, <3>2, Wholes DEF Card!Memory, Card!Calling, Card!Past, Card!Settle,
             Card!TypeOK
    <3> QED
      BY <3>1, <3>2, <3>3, Matches DEF Card!TypeOK
  <2>2. CASE wrote' # wrote
    BY <2>1, <2>2 DEF Card!Settle, Card!Kept, Card!Flushed
  <2>3. CASE wrote' = wrote
    BY <2>3 DEF Card!Settle, Card!Kept, Card!Flushed, Card!GiveUp, Card!TypeOK
  <2> QED
    BY <2>2, <2>3
<1>6. Card!Budget'
  <2>1. Card!Coming' = 0 /\ Card!Coming = 0 /\ Card!OnBus' = Card!OnBus
        /\ fifo' \in {fifo, <<>>} /\ UNCHANGED <<stored, card, cmd>>
    BY DEF Card!Settle, Card!GiveUp, Card!Calling, Card!Coming, Card!Stopped,
           Card!OnBus
  <2>2. Len(fifo) \in Nat /\ Len(fifo') \in Nat /\ Len(fifo') <= Len(fifo)
        /\ Len(stored) \in Nat
    BY <2>1, Emptied, LenProperties DEF Card!TypeOK
  <2>3. Card!OnBus \in Nat
    BY DEF Card!OnBus
  <2>4. Len(stored') + Card!OnBus' + Len(fifo') + Card!Coming'
           <= Len(stored) + Card!OnBus + Len(fifo) + Card!Coming
    BY <2>1, <2>2, <2>3
  <2>5. cmd'.n = cmd.n /\ card'.mode = card.mode /\ Len(stored') <= Len(stored)
    BY <2>1, <2>2
  <2> QED
    BY <1>1, <2>4, <2>5, NoMore
<1> QED
  BY <1>1, <1>2, <1>3, <1>4, <1>5, <1>6

LEMMA TakeStep ==
  ASSUME Card!SizeAssumption, Card!IInv, Card!Take
  PROVE  Card!IInv'
<1>1. /\ card'.n = asked.n
      /\ card'.mode = "rcv" <=> asked.kind = "write"
      /\ card' = [n |-> card'.n, mode |-> card'.mode]
      /\ card'.mode = "data" <=> asked.kind = "read"
      /\ stored' = IF asked.kind = "write" THEN <<>> ELSE stored
      /\ crossing' = IF asked.kind = "stop" THEN Card!None ELSE crossing
      /\ line = "new" /\ line' = "done"
      /\ card.mode = "tran" \/ asked.kind = "stop"
      /\ UNCHANGED <<step, cmd, wrote, buf, dma, asked, fifo>>
  BY DEF Card!Take, Card!TypeOK, Card!Kinds
<1>2. Card!TypeOK'
  BY DEF Card!AnyBlock, Card!Take, Card!None, Card!Kinds, Card!TypeOK
<1>3. Card!Calling' /\ Card!Asked' /\ Card!Memory' /\ Card!Kept'
  BY DEF Card!Take, Card!None, Card!Flushed, Card!Calling, Card!Asked,
         Card!Memory, Card!Kept
<1>4. Card!Clean'
  BY DEF Card!Take, Card!None, Card!Kinds, Card!TypeOK, Card!Asked, Card!Clean
<1>5. Card!Reading'
  BY DEF Card!Take, Card!None, Card!Kinds, Card!Past, Card!Target,
         Card!TypeOK, Card!Asked, Card!Reading
<1>6. Card!Writing'
  <2> SUFFICES ASSUME cmd.kind = "write", step \in {"moving", "writing", "settle"}
               PROVE  Card!Writing'
    BY <1>1 DEF Card!Writing
  <2>1. asked = [kind |-> "write", n |-> cmd.n] /\ asked.kind = "write"
        /\ asked.n = cmd.n
    BY <1>1 DEF Card!Asked
  <2>2. card.mode = "tran"
    BY <1>1, <2>1
  <2>3. /\ step # "settle" /\ crossing = Card!None /\ Len(fifo) = Card!Past
        /\ \A k \in 1..Len(fifo) : fifo[k] = Card!Block(cmd.n, k)
    BY <1>1, <2>2 DEF Card!Clean, Card!Writing
  <2>4. card' = [n |-> cmd.n, mode |-> "rcv"] /\ stored' = <<>> /\ Len(stored') = 0
        /\ Card!OnBus' = 0 /\ Card!Past' = Card!Past /\ Len(fifo) \in Nat
    BY <1>1, <2>1, <2>3 DEF Card!OnBus, Card!Past, Card!TypeOK
  <2> QED
    BY <1>1, <2>3, <2>4 DEF Card!Writing
<1>7. Card!Budget'
  <2>1. PICK room \in Nat : room = Blocks * cmd.n
    BY Asks DEF Card!TypeOK
  <2>2. Card!Coming' = Card!Coming /\ Len(stored) \in Nat /\ Len(fifo) \in Nat
        /\ cmd' = cmd
    BY <1>1 DEF Card!Coming, Card!TypeOK
  <2>3. CASE asked.kind = "write"
    <3>1. Len(stored') = 0 /\ card.mode = "tran" /\ Card!OnBus' = 0
      BY <1>1, <2>3 DEF Card!Clean, Card!OnBus
    <3>2. Len(fifo) + Card!Coming <= room
      <4>1. cmd.kind = "write" => cmd.n > 0 /\ cmd.len <= Blocks
        BY DEF Card!Calling, Card!TypeOK, Card!HasData
      <4>2. cmd.kind = "write" => cmd.len <= room
        BY <2>1, <4>1 DEF Card!TypeOK
      <4>3. CASE step \in {"idle", "before"}
        <5>1. Len(fifo) = 0 /\ dma.left = 0
          BY <1>1, <2>3, <3>1, <4>3, EmptySeq DEF Card!Clean, Card!Calling
        <5> QED
          BY <2>1, <4>2, <4>3, <5>1 DEF Card!Coming, Card!TypeOK
      <4>4. CASE step \in {"moving", "writing", "settle"}
        <5>1. cmd.kind = "write"
          BY <1>1, <2>3, <4>4 DEF Card!Asked
        <5>2. Len(fifo) = Card!Past
          BY <1>1, <3>1, <4>4, <5>1 DEF Card!Writing
        <5> QED
          BY <2>2, <4>2, <4>4, <5>1, <5>2 DEF Card!Coming, Card!Past, Card!TypeOK
      <4> QED
        BY <1>1, <4>3, <4>4 DEF Card!Asked, Card!TypeOK
    <3> QED
      BY <1>1, <2>1, <2>2, <3>1, <3>2 DEF Card!Budget
  <2>4. CASE asked.kind # "write"
    BY <1>1, <2>1, <2>2, <2>4 DEF Card!Budget
  <2> QED
    BY <2>3, <2>4
<1> QED
  BY <1>2, <1>3, <1>4, <1>5, <1>6, <1>7

LEMMA NoAnswerStep ==
  ASSUME Card!SizeAssumption, Card!IInv, Card!NoAnswer
  PROVE  Card!IInv'
<1>1. Card!TypeOK'
  BY DEF Card!NoAnswer, Card!Kinds, Card!TypeOK
<1>2. Card!Calling' /\ Card!Asked' /\ Card!Clean' /\ Card!Memory' /\ Card!Reading'
      /\ Card!Writing' /\ Card!Kept' /\ Card!Budget'
  BY DEF Card!NoAnswer, Card!None, Card!Past, Card!Target, Card!OnBus,
         Card!Flushed, Card!Coming, Card!Calling, Card!Asked, Card!Clean,
         Card!Memory, Card!Reading, Card!Writing, Card!Kept, Card!Budget
<1> QED
  BY <1>1, <1>2

LEMMA SendStep ==
  ASSUME Card!SizeAssumption, Card!IInv, Card!Send
  PROVE  Card!IInv'
<1>1. /\ fifo' = Append(fifo, Card!Block(card.n, sent + 1)) /\ card.mode = "data"
      /\ blc > 0 /\ blc' = blc - 1 /\ Len(fifo) < FifoDepth
      /\ sent' = IF sent < Blocks THEN sent + 1 ELSE sent
      /\ UNCHANGED <<step, cmd, returned, wrote, buf, bounce, edge, dma, line, asked,
                     card, stored, crossing>>
  BY DEF Card!Send
<1>2. PICK b \in Card!AnyBlock : b = Card!Block(card.n, sent + 1)
  <2>1. card.n \in 1..Commands /\ sent + 1 \in 1..Blocks + 1
    BY <1>1 DEF Card!TypeOK, Card!Asked
  <2> QED
    BY <2>1 DEF Card!AnyBlock
<1>3. /\ fifo' \in Seq(Card!AnyBlock) /\ Len(fifo') = Len(fifo) + 1
      /\ Len(fifo) \in Nat /\ fifo'[Len(fifo) + 1] = b
      /\ \A k \in 1..Len(fifo) : fifo'[k] = fifo[k]
  BY <1>1, <1>2, Enters DEF Card!TypeOK
<1>4. Card!TypeOK'
  <2>1. blc' \in 0..Blocks /\ sent' \in 0..Blocks /\ Len(fifo') <= FifoDepth
    BY <1>1, <1>3 DEF Card!TypeOK
  <2> QED
    BY <1>1, <1>3, <2>1 DEF Card!TypeOK
<1>5. Card!Calling' /\ Card!Asked' /\ Card!Clean' /\ Card!Memory' /\ Card!Kept'
  BY DEF Card!Send, Card!None, Card!Flushed, Card!Calling, Card!Asked,
         Card!Clean, Card!Memory, Card!Kept
<1>6. Card!Reading'
  <2>1. ASSUME cmd.kind = "read", step = "moving", line = "done"
        PROVE  /\ sent' = Card!Past + Len(fifo') /\ blc' = cmd.len - sent'
               /\ \A k \in 1..Len(fifo') : fifo'[k] = Card!Block(cmd.n, Card!Past + k)
    <3>1. /\ card.n = cmd.n /\ sent = Card!Past + Len(fifo) /\ blc = cmd.len - sent
          /\ \A k \in 1..Len(fifo) : fifo[k] = Card!Block(cmd.n, Card!Past + k)
      BY <2>1 DEF Card!Reading
    <3>2. cmd.len \in 0..Blocks /\ dma.left \in 0..Blocks /\ sent \in 0..Blocks
      BY DEF Card!TypeOK
    <3>3. Card!Past \in Int /\ sent < Blocks /\ sent' = sent + 1
      <4>1. Card!Past \in Int
        BY <3>2 DEF Card!Past
      <4>2. blc > 0 /\ blc = cmd.len - sent
        BY <1>1, <3>1
      <4>3. sent < Blocks
        BY <3>2, <4>2
      <4> QED
        BY <1>1, <4>1, <4>3
    <3>4. sent' = Card!Past + Len(fifo') /\ blc' = cmd.len - sent'
          /\ sent + 1 = Card!Past + (Len(fifo) + 1)
      BY <1>1, <1>3, <3>1, <3>2, <3>3
    <3>5. \A k \in 1..Len(fifo') : k \in 1..Len(fifo) \/ k = Len(fifo) + 1
      BY <1>3
    <3> QED
      BY <1>2, <1>3, <3>1, <3>4, <3>5
  <2>2. Card!Past' = Card!Past /\ Card!Target' = Card!Target
    BY <1>1 DEF Card!Past, Card!Target
  <2> QED
    BY <1>1, <2>1, <2>2 DEF Card!Reading
<1>7. Card!Writing'
  BY DEF Card!Send, Card!Kinds, Card!None, Card!Past, Card!OnBus,
         Card!Flushed, Card!TypeOK, Card!Clean, Card!Writing
<1>8. Card!Budget'
  BY DEF Card!Send, Card!Kinds, Card!None, Card!OnBus, Card!Coming,
         Card!TypeOK, Card!Clean, Card!Budget
<1> QED
  BY <1>4, <1>5, <1>6, <1>7, <1>8

LEMMA CrossStep ==
  ASSUME Card!SizeAssumption, Card!IInv, Card!Cross
  PROVE  Card!IInv'
<1>1. /\ card.mode = "rcv" /\ fifo # <<>> /\ crossing = Card!None
      /\ crossing' = Head(fifo) /\ fifo' = Tail(fifo)
      /\ UNCHANGED <<step, cmd, returned, wrote, buf, bounce, edge, dma, line, asked,
                     blc, card, sent, stored>>
  BY DEF Card!Cross
<1>2. /\ crossing' \in Card!AnyBlock /\ fifo' \in Seq(Card!AnyBlock)
      /\ Len(fifo) \in Nat \ {0} /\ Len(fifo') = Len(fifo) - 1 /\ crossing' = fifo[1]
      /\ \A k \in 1..Len(fifo) - 1 : fifo'[k] = fifo[k + 1]
  BY <1>1, Leaves DEF Card!TypeOK
<1>3. Card!TypeOK'
  BY <1>1, <1>2 DEF Card!TypeOK, Card!AnyBlock
<1>4. Card!Calling' /\ Card!Asked' /\ Card!Clean' /\ Card!Memory' /\ Card!Reading'
      /\ Card!Kept'
  BY DEF Card!Cross, Card!None, Card!Past, Card!Target, Card!Flushed,
         Card!Calling, Card!Asked, Card!Clean, Card!Memory, Card!Reading,
         Card!Kept
<1>5. Card!Writing'
  <2>1. Card!Past' = Card!Past
    BY <1>1 DEF Card!Past
  <2>2. ASSUME cmd.kind = "write", step \in {"moving", "writing", "settle"},
               line = "done"
        PROVE  /\ Card!Past = Len(stored) + Card!OnBus' + Len(fifo')
               /\ crossing' = Card!Block(cmd.n, Len(stored) + 1)
               /\ \A k \in 1..Len(fifo') :
                     fifo'[k] = Card!Block(cmd.n, Len(stored) + Card!OnBus' + k)
    <3>1. /\ Card!Past = Len(stored) + Len(fifo) /\ Len(stored) \in Nat
          /\ \A k \in 1..Len(fifo) : fifo[k] = Card!Block(cmd.n, Len(stored) + k)
      BY <1>1, <1>2, <2>2, LenProperties DEF Card!Writing, Card!OnBus, Card!TypeOK
    <3>2. crossing' = Card!Block(cmd.n, Len(stored) + 1) /\ 1 \in 1..Len(fifo)
      BY <1>2, <3>1
    <3>3. Card!OnBus' = 1
      BY <2>2, <3>1, <3>2, Names DEF Card!OnBus, Card!Calling, Card!HasData,
             Card!TypeOK
    <3>4. \A k \in 1..Len(fifo') : k + 1 \in 1..Len(fifo)
             /\ Len(stored) + (k + 1) = Len(stored) + 1 + k
      BY <1>2, <3>1
    <3> QED
      BY <1>2, <3>1, <3>2, <3>3, <3>4
  <2>3. ~(cmd.kind = "write" /\ step = "settle" /\ line = "done")
    BY <1>1 DEF Card!Writing, Card!Flushed
  <2> QED
    BY <1>1, <2>1, <2>2, <2>3 DEF Card!Writing
<1>6. Card!Budget'
  <2>1. Card!OnBus = 0 /\ Card!OnBus' \in 0..1 /\ Card!Coming' = Card!Coming
        /\ Len(stored) \in Nat /\ Card!Coming \in Nat
    BY <1>1, LenProperties DEF Card!OnBus, Card!Coming, Card!TypeOK
  <2>2. Len(stored) + Card!OnBus' + Len(fifo') + Card!Coming'
           <= Len(stored) + Card!OnBus + Len(fifo) + Card!Coming
    BY <1>2, <2>1
  <2> QED
    BY <1>1, <1>3, <2>2, NoMore
<1> QED
  BY <1>3, <1>4, <1>5, <1>6

LEMMA KeepStep ==
  ASSUME Card!SizeAssumption, Card!IInv, Card!Keep
  PROVE  Card!IInv'
<1>1. /\ card.mode = "rcv" /\ crossing # Card!None /\ crossing' = Card!None
      /\ stored' = Append(stored, crossing)
      /\ UNCHANGED <<step, cmd, returned, wrote, buf, bounce, edge, dma, line, asked,
                     blc, fifo, card, sent>>
  BY DEF Card!Keep
<1>2. /\ stored' \in Seq(Card!AnyBlock) /\ Len(stored') = Len(stored) + 1
      /\ Len(stored) \in Nat /\ stored'[Len(stored) + 1] = crossing
      /\ \A k \in 1..Len(stored) : stored'[k] = stored[k]
  BY <1>1, Enters DEF Card!TypeOK
<1>3. Card!OnBus = 1 /\ Card!OnBus' = 0 /\ Card!Coming' = Card!Coming
      /\ Card!Past' = Card!Past
  BY <1>1 DEF Card!OnBus, Card!Coming, Card!Past
<1>4. Card!TypeOK'
  <2>1. Len(stored') <= Blocks * Commands
    <3>1. PICK room \in Nat, all \in Nat :
            room = Blocks * cmd.n /\ all = Blocks * Commands /\ room <= all
      BY Asks DEF Card!TypeOK
    <3>2. Len(fifo) \in Nat /\ Card!Coming \in Nat
      BY LenProperties DEF Card!TypeOK, Card!Coming
    <3>3. Len(stored) + 1 + Len(fifo) + Card!Coming <= room
      BY <1>1, <1>3, <3>1 DEF Card!Budget
    <3> QED
      BY <1>2, <3>1, <3>2, <3>3
  <2>2. crossing' \in Card!AnyBlock
    BY <1>1 DEF Card!AnyBlock
  <2> QED
    BY <1>1, <1>2, <2>1, <2>2 DEF Card!TypeOK, Card!AnyBlock
<1>5. Card!Calling' /\ Card!Asked' /\ Card!Clean' /\ Card!Memory' /\ Card!Reading'
      /\ Card!Kept'
  BY DEF Card!Keep, Card!None, Card!Past, Card!Target, Card!Flushed,
         Card!Calling, Card!Asked, Card!Clean, Card!Memory, Card!Reading,
         Card!Kept
<1>6. Card!Writing'
  <2>1. ASSUME cmd.kind = "write", step \in {"moving", "writing", "settle"},
               line = "done"
        PROVE  /\ Card!Past = Len(stored') + Card!OnBus' + Len(fifo)
               /\ \A k \in 1..Len(stored') : stored'[k] = Card!Block(cmd.n, k)
               /\ \A k \in 1..Len(fifo) :
                     fifo[k] = Card!Block(cmd.n, Len(stored') + Card!OnBus' + k)
    <3>1. /\ Card!Past = Len(stored) + 1 + Len(fifo)
          /\ \A k \in 1..Len(stored) : stored[k] = Card!Block(cmd.n, k)
          /\ crossing = Card!Block(cmd.n, Len(stored) + 1)
          /\ \A k \in 1..Len(fifo) : fifo[k] = Card!Block(cmd.n, Len(stored) + 1 + k)
      BY <1>1, <1>3, <2>1 DEF Card!Writing
    <3>2. \A k \in 1..Len(stored') : k \in 1..Len(stored) \/ k = Len(stored) + 1
      BY <1>2
    <3>3. Len(stored') + Card!OnBus' = Len(stored) + 1
      BY <1>2, <1>3
    <3> QED
      BY <1>2, <3>1, <3>2, <3>3
  <2>2. ~(cmd.kind = "write" /\ step = "settle" /\ line = "done")
    BY <1>1 DEF Card!Writing, Card!Flushed
  <2> QED
    BY <1>1, <1>3, <2>1, <2>2 DEF Card!Writing
<1>7. Card!Budget'
  <2>1. Len(fifo) \in Nat /\ Card!Coming \in Nat
    BY LenProperties DEF Card!TypeOK, Card!Coming
  <2> QED
    BY <1>1, <1>2, <1>3, <1>4, <2>1, NoMore
<1> QED
  BY <1>4, <1>5, <1>6, <1>7

LEMMA FetchStep ==
  ASSUME Card!SizeAssumption, Card!IInv, Card!Fetch
  PROVE  Card!IInv'
<1>1. /\ step = "moving" /\ cmd.kind = "read" /\ dma.left > 0
      /\ fifo # <<>> /\ fifo' = Tail(fifo)
      /\ UNCHANGED <<step, cmd, returned, wrote, edge, line, asked, blc, card, sent,
                     stored, crossing>>
  <2>1. dma.way = "read" /\ dma.left > 0
    BY DEF Card!Fetch
  <2>2. step = "moving"
    BY <2>1 DEF Card!Calling
  <2> QED
    BY <2>1, <2>2 DEF Card!Fetch, Card!Calling
<1>2. /\ Head(fifo) \in Card!AnyBlock /\ fifo' \in Seq(Card!AnyBlock)
      /\ Len(fifo) \in Nat \ {0} /\ Len(fifo') = Len(fifo) - 1 /\ Head(fifo) = fifo[1]
      /\ \A k \in 1..Len(fifo) - 1 : fifo'[k] = fifo[k + 1]
  BY <1>1, Leaves DEF Card!TypeOK
<1>3. /\ dma'.left = dma.left - 1 /\ dma'.way = dma.way /\ dma.left \in 1..Blocks
      /\ dma' \in [way : {"none", "read", "write"}, left : 0..Blocks]
      /\ Card!Past \in Nat /\ Card!Past' = Card!Past + 1 /\ dma.left <= cmd.len
      /\ cmd.len - dma.left + 1 = Card!Past + 1
  <2>1. /\ dma \in [way : {"none", "read", "write"}, left : 0..Blocks]
        /\ dma.left \in 1..Blocks /\ cmd.len \in 0..Blocks /\ dma.left <= cmd.len
    BY <1>1 DEF Card!TypeOK, Card!Calling
  <2>2. dma' = [dma EXCEPT !.left = dma.left - 1] /\ dma.left - 1 \in 0..Blocks
    BY <2>1 DEF Card!Fetch
  <2>3. /\ dma' \in [way : {"none", "read", "write"}, left : 0..Blocks]
        /\ dma'.left = dma.left - 1 /\ dma'.way = dma.way
    BY <2>1, <2>2
  <2> QED
    BY <1>1, <2>1, <2>3 DEF Card!Past
<1>4. PICK j : j = Card!Past + 1
  OBVIOUS
<1>5. /\ j \in DOMAIN Card!Target
      /\ Card!Target' = [Card!Target EXCEPT ![j] = Head(fifo)]
      /\ IF cmd.direct THEN bounce' = bounce ELSE buf' = buf
  BY <1>1, <1>3, <1>4 DEF Card!Fetch, Card!Target
<1>6. Card!Target \in Seq(Card!AnyBlock)
  BY DEF Card!Target, Card!TypeOK
<1>7. /\ Card!Target' \in Seq(Card!AnyBlock) /\ Len(Card!Target') = Len(Card!Target)
      /\ j \in 1..Len(Card!Target) /\ Len(Card!Target) \in Nat
      /\ \A k \in 1..Len(Card!Target) :
            Card!Target'[k] = IF k = j THEN Head(fifo) ELSE Card!Target[k]
  BY <1>2, <1>5, <1>6, Lands
<1>8. /\ buf' \in Seq(Card!AnyBlock) /\ Len(buf') = Len(buf)
      /\ bounce' \in Seq(Card!AnyBlock) /\ Len(bounce') = Len(bounce)
  BY <1>1, <1>5, <1>7 DEF Card!Target, Card!TypeOK
<1>9. Card!TypeOK'
  <2>1. Len(fifo') <= FifoDepth
    BY <1>2 DEF Card!TypeOK
  <2> QED
    BY <1>1, <1>2, <1>3, <1>8, <2>1 DEF Card!TypeOK
<1>10. Card!Asked' /\ Card!Clean' /\ Card!Kept'
  BY DEF Card!Fetch, Card!None, Card!Flushed, Card!Asked, Card!Clean,
         Card!Kept
<1>11. Card!Calling'
  BY <1>1, <1>3 DEF Card!Calling, Card!TypeOK
<1>12. Card!Memory'
  BY <1>1, <1>8 DEF Card!Memory
<1>13. Card!Reading'
  <2>1. ASSUME line = "done"
        PROVE  /\ card = [n |-> cmd.n, mode |-> "data"]
               /\ sent = Card!Past' + Len(fifo') /\ blc = cmd.len - sent
               /\ \A k \in 1..Card!Past' : Card!Target'[k] = Card!Block(cmd.n, k)
               /\ \A k \in 1..Len(fifo') :
                     fifo'[k] = Card!Block(cmd.n, Card!Past' + k)
    <3>1. /\ card = [n |-> cmd.n, mode |-> "data"]
          /\ sent = Card!Past + Len(fifo) /\ blc = cmd.len - sent
          /\ \A k \in 1..Card!Past : Card!Target[k] = Card!Block(cmd.n, k)
          /\ \A k \in 1..Len(fifo) : fifo[k] = Card!Block(cmd.n, Card!Past + k)
      BY <1>1, <2>1 DEF Card!Reading
    <3>2. Head(fifo) = Card!Block(cmd.n, Card!Past + 1)
      BY <1>2, <3>1
    <3>3. ASSUME NEW k \in 1..Card!Past' PROVE Card!Target'[k] = Card!Block(cmd.n, k)
      <4>1. k \in 1..Len(Card!Target) /\ (k = j \/ k \in 1..Card!Past)
        BY <1>3, <1>4, <1>7
      <4> QED
        BY <1>4, <1>7, <3>1, <3>2, <4>1
    <3>4. ASSUME NEW k \in 1..Len(fifo')
          PROVE  fifo'[k] = Card!Block(cmd.n, Card!Past' + k)
      <4>1. PICK i \in 1..Len(fifo) : i = k + 1 /\ fifo'[k] = fifo[i]
        BY <1>2
      <4>2. Card!Past + i = Card!Past' + k
        BY <1>2, <1>3, <4>1
      <4> QED
        BY <3>1, <4>1, <4>2
    <3> QED
      BY <1>2, <1>3, <3>1, <3>3, <3>4
  <2>2. ~(line = "new" /\ card.mode = "tran")
    BY <1>1 DEF Card!Reading
  <2> QED
    BY <1>1, <2>1, <2>2 DEF Card!Reading
<1>14. Card!Writing'
  BY DEF Card!Fetch, Card!Kinds, Card!Past, Card!OnBus, Card!None,
         Card!Flushed, Card!TypeOK, Card!Calling, Card!Writing
<1>15. Card!Budget'
  <2>1. Card!Coming = 0 /\ Card!Coming' = 0 /\ Card!OnBus' = Card!OnBus
        /\ Card!OnBus \in Nat /\ Len(stored) \in Nat
    BY <1>1, LenProperties DEF Card!Coming, Card!OnBus, Card!TypeOK
  <2> QED
    BY <1>1, <1>2, <1>9, <2>1, NoMore
<1> QED
  BY <1>9, <1>10, <1>11, <1>12, <1>13, <1>14, <1>15

LEMMA FeedStep ==
  ASSUME Card!SizeAssumption, Card!IInv, Card!Feed
  PROVE  Card!IInv'
<1>1. /\ step = "moving" /\ cmd.kind = "write" /\ dma.left > 0
      /\ Len(fifo) < FifoDepth
      /\ fifo' = Append(fifo, Card!Target[cmd.len - dma.left + 1])
      /\ UNCHANGED <<step, cmd, returned, wrote, buf, bounce, edge, line, asked, blc,
                     card, sent, stored, crossing>>
  <2>1. dma.way = "write" /\ dma.left > 0
    BY DEF Card!Feed
  <2>2. step = "moving"
    BY <2>1 DEF Card!Calling
  <2> QED
    BY <2>1, <2>2 DEF Card!Feed, Card!Calling, Card!Target
<1>2. /\ dma'.left = dma.left - 1 /\ dma'.way = dma.way /\ dma.left \in 1..Blocks
      /\ dma' \in [way : {"none", "read", "write"}, left : 0..Blocks]
      /\ Card!Past \in Nat /\ Card!Past' = Card!Past + 1 /\ Card!Past < cmd.len
      /\ cmd.len - dma.left + 1 = Card!Past + 1 /\ dma.left <= cmd.len
  <2>1. /\ dma \in [way : {"none", "read", "write"}, left : 0..Blocks]
        /\ dma.left \in 1..Blocks /\ cmd.len \in 0..Blocks /\ dma.left <= cmd.len
    BY <1>1 DEF Card!TypeOK, Card!Calling
  <2>2. dma' = [dma EXCEPT !.left = dma.left - 1] /\ dma.left - 1 \in 0..Blocks
    BY <2>1 DEF Card!Feed
  <2>3. /\ dma' \in [way : {"none", "read", "write"}, left : 0..Blocks]
        /\ dma'.left = dma.left - 1 /\ dma'.way = dma.way
    BY <2>1, <2>2
  <2> QED
    BY <1>1, <2>1, <2>3 DEF Card!Past
<1>3. /\ cmd.n \in 1..Commands /\ cmd.len \in 0..Blocks
      /\ Card!Target = Card!Whole(cmd.n, cmd.len)
  BY <1>1 DEF Card!Memory, Card!Target, Card!Calling, Card!TypeOK
<1>4. PICK b \in Card!AnyBlock :
         b = Card!Target[cmd.len - dma.left + 1] /\ b = Card!Block(cmd.n, Card!Past + 1)
  <2>1. Card!Past + 1 \in 1..cmd.len
    BY <1>2, <1>3
  <2>2. Card!Target[Card!Past + 1] = Card!Block(cmd.n, Card!Past + 1)
    BY <1>3, <2>1, Wholes
  <2>3. Card!Block(cmd.n, Card!Past + 1) \in Card!AnyBlock
    BY <1>3, <2>1 DEF Card!AnyBlock
  <2> QED
    BY <1>2, <2>2, <2>3
<1>5. /\ fifo' \in Seq(Card!AnyBlock) /\ Len(fifo') = Len(fifo) + 1
      /\ Len(fifo) \in Nat /\ fifo'[Len(fifo) + 1] = b
      /\ \A k \in 1..Len(fifo) : fifo'[k] = fifo[k]
  BY <1>1, <1>4, Enters DEF Card!TypeOK
<1>6. Card!TypeOK'
  <2>1. Len(fifo') <= FifoDepth
    BY <1>1, <1>5 DEF Card!TypeOK
  <2> QED
    BY <1>1, <1>2, <1>5, <2>1 DEF Card!TypeOK
<1>7. Card!Asked' /\ Card!Memory'
  BY DEF Card!Feed, Card!Asked, Card!Memory
<1>8. Card!Calling'
  BY <1>1, <1>2 DEF Card!Calling, Card!TypeOK
<1>9. Card!Clean'
  BY <1>1 DEF Card!Clean
<1>10. Card!Reading'
  BY <1>1 DEF Card!Reading
<1>11. Card!Writing'
  <2>1. \A k \in 1..Len(fifo') : k \in 1..Len(fifo) \/ k = Len(fifo) + 1
    BY <1>5
  <2>2. Card!OnBus' = Card!OnBus /\ Card!OnBus \in Nat /\ Len(stored) \in Nat
    BY <1>1, LenProperties DEF Card!OnBus, Card!TypeOK
  <2>3. ASSUME line = "done"
        PROVE  /\ Card!Past' = Len(stored) + Card!OnBus' + Len(fifo')
               /\ \A k \in 1..Len(fifo') :
                     fifo'[k] = Card!Block(cmd.n, Len(stored) + Card!OnBus' + k)
    <3>1. /\ Card!Past = Len(stored) + Card!OnBus + Len(fifo)
          /\ \A k \in 1..Len(fifo) :
                fifo[k] = Card!Block(cmd.n, Len(stored) + Card!OnBus + k)
      BY <1>1, <2>3 DEF Card!Writing
    <3>2. Card!Past + 1 = Len(stored) + Card!OnBus + (Len(fifo) + 1)
      BY <1>5, <2>2, <3>1
    <3> QED
      BY <1>2, <1>4, <1>5, <2>1, <2>2, <3>1, <3>2
  <2>4. ASSUME line = "new", card.mode = "tran"
        PROVE  /\ Len(fifo') = Card!Past'
               /\ \A k \in 1..Len(fifo') : fifo'[k] = Card!Block(cmd.n, k)
    <3>1. /\ Len(fifo) = Card!Past
          /\ \A k \in 1..Len(fifo) : fifo[k] = Card!Block(cmd.n, k)
      BY <1>1, <2>4 DEF Card!Writing
    <3> QED
      BY <1>2, <1>4, <1>5, <2>1, <3>1
  <2> QED
    BY <1>1, <2>2, <2>3, <2>4 DEF Card!Writing
<1>12. Card!Kept'
  BY <1>1 DEF Card!Kept
<1>13. Card!Budget'
  <2>1. Card!Coming = dma.left /\ Card!Coming' = dma.left - 1
        /\ Card!OnBus' = Card!OnBus /\ Card!OnBus \in Nat /\ Len(stored) \in Nat
    BY <1>1, <1>2, LenProperties DEF Card!Coming, Card!OnBus, Card!TypeOK
  <2> QED
    BY <1>1, <1>2, <1>5, <1>6, <2>1, NoMore
<1> QED
  BY <1>6, <1>7, <1>8, <1>9, <1>10, <1>11, <1>12, <1>13

LEMMA NeighbourStep ==
  ASSUME Card!SizeAssumption, Card!IInv, Card!Neighbour
  PROVE  Card!IInv'
<1>1. Card!TypeOK'
  BY DEF Card!Neighbour, Card!Kinds, Card!TypeOK
<1>2. Card!Calling' /\ Card!Asked' /\ Card!Clean' /\ Card!Memory' /\ Card!Reading'
      /\ Card!Writing' /\ Card!Kept' /\ Card!Budget'
  BY DEF Card!Neighbour, Card!None, Card!Past, Card!Target, Card!OnBus,
         Card!Flushed, Card!Coming, Card!Calling, Card!Asked, Card!Clean,
         Card!Memory, Card!Reading, Card!Writing, Card!Kept, Card!Budget
<1> QED
  BY <1>1, <1>2

LEMMA CardInductive ==
  ASSUME Card!SizeAssumption, Card!IInv, [Card!Next]_Card!vars
  PROVE  Card!IInv'
<1>1. CASE UNCHANGED Card!vars
  BY <1>1 DEF Card!vars, Card!TypeOK, Card!Calling, Card!Asked, Card!Clean,
         Card!Memory, Card!Reading, Card!Writing, Card!Kept, Card!Budget,
         Card!Target, Card!Past, Card!OnBus, Card!Flushed, Card!Coming
<1>2. ASSUME NEW kind \in {"read", "write"}, NEW len \in 1..Blocks,
             NEW direct \in BOOLEAN, Card!Call(kind, len, direct)
      PROVE  Card!IInv'
  BY <1>2, CallStep DEF Card!Kinds
<1>3. CASE Card!Call("stop", 0, TRUE)
  <2>1. "stop" \in Card!Kinds /\ 0 \in 0..Blocks /\ TRUE \in BOOLEAN
    BY DEF Card!Kinds
  <2> QED
    BY <1>3, <2>1, CallStep
<1>4. CASE Card!SendCmd
  BY <1>4, ReadyStep, BusyStep, ClearStep, SetupStep, NoPathStep, IssueStep, MovedStep,
     MoveTimeoutStep, WrittenStep, WriteTimeoutStep, SettleStep DEF Card!SendCmd
<1>5. CASE Card!Machine
  BY <1>5, TakeStep, NoAnswerStep, SendStep, CrossStep, KeepStep, FetchStep, FeedStep,
     NeighbourStep DEF Card!Machine
<1> QED
  BY <1>1, <1>2, <1>3, <1>4, <1>5 DEF Card!Next

\* Where the channel, the FIFO, the bus and the card's own memory stand with a
\* transfer, at every point of SendCmd and after it.
THEOREM CardIsFollowed ==
  ASSUME Card!SizeAssumption
  PROVE  Card!Spec => []Card!IInv
BY InitCard, CardInductive, PTL DEF Card!Spec

\* A read that returned 0 left in the caller's buffer what the card sent for that
\* command, in order, whatever earlier commands left behind -- where the buffer
\* shares no cache line.
THEOREM ReadsAreTheCards ==
  ASSUME Card!SizeAssumption, Shared = FALSE
  PROVE  Card!Spec => []Card!ReadIsCards
<1>1. Card!IInv => Card!ReadIsCards
  BY DEF Card!Reading, Card!ReadIsCards
<1> QED
  BY <1>1, CardIsFollowed, PTL

\* A write that returned 0 is on the card in full when its CMD12 has returned 0.
THEOREM WritesAreKept ==
  ASSUME Card!SizeAssumption
  PROVE  Card!Spec => []Card!WriteKept
<1>1. Card!IInv => Card!WriteKept
  <2> SUFFICES ASSUME Card!IInv, wrote > 0 PROVE Card!WriteKept
    BY DEF Card!WriteKept
  <2>1. stored = Card!Whole(wrote, Len(buf)) /\ Len(buf) \in Nat
    BY LenProperties DEF Card!Kept, Card!TypeOK
  <2> QED
    BY <2>1 DEF Card!Whole, Card!WriteKept
<1> QED
  BY <1>1, CardIsFollowed, PTL

\* No channel runs between two calls: a buffer is its owner's when SendCmd returns,
\* with success or without.
THEOREM BuffersAreReturned ==
  ASSUME Card!SizeAssumption
  PROVE  Card!Spec => []Card!BufferReturned
<1>1. Card!IInv => Card!BufferReturned
  BY DEF Card!Calling, Card!BufferReturned
<1> QED
  BY <1>1, CardIsFollowed, PTL

\* All that the card's host promises, where no cache line is shared.
THEOREM CardIsKept ==
  ASSUME Card!SizeAssumption, Shared = FALSE
  PROVE  Card!Spec => []Card!CardKept
<1>1. Card!IInv => Card!TypeOK
  OBVIOUS
<1> QED
  BY <1>1, CardIsFollowed, ReadsAreTheCards, WritesAreKept, BuffersAreReturned, PTL
     DEF Card!CardKept

-----------------------------------------------------------------------------
(* The jobs of the 3D engine.                                              *)

\* Abbreviations of the model, visible in what follows.
USE DEF V3d!IInv, V3d!EngineAssumption, V3d!engine, V3d!counts, V3d!pools, V3d!clients,
        V3d!service, V3d!Next1, V3d!Ended, V3d!Active

LEMMA InitJobs ==
  ASSUME V3d!EngineAssumption, V3d!Init
  PROVE  V3d!IInv
<1> USE DEF V3d!Init
<1>1. V3d!Numbers /\ V3d!Locked
  BY DEF V3d!Numbers, V3d!Labels, V3d!Locked
<1>2. V3d!Order /\ V3d!Accounted
  BY DEF V3d!Order, V3d!Begun, V3d!Jobs, V3d!Started, V3d!Stashed, V3d!Busy,
         V3d!Accounted, V3d!Lost
<1>3. V3d!Counted
  BY DEF V3d!Counted, V3d!Frames
<1> QED
  BY <1>1, <1>2, <1>3

\* What the renderer is handed leaves the stash: no job comes or goes.
LEMMA SameJobs ==
  ASSUME V3d!EngineAssumption, V3d!IInv,
         UNCHANGED <<ct0, hung, binned, rendered, killed, seqno, at>>,
         \/ UNCHANGED <<ct1, pending_render>>
         \/ pending_render # 0 /\ ct1 = 0 /\ ct1' = pending_render /\ pending_render' = 0
  PROVE  V3d!Order' /\ V3d!Accounted'
<1>1. V3d!Order'
  BY DEF V3d!Order, V3d!Begun, V3d!Jobs, V3d!Started, V3d!Stashed, V3d!Busy,
         V3d!Numbers
<1>2. V3d!Accounted'
  BY DEF V3d!Order, V3d!Jobs, V3d!Stashed, V3d!Accounted, V3d!Lost, V3d!Numbers
<1> QED
  BY <1>1, <1>2

LEMMA NeedMemoryKeeps ==
  ASSUME V3d!EngineAssumption, V3d!IInv, V3d!NeedMemory
  PROVE  V3d!IInv'
<1>1. V3d!Numbers' /\ V3d!Locked' /\ V3d!Order' /\ V3d!Accounted' /\ V3d!Counted'
  BY DEF V3d!NeedMemory, V3d!Labels, V3d!Begun, V3d!Jobs, V3d!Busy, V3d!Lost,
         V3d!Started, V3d!Stashed, V3d!Frames, V3d!Numbers, V3d!Locked,
         V3d!Order, V3d!Accounted, V3d!Counted
<1> QED
  BY <1>1

LEMMA BinDoneKeeps ==
  ASSUME V3d!EngineAssumption, V3d!IInv, V3d!BinDone
  PROVE  V3d!IInv'
<1>1. V3d!Numbers' /\ V3d!Locked' /\ V3d!Order' /\ V3d!Accounted' /\ V3d!Counted'
  BY DEF V3d!BinDone, V3d!Labels, V3d!Begun, V3d!Jobs, V3d!Busy, V3d!Lost,
         V3d!Started, V3d!Stashed, V3d!Frames, V3d!Numbers, V3d!Locked,
         V3d!Order, V3d!Accounted, V3d!Counted
<1> QED
  BY <1>1

LEMMA RenderDoneKeeps ==
  ASSUME V3d!EngineAssumption, V3d!IInv, V3d!RenderDone
  PROVE  V3d!IInv'
<1>1. V3d!Numbers' /\ V3d!Locked' /\ V3d!Order' /\ V3d!Accounted'
  BY DEF V3d!RenderDone, V3d!Labels, V3d!Begun, V3d!Jobs, V3d!Busy, V3d!Lost,
         V3d!Started, V3d!Stashed, V3d!Numbers, V3d!Locked, V3d!Order,
         V3d!Accounted
<1>2. V3d!Counted'
  BY DEF V3d!RenderDone, V3d!Labels, V3d!Begun, V3d!Jobs, V3d!Busy, V3d!Lost,
         V3d!Started, V3d!Stashed, V3d!Frames, V3d!Numbers, V3d!Locked,
         V3d!Order, V3d!Accounted, V3d!Counted
<1> QED
  BY <1>1, <1>2

LEMMA HangKeeps ==
  ASSUME V3d!EngineAssumption, V3d!IInv, V3d!Hang
  PROVE  V3d!IInv'
<1>1. V3d!Numbers' /\ V3d!Locked' /\ V3d!Order' /\ V3d!Accounted' /\ V3d!Counted'
  BY DEF V3d!Hang, V3d!Labels, V3d!Begun, V3d!Jobs, V3d!Busy, V3d!Lost,
         V3d!Started, V3d!Stashed, V3d!Frames, V3d!Numbers, V3d!Locked,
         V3d!Order, V3d!Accounted, V3d!Counted
<1> QED
  BY <1>1

LEMMA WakeKeeps ==
  ASSUME V3d!EngineAssumption, V3d!IInv, V3d!Wake
  PROVE  V3d!IInv'
<1>1. V3d!Numbers' /\ V3d!Locked' /\ V3d!Order' /\ V3d!Accounted' /\ V3d!Counted'
  BY DEF V3d!Wake, V3d!Labels, V3d!Begun, V3d!Jobs, V3d!Busy, V3d!Lost,
         V3d!Started, V3d!Stashed, V3d!Frames, V3d!Numbers, V3d!Locked,
         V3d!Order, V3d!Accounted, V3d!Counted
<1> QED
  BY <1>1

LEMMA PollKeeps ==
  ASSUME V3d!EngineAssumption, V3d!IInv, V3d!Poll
  PROVE  V3d!IInv'
<1>1. /\ UNCHANGED <<ct0, hung, RFC, binned, rendered, killed, seqno, finished_seqno,
                     last_rfc, rfc_completed, at, ret, render_lock>>
      /\ \/ UNCHANGED <<ct1, pending_render>>
         \/ pending_render # 0 /\ ct1 = 0 /\ ct1' = pending_render /\ pending_render' = 0
  BY DEF V3d!Poll, V3d!Service, V3d!Kick
<1>2. V3d!Numbers' /\ V3d!Locked' /\ V3d!Counted'
  BY <1>1 DEF V3d!Numbers, V3d!Locked, V3d!Frames, V3d!Counted
<1>3. V3d!Order' /\ V3d!Accounted'
  BY <1>1, SameJobs
<1> QED
  BY <1>2, <1>3


LEMMA BeginWaitKeeps ==
  ASSUME V3d!EngineAssumption, V3d!IInv, NEW c \in Client, V3d!BeginWait(c)
  PROVE  V3d!IInv'
<1>1. V3d!Numbers' /\ V3d!Counted'
  BY DEF V3d!BeginWait, V3d!At, V3d!Lock, V3d!WaitFor, V3d!Labels, V3d!Goto,
         V3d!Frames, V3d!Numbers, V3d!Counted
<1>2. V3d!Locked'
  BY DEF V3d!BeginWait, V3d!At, V3d!Lock, V3d!WaitFor, V3d!Labels, V3d!Goto,
         V3d!Numbers, V3d!Locked
<1>3. V3d!Order'
  BY DEF V3d!BeginWait, V3d!At, V3d!Lock, V3d!WaitFor, V3d!Labels, V3d!Begun,
         V3d!Jobs, V3d!Busy, V3d!Goto, V3d!Started, V3d!Stashed, V3d!Numbers,
         V3d!Order
<1>4. V3d!Accounted'
  BY DEF V3d!BeginWait, V3d!At, V3d!Lock, V3d!WaitFor, V3d!Labels, V3d!Jobs,
         V3d!Lost, V3d!Goto, V3d!Stashed, V3d!Numbers, V3d!Accounted
<1> QED
  BY <1>1, <1>2, <1>3, <1>4

LEMMA BeginProbeKeeps ==
  ASSUME V3d!EngineAssumption, V3d!IInv, NEW c \in Client, V3d!BeginProbe(c)
  PROVE  V3d!IInv'
<1>1. V3d!Numbers' /\ V3d!Order' /\ V3d!Accounted' /\ V3d!Counted'
  BY DEF V3d!BeginProbe, V3d!At, V3d!Lock, V3d!WaitFor, V3d!Labels, V3d!Begun,
         V3d!Jobs, V3d!Busy, V3d!Lost, V3d!Goto, V3d!Started, V3d!Stashed,
         V3d!Frames, V3d!Numbers, V3d!Order, V3d!Accounted, V3d!Counted
<1>2. V3d!Locked'
  BY DEF V3d!BeginProbe, V3d!At, V3d!Lock, V3d!WaitFor, V3d!Labels, V3d!Goto,
         V3d!Numbers, V3d!Locked
<1> QED
  BY <1>1, <1>2

LEMMA ServeKeeps ==
  ASSUME V3d!EngineAssumption, V3d!IInv, NEW c \in Client, V3d!Serve(c)
  PROVE  V3d!IInv'
<1>1. V3d!Numbers' /\ V3d!Locked' /\ V3d!Order' /\ V3d!Counted'
  BY DEF V3d!Serve, V3d!At, V3d!Service, V3d!Goto, V3d!Labels, V3d!Begun,
         V3d!Jobs, V3d!Busy, V3d!Feed, V3d!Kick, V3d!Started, V3d!Stashed,
         V3d!Frames, V3d!Numbers, V3d!Locked, V3d!Order, V3d!Counted
<1>2. V3d!Accounted'
  BY DEF V3d!Serve, V3d!At, V3d!Service, V3d!Goto, V3d!Labels, V3d!Begun,
         V3d!Jobs, V3d!Busy, V3d!Lost, V3d!Feed, V3d!Kick, V3d!Started,
         V3d!Stashed, V3d!Numbers, V3d!Locked, V3d!Order, V3d!Accounted
<1> QED
  BY <1>1, <1>2

LEMMA CountFramesKeeps ==
  ASSUME V3d!EngineAssumption, V3d!IInv, NEW c \in Client, V3d!CountFrames(c)
  PROVE  V3d!IInv'
<1>1. V3d!Numbers'
  BY DEF V3d!CountFrames, V3d!At, V3d!Advance, V3d!Leave, V3d!Goto,
         V3d!Labels, V3d!Reached, V3d!Kick, V3d!Numbers
<1>2. V3d!Locked'
  BY DEF V3d!CountFrames, V3d!At, V3d!Advance, V3d!Leave, V3d!Goto,
         V3d!Labels, V3d!Reached, V3d!Kick, V3d!Numbers, V3d!Locked
<1>3. V3d!Order'
  BY DEF V3d!CountFrames, V3d!At, V3d!Advance, V3d!Leave, V3d!Goto,
         V3d!Labels, V3d!Begun, V3d!Jobs, V3d!Busy, V3d!Reached, V3d!Kick,
         V3d!Started, V3d!Stashed, V3d!Numbers, V3d!Order
<1>4. V3d!Accounted'
  BY DEF V3d!CountFrames, V3d!At, V3d!Advance, V3d!Leave, V3d!Goto,
         V3d!Labels, V3d!Begun, V3d!Jobs, V3d!Busy, V3d!Lost, V3d!Reached,
         V3d!Kick, V3d!Started, V3d!Stashed, V3d!Numbers, V3d!Locked,
         V3d!Order, V3d!Accounted
<1>5. V3d!Counted'
  BY DEF V3d!CountFrames, V3d!At, V3d!Advance, V3d!Leave, V3d!Goto,
         V3d!Labels, V3d!Begun, V3d!Jobs, V3d!Busy, V3d!Lost, V3d!Reached,
         V3d!Kick, V3d!Started, V3d!Stashed, V3d!Frames, V3d!Numbers,
         V3d!Locked, V3d!Order, V3d!Accounted, V3d!Counted
<1> QED
  BY <1>1, <1>2, <1>3, <1>4, <1>5

LEMMA TimeOutKeeps ==
  ASSUME V3d!EngineAssumption, V3d!IInv, NEW c \in Client, V3d!TimeOut(c)
  PROVE  V3d!IInv'
<1>1. V3d!Numbers'
  BY DEF V3d!TimeOut, V3d!At, V3d!Resnapshot, V3d!Leave, V3d!Labels, V3d!Goto,
         V3d!Numbers
<1>2. V3d!Locked'
  BY DEF V3d!TimeOut, V3d!At, V3d!Resnapshot, V3d!Leave, V3d!Labels, V3d!Goto,
         V3d!Numbers, V3d!Locked
<1>3. V3d!Order'
  BY DEF V3d!TimeOut, V3d!At, V3d!Resnapshot, V3d!Leave, V3d!Labels,
         V3d!Begun, V3d!Jobs, V3d!Busy, V3d!Goto, V3d!Started, V3d!Stashed,
         V3d!Numbers, V3d!Order
<1>4. V3d!Accounted'
  BY DEF V3d!TimeOut, V3d!At, V3d!Resnapshot, V3d!Leave, V3d!Labels, V3d!Jobs,
         V3d!Lost, V3d!Goto, V3d!Stashed, V3d!Numbers, V3d!Locked,
         V3d!Accounted
<1>5. V3d!Counted'
  BY DEF V3d!TimeOut, V3d!At, V3d!Resnapshot, V3d!Leave, V3d!Labels, V3d!Goto,
         V3d!Frames, V3d!Numbers, V3d!Counted
<1> QED
  BY <1>1, <1>2, <1>3, <1>4, <1>5

LEMMA BeginSubmitKeeps ==
  ASSUME V3d!EngineAssumption, V3d!IInv, NEW c \in Client, V3d!BeginSubmit(c)
  PROVE  V3d!IInv'
<1>1. V3d!Numbers' /\ V3d!Counted'
  BY DEF V3d!BeginSubmit, V3d!At, V3d!Lock, V3d!InFlight, V3d!WaitFor,
         V3d!Goto, V3d!Labels, V3d!Frames, V3d!Numbers, V3d!Counted
<1>2. V3d!Locked'
  BY DEF V3d!BeginSubmit, V3d!At, V3d!Lock, V3d!InFlight, V3d!WaitFor,
         V3d!Goto, V3d!Labels, V3d!Numbers, V3d!Locked
<1>3. V3d!Order'
  BY DEF V3d!BeginSubmit, V3d!At, V3d!Lock, V3d!InFlight, V3d!WaitFor,
         V3d!Goto, V3d!Labels, V3d!Begun, V3d!Jobs, V3d!Busy, V3d!Started,
         V3d!Stashed, V3d!Numbers, V3d!Order
<1>4. V3d!Accounted'
  BY DEF V3d!BeginSubmit, V3d!At, V3d!Lock, V3d!InFlight, V3d!WaitFor,
         V3d!Goto, V3d!Labels, V3d!Jobs, V3d!Lost, V3d!Stashed, V3d!Numbers,
         V3d!Accounted
<1> QED
  BY <1>1, <1>2, <1>3, <1>4

LEMMA BuildKeeps ==
  ASSUME V3d!EngineAssumption, V3d!IInv, NEW c \in Client, V3d!Build(c)
  PROVE  V3d!IInv'
<1>1. V3d!Numbers' /\ V3d!Counted'
  BY DEF V3d!Build, V3d!At, V3d!Goto, V3d!Labels, V3d!Frames, V3d!Numbers,
         V3d!Counted
<1>2. V3d!Locked'
  BY DEF V3d!Build, V3d!At, V3d!Goto, V3d!Labels, V3d!Numbers, V3d!Locked
<1>3. V3d!Order'
  BY DEF V3d!Build, V3d!At, V3d!Goto, V3d!Labels, V3d!Begun, V3d!Jobs,
         V3d!Busy, V3d!Started, V3d!Stashed, V3d!Numbers, V3d!Order
<1>4. V3d!Accounted'
  BY DEF V3d!Build, V3d!At, V3d!Goto, V3d!Labels, V3d!Jobs, V3d!Lost,
         V3d!Stashed, V3d!Numbers, V3d!Accounted
<1> QED
  BY <1>1, <1>2, <1>3, <1>4

LEMMA DrainKeeps ==
  ASSUME V3d!EngineAssumption, V3d!IInv, NEW c \in Client, V3d!Drain(c)
  PROVE  V3d!IInv'
<1>1. /\ at[c] = "drain" /\ at' \in {[at EXCEPT ![c] = "drain2"], [at EXCEPT ![c] = "stash"]}
      /\ at'[c] = "stash" => hung # {} \/ ~V3d!Busy'
      /\ UNCHANGED <<ct0, hung, RFC, binned, rendered, killed, seqno, finished_seqno,
                     last_rfc, rfc_completed, ret, render_lock>>
      /\ \/ UNCHANGED <<ct1, pending_render>>
         \/ pending_render # 0 /\ ct1 = 0 /\ ct1' = pending_render /\ pending_render' = 0
  <2>1. CASE V3d!Service /\ V3d!Goto(c, "drain2")
    BY <2>1 DEF V3d!Drain, V3d!Service, V3d!Kick, V3d!At, V3d!Goto, V3d!Numbers
  <2>2. CASE (~V3d!Busy \/ hung # {}) /\ V3d!Goto(c, "stash")
    BY <2>2 DEF V3d!Drain, V3d!Busy, V3d!At, V3d!Goto, V3d!Numbers
  <2> QED
    BY <2>1, <2>2 DEF V3d!Drain
<1>2. V3d!Numbers' /\ V3d!Locked' /\ V3d!Counted'
  BY <1>1 DEF V3d!Numbers, V3d!Labels, V3d!Locked, V3d!Frames, V3d!Counted
<1>3. V3d!Stashed' = V3d!Stashed /\ V3d!Started' = V3d!Started
  BY <1>1 DEF V3d!Stashed, V3d!Started, V3d!Numbers
<1>4. V3d!Accounted'
  BY <1>1, <1>3 DEF V3d!Order, V3d!Jobs, V3d!Accounted, V3d!Lost, V3d!Numbers
<1>5. V3d!Order'
  BY <1>1, <1>3 DEF V3d!Order, V3d!Begun, V3d!Jobs, V3d!Busy, V3d!Numbers
<1> QED
  BY <1>2, <1>4, <1>5


LEMMA Drain2Keeps ==
  ASSUME V3d!EngineAssumption, V3d!IInv, NEW c \in Client, V3d!Drain2(c)
  PROVE  V3d!IInv'
<1>1. V3d!Numbers' /\ V3d!Locked' /\ V3d!Order'
  BY DEF V3d!Drain2, V3d!At, V3d!Advance, V3d!Goto, V3d!Labels, V3d!Begun,
         V3d!Jobs, V3d!Busy, V3d!Reached, V3d!Kick, V3d!Started, V3d!Stashed,
         V3d!Numbers, V3d!Locked, V3d!Order
<1>2. V3d!Accounted'
  BY DEF V3d!Drain2, V3d!At, V3d!Advance, V3d!Goto, V3d!Labels, V3d!Begun,
         V3d!Jobs, V3d!Busy, V3d!Lost, V3d!Reached, V3d!Kick, V3d!Started,
         V3d!Stashed, V3d!Numbers, V3d!Locked, V3d!Order, V3d!Accounted
<1>3. V3d!Counted'
  BY DEF V3d!Drain2, V3d!At, V3d!Advance, V3d!Goto, V3d!Labels, V3d!Begun,
         V3d!Jobs, V3d!Busy, V3d!Lost, V3d!Reached, V3d!Kick, V3d!Started,
         V3d!Stashed, V3d!Frames, V3d!Numbers, V3d!Locked, V3d!Order,
         V3d!Accounted, V3d!Counted
<1> QED
  BY <1>1, <1>2, <1>3

LEMMA StashKeeps ==
  ASSUME V3d!EngineAssumption, V3d!IInv, NEW c \in Client, V3d!Stash(c)
  PROVE  V3d!IInv'
<1>1. V3d!Numbers' /\ V3d!Locked' /\ V3d!Counted'
  BY DEF V3d!Stash, V3d!At, V3d!Goto, V3d!Labels, V3d!Frames, V3d!Numbers,
         V3d!Locked, V3d!Counted
<1>2. V3d!Order'
  BY DEF V3d!Stash, V3d!At, V3d!Goto, V3d!Labels, V3d!Begun, V3d!Jobs,
         V3d!Busy, V3d!Started, V3d!Stashed, V3d!Numbers, V3d!Locked,
         V3d!Order
<1>3. V3d!Accounted'
  <2>1. /\ at[c] = "stash" /\ V3d!Jobs = 1..seqno /\ V3d!Jobs' = 1..V3d!Next1
        /\ pending_render' = V3d!Next1
        /\ UNCHANGED <<ct0, ct1, hung, rendered, killed, seqno>>
    BY DEF V3d!Stash, V3d!At, V3d!Goto, V3d!Jobs, V3d!Stashed, V3d!Locked, V3d!Numbers
  <2>2. pending_render # 0 => V3d!Lost(pending_render)
    <3>1. hung # {} \/ ~V3d!Busy
      BY <2>1 DEF V3d!Order
    <3> QED
      BY <3>1 DEF V3d!Order, V3d!Busy, V3d!Lost, V3d!Numbers
  <2> QED
    BY <2>1, <2>2 DEF V3d!Accounted, V3d!Lost, V3d!Numbers
<1> QED
  BY <1>1, <1>2, <1>3

LEMMA StartKeeps ==
  ASSUME V3d!EngineAssumption, V3d!IInv, NEW c \in Client, V3d!Start(c)
  PROVE  V3d!IInv'
<1>1. V3d!Numbers' /\ V3d!Locked' /\ V3d!Counted'
  BY DEF V3d!Start, V3d!At, V3d!Goto, V3d!Labels, V3d!Frames, V3d!Numbers,
         V3d!Locked, V3d!Counted
<1>2. V3d!Order'
  BY DEF V3d!Start, V3d!At, V3d!Goto, V3d!Labels, V3d!Begun, V3d!Jobs,
         V3d!Busy, V3d!Started, V3d!Stashed, V3d!Numbers, V3d!Locked,
         V3d!Order
<1>3. V3d!Accounted'
  BY DEF V3d!Start, V3d!At, V3d!Goto, V3d!Labels, V3d!Begun, V3d!Jobs,
         V3d!Busy, V3d!Lost, V3d!Started, V3d!Stashed, V3d!Numbers,
         V3d!Locked, V3d!Order, V3d!Accounted
<1> QED
  BY <1>1, <1>2, <1>3

LEMMA KickJobKeeps ==
  ASSUME V3d!EngineAssumption, V3d!IInv, NEW c \in Client, V3d!KickJob(c)
  PROVE  V3d!IInv'
<1>1. V3d!Numbers' /\ V3d!Locked' /\ V3d!Order' /\ V3d!Counted'
  BY DEF V3d!KickJob, V3d!At, V3d!Service, V3d!Signal, V3d!Goto, V3d!Labels,
         V3d!Begun, V3d!Jobs, V3d!Busy, V3d!Feed, V3d!Kick, V3d!Started,
         V3d!Stashed, V3d!Frames, V3d!Numbers, V3d!Locked, V3d!Order,
         V3d!Counted
<1>2. V3d!Accounted'
  BY DEF V3d!KickJob, V3d!At, V3d!Service, V3d!Signal, V3d!Goto, V3d!Labels,
         V3d!Begun, V3d!Jobs, V3d!Busy, V3d!Lost, V3d!Feed, V3d!Kick,
         V3d!Started, V3d!Stashed, V3d!Numbers, V3d!Locked, V3d!Order,
         V3d!Accounted
<1> QED
  BY <1>1, <1>2

LEMMA TagKeeps ==
  ASSUME V3d!EngineAssumption, V3d!IInv, NEW c \in Client, V3d!Tag(c)
  PROVE  V3d!IInv'
<1>1. V3d!Numbers' /\ V3d!Counted'
  BY DEF V3d!Tag, V3d!At, V3d!Goto, V3d!Labels, V3d!Frames, V3d!Numbers,
         V3d!Counted
<1>2. V3d!Locked'
  BY DEF V3d!Tag, V3d!At, V3d!Goto, V3d!Labels, V3d!Numbers, V3d!Locked
<1>3. V3d!Order'
  BY DEF V3d!Tag, V3d!At, V3d!Goto, V3d!Labels, V3d!Begun, V3d!Jobs, V3d!Busy,
         V3d!Started, V3d!Stashed, V3d!Numbers, V3d!Locked, V3d!Order
<1>4. V3d!Accounted'
  BY DEF V3d!Tag, V3d!At, V3d!Goto, V3d!Labels, V3d!Jobs, V3d!Lost,
         V3d!Stashed, V3d!Numbers, V3d!Locked, V3d!Accounted
<1> QED
  BY <1>1, <1>2, <1>3, <1>4

LEMMA BeginReclaimKeeps ==
  ASSUME V3d!EngineAssumption, V3d!IInv, NEW c \in Client, V3d!BeginReclaim(c)
  PROVE  V3d!IInv'
<1>1. V3d!Numbers' /\ V3d!Counted'
  BY DEF V3d!BeginReclaim, V3d!At, V3d!Lock, V3d!WaitFor, V3d!Goto,
         V3d!Labels, V3d!Frames, V3d!Numbers, V3d!Counted
<1>2. V3d!Locked'
  BY DEF V3d!BeginReclaim, V3d!At, V3d!Lock, V3d!WaitFor, V3d!Goto,
         V3d!Labels, V3d!Numbers, V3d!Locked
<1>3. V3d!Order'
  BY DEF V3d!BeginReclaim, V3d!At, V3d!Lock, V3d!WaitFor, V3d!Goto,
         V3d!Labels, V3d!Begun, V3d!Jobs, V3d!Busy, V3d!Started, V3d!Stashed,
         V3d!Numbers, V3d!Order
<1>4. V3d!Accounted'
  BY DEF V3d!BeginReclaim, V3d!At, V3d!Lock, V3d!WaitFor, V3d!Goto,
         V3d!Labels, V3d!Jobs, V3d!Lost, V3d!Stashed, V3d!Numbers,
         V3d!Accounted
<1> QED
  BY <1>1, <1>2, <1>3, <1>4

LEMMA FreeKeeps ==
  ASSUME V3d!EngineAssumption, V3d!IInv, NEW c \in Client, V3d!Free(c)
  PROVE  V3d!IInv'
<1>1. V3d!Numbers' /\ V3d!Locked' /\ V3d!Order' /\ V3d!Accounted' /\ V3d!Counted'
  BY DEF V3d!Free, V3d!At, V3d!Goto, V3d!Labels, V3d!Begun, V3d!Jobs,
         V3d!Busy, V3d!Lost, V3d!Started, V3d!Stashed, V3d!Frames,
         V3d!Numbers, V3d!Locked, V3d!Order, V3d!Accounted, V3d!Counted
<1> QED
  BY <1>1

LEMMA JobsInductive ==
  ASSUME V3d!EngineAssumption, V3d!IInv, [V3d!Next]_V3d!vars
  PROVE  V3d!IInv'
<1>1. CASE UNCHANGED V3d!vars
  BY <1>1 DEF V3d!vars, V3d!Numbers, V3d!Locked, V3d!Order, V3d!Begun, V3d!Jobs,
         V3d!Started, V3d!Stashed, V3d!Busy, V3d!Accounted, V3d!Lost, V3d!Counted,
         V3d!Frames
<1>2. CASE V3d!Engine \/ V3d!Hang \/ V3d!Wake \/ V3d!Poll
  BY <1>2, NeedMemoryKeeps, BinDoneKeeps, RenderDoneKeeps, HangKeeps, WakeKeeps, PollKeeps
     DEF V3d!Engine
<1>3. ASSUME NEW c \in Client, V3d!Task(c) PROVE V3d!IInv'
  BY <1>3, BeginWaitKeeps, BeginProbeKeeps, ServeKeeps, CountFramesKeeps, TimeOutKeeps,
     BeginSubmitKeeps, BuildKeeps, DrainKeeps, Drain2Keeps, StashKeeps, StartKeeps,
     KickJobKeeps, TagKeeps, BeginReclaimKeeps, FreeKeeps DEF V3d!Task
<1> QED
  BY <1>1, <1>2, <1>3 DEF V3d!Next

\* Where every job stands: with the engine, in the stash, ended, or lost to a thread
\* that hangs and will be reset.
THEOREM JobsAreFollowed ==
  ASSUME V3d!EngineAssumption
  PROVE  V3d!Spec => []V3d!IInv
BY InitJobs, JobsInductive, PTL DEF V3d!Spec

\* A fence the driver reports as passed is: the job was rendered, or died in a
\* reset, with counters of any width and any number of clients.
THEOREM FencesAreHonest ==
  ASSUME V3d!EngineAssumption
  PROVE  V3d!Spec => []V3d!FenceHonest
<1>1. V3d!IInv => V3d!FenceHonest
  BY DEF V3d!Counted, V3d!FenceHonest
<1> QED
  BY <1>1, JobsAreFollowed, PTL

\* While no thread hangs, no job whose binner was started is forgotten.
THEOREM NoRenderIsDropped ==
  ASSUME V3d!EngineAssumption
  PROVE  V3d!Spec => []V3d!NoRenderDropped
<1>1. V3d!IInv => V3d!NoRenderDropped
  BY DEF V3d!Accounted, V3d!Lost, V3d!Jobs, V3d!Numbers, V3d!NoRenderDropped
<1> QED
  BY <1>1, JobsAreFollowed, PTL

-----------------------------------------------------------------------------
(* The pools of a job.                                                     *)

LEMMA TurnIs ==
  ASSUME NEW n \in Nat \ {0}, NEW x \in Int, NEW q \in Int, NEW r \in Nat, r < n,
         x = n * q + r
  PROVE  x % n = r
<1>1. PICK s \in Nat, b \in Int : s = x % n /\ s < n /\ x = n * b + s
  <2>1. x \div n \in Int /\ x % n \in Nat /\ x % n < n /\ x = n * (x \div n) + (x % n)
    OBVIOUS
  <2> QED
    BY <2>1
<1>2. PICK d \in Int : d = b - q
  OBVIOUS
<1>3. n * d = r - s
  <2>1. PICK i \in Int, j \in Int : i = n * q /\ j = n * b
    OBVIOUS
  <2>2. n * d = j - i
    BY <1>2, <2>1
  <2>3. x = j + s
    BY <1>1, <2>1
  <2>4. x = i + r
    BY <2>1
  <2>5. j - i = r - s
    BY <2>3, <2>4
  <2> QED
    BY <2>2, <2>5
<1>4. d = 0
  <2>1. CASE d >= 1
    <3>1. n * d >= n
      BY <2>1
    <3> QED
      BY <1>1, <1>3, <3>1
  <2>2. CASE d <= -1
    <3>1. n * d <= -n
      BY <2>2
    <3> QED
      BY <1>1, <1>3, <3>1
  <2> QED
    BY <2>1, <2>2
<1> QED
  BY <1>1, <1>3, <1>4

\* The pool set after the n-th is the one of the next job.
LEMMA NextPool ==
  ASSUME NEW p \in Nat \ {0}, NEW n \in Nat
  PROVE  n % p \in 0..p - 1 /\ (n + 1) % p = ((n % p) + 1) % p
<1>1. PICK r \in Nat, a \in Int : r = n % p /\ r < p /\ n = p * a + r
  <2>1. n \div p \in Int /\ n % p \in Nat /\ n % p < p /\ n = p * (n \div p) + (n % p)
    OBVIOUS
  <2> QED
    BY <2>1
<1>2. CASE r + 1 < p
  <2>1. PICK x \in Int, t \in Nat : x = n + 1 /\ t = r + 1 /\ t < p /\ x = p * a + t
    BY <1>1, <1>2
  <2>2. x % p = t
    BY <2>1, TurnIs
  <2>3. t % p = t
    BY <2>1
  <2> QED
    BY <1>1, <2>1, <2>2, <2>3
<1>3. CASE r + 1 = p
  <2>1. PICK x \in Int, b \in Int, z \in Nat :
          x = n + 1 /\ b = a + 1 /\ z = 0 /\ z < p /\ x = p * b + z
    BY <1>1, <1>3
  <2>2. x % p = z
    BY <2>1, TurnIs
  <2>3. p % p = 0 /\ (n % p) + 1 = p
    BY <1>1, <1>3
  <2>4. ((n % p) + 1) % p = 0
    BY <2>3
  <2> QED
    BY <1>1, <2>1, <2>2, <2>4
<1> QED
  BY <1>1, <1>2, <1>3

LEMMA InitPools ==
  ASSUME V3d!EngineAssumption, V3d!Init
  PROVE  V3d!Tags /\ V3d!Pooled
BY NextPool DEF V3d!Init, V3d!Tags, V3d!Pooled, V3d!PoolSafe

USE DEF V3d!PInv, V3d!Alone

LEMMA NeedMemoryPools ==
  ASSUME V3d!EngineAssumption, V3d!PInv, V3d!Alone, V3d!NeedMemory
  PROVE  V3d!Tags' /\ V3d!Pooled'
  BY DEF V3d!NeedMemory, V3d!PoolSafe, V3d!Tags, V3d!Pooled

LEMMA BinDonePools ==
  ASSUME V3d!EngineAssumption, V3d!PInv, V3d!Alone, V3d!BinDone
  PROVE  V3d!Tags' /\ V3d!Pooled'
  BY DEF V3d!BinDone, V3d!PoolSafe, V3d!Tags, V3d!Pooled

LEMMA RenderDonePools ==
  ASSUME V3d!EngineAssumption, V3d!PInv, V3d!Alone, V3d!RenderDone
  PROVE  V3d!Tags' /\ V3d!Pooled'
  BY DEF V3d!RenderDone, V3d!PoolSafe, V3d!Tags, V3d!Pooled

LEMMA HangPools ==
  ASSUME V3d!EngineAssumption, V3d!PInv, V3d!Alone, V3d!Hang
  PROVE  V3d!Tags' /\ V3d!Pooled'
  BY DEF V3d!Hang, V3d!PoolSafe, V3d!Tags, V3d!Pooled

LEMMA WakePools ==
  ASSUME V3d!EngineAssumption, V3d!PInv, V3d!Alone, V3d!Wake
  PROVE  V3d!Tags' /\ V3d!Pooled'
  BY DEF V3d!Wake, V3d!PoolSafe, V3d!Tags, V3d!Pooled

LEMMA PollPools ==
  ASSUME V3d!EngineAssumption, V3d!PInv, V3d!Alone, V3d!Poll
  PROVE  V3d!Tags' /\ V3d!Pooled'
<1>1. V3d!Tags'
  BY DEF V3d!Poll, V3d!Service, V3d!Feed, V3d!Kick, V3d!Tags
<1>2. V3d!Pooled'
  BY DEF V3d!Poll, V3d!Service, V3d!PoolSafe, V3d!Feed, V3d!Kick, V3d!Pooled
<1> QED
  BY <1>1, <1>2

LEMMA BeginWaitPools ==
  ASSUME V3d!EngineAssumption, V3d!PInv, V3d!Alone, NEW c \in Client, V3d!BeginWait(c)
  PROVE  V3d!Tags' /\ V3d!Pooled'
<1>1. V3d!Tags'
  <2>1. PICK s \in 0..seqno : want' = [want EXCEPT ![c] = s]
    <3>1. \A s \in finished_seqno + 1..seqno : s \in 0..seqno
      BY DEF V3d!Numbers
    <3>2. seqno \in 0..seqno
      BY DEF V3d!Numbers
    <3> QED
      BY <3>1, <3>2 DEF V3d!BeginWait, V3d!WaitFor
  <2>2. UNCHANGED <<seqno, finished_seqno, rfc_completed, pool_seqno, pool_idx, built>>
    BY DEF V3d!BeginWait
  <2> QED
    BY <2>1, <2>2 DEF V3d!Tags
<1>2. V3d!Pooled'
  BY DEF V3d!BeginWait, V3d!At, V3d!Lock, V3d!WaitFor, V3d!Labels,
         V3d!PoolSafe, V3d!Goto, V3d!Numbers, V3d!Tags, V3d!Pooled
<1> QED
  BY <1>1, <1>2

LEMMA BeginProbePools ==
  ASSUME V3d!EngineAssumption, V3d!PInv, V3d!Alone, NEW c \in Client, V3d!BeginProbe(c)
  PROVE  V3d!Tags' /\ V3d!Pooled'
<1>1. V3d!Tags'
  BY DEF V3d!BeginProbe, V3d!At, V3d!Lock, V3d!WaitFor, V3d!Labels, V3d!Goto,
         V3d!Numbers, V3d!Tags
<1>2. V3d!Pooled'
  BY DEF V3d!BeginProbe, V3d!At, V3d!Lock, V3d!WaitFor, V3d!Labels,
         V3d!PoolSafe, V3d!Goto, V3d!Numbers, V3d!Pooled
<1> QED
  BY <1>1, <1>2

LEMMA ServePools ==
  ASSUME V3d!EngineAssumption, V3d!PInv, V3d!Alone, NEW c \in Client, V3d!Serve(c)
  PROVE  V3d!Tags' /\ V3d!Pooled'
<1>1. V3d!Tags'
  BY DEF V3d!Serve, V3d!At, V3d!Service, V3d!Goto, V3d!Feed, V3d!Kick,
         V3d!Tags
<1>2. V3d!Pooled'
  BY DEF V3d!Serve, V3d!At, V3d!Service, V3d!Goto, V3d!PoolSafe, V3d!Feed,
         V3d!Kick, V3d!Pooled
<1> QED
  BY <1>1, <1>2

LEMMA CountFramesPools ==
  ASSUME V3d!EngineAssumption, V3d!PInv, V3d!Alone, NEW c \in Client, V3d!CountFrames(c)
  PROVE  V3d!Tags' /\ V3d!Pooled'
<1>1. V3d!Tags'
  <2>1. V3d!Numbers'
    BY CountFramesKeeps
  <2>2. UNCHANGED <<seqno, pool_seqno, pool_idx, built, want>>
    BY DEF V3d!CountFrames, V3d!Advance
  <2>3. finished_seqno' <= rfc_completed'
    BY <2>1, <2>2 DEF V3d!CountFrames, V3d!Advance, V3d!Numbers
  <2> QED
    BY <2>2, <2>3 DEF V3d!Tags
<1>2. V3d!Pooled'
  BY DEF V3d!CountFrames, V3d!At, V3d!Advance, V3d!Leave, V3d!Goto,
         V3d!Labels, V3d!PoolSafe, V3d!Reached, V3d!Kick, V3d!Frames,
         V3d!Numbers, V3d!Tags, V3d!Pooled
<1> QED
  BY <1>1, <1>2

LEMMA TimeOutPools ==
  ASSUME V3d!EngineAssumption, V3d!PInv, V3d!Alone, NEW c \in Client, V3d!TimeOut(c)
  PROVE  V3d!Tags' /\ V3d!Pooled'
<1>1. V3d!Tags'
  BY DEF V3d!TimeOut, V3d!At, V3d!Resnapshot, V3d!Leave, V3d!Labels, V3d!Goto,
         V3d!Numbers, V3d!Tags
<1>2. V3d!Pooled'
  BY DEF V3d!TimeOut, V3d!At, V3d!Resnapshot, V3d!Leave, V3d!Labels,
         V3d!PoolSafe, V3d!Goto, V3d!Numbers, V3d!Tags, V3d!Pooled
<1> QED
  BY <1>1, <1>2

LEMMA BeginSubmitPools ==
  ASSUME V3d!EngineAssumption, V3d!PInv, V3d!Alone, NEW c \in Client, V3d!BeginSubmit(c)
  PROVE  V3d!Tags' /\ V3d!Pooled'
<1>1. V3d!Tags'
  <2>1. PICK s \in 0..seqno : want' \in {want, [want EXCEPT ![c] = s]}
    <3>1. pool_seqno[pool_idx] \in 0..seqno
      BY NextPool DEF V3d!Tags, V3d!Numbers
    <3> QED
      BY <3>1 DEF V3d!BeginSubmit, V3d!WaitFor
  <2>2. UNCHANGED <<seqno, finished_seqno, rfc_completed, pool_seqno, pool_idx, built>>
    BY DEF V3d!BeginSubmit
  <2> QED
    BY <2>1, <2>2 DEF V3d!Tags
<1>2. V3d!Pooled'
  BY DEF V3d!BeginSubmit, V3d!At, V3d!Lock, V3d!InFlight, V3d!WaitFor,
         V3d!Goto, V3d!Labels, V3d!PoolSafe, V3d!Numbers, V3d!Tags, V3d!Pooled
<1> QED
  BY <1>1, <1>2

LEMMA BuildPools ==
  ASSUME V3d!EngineAssumption, V3d!PInv, V3d!Alone, NEW c \in Client, V3d!Build(c)
  PROVE  V3d!Tags' /\ V3d!Pooled'
<1>1. V3d!Tags'
  BY DEF V3d!Build, V3d!At, V3d!Goto, V3d!Labels, V3d!Numbers, V3d!Tags
<1>2. V3d!Pooled'
  <2>1. /\ UNCHANGED <<ct0, ct1, pending_render, seqno, finished_seqno, rfc_completed,
                       pool_seqno, pool_idx, want, ret>>
        /\ at[c] = "build" /\ built' = [built EXCEPT ![pool_idx] = V3d!Next1]
        /\ at' \in {[at EXCEPT ![c] = "drain"], [at EXCEPT ![c] = "idle"]}
    BY DEF V3d!Build, V3d!At, V3d!Goto
  <2>2. pool_idx \in 0..Pools - 1 /\ built'[pool_idx] = V3d!Next1
        /\ built' \in [0..Pools - 1 -> Nat]
    BY <1>1, <2>1, NextPool DEF V3d!Tags, V3d!Numbers
  <2>3. \A d \in Client : d # c => at[d] \in {"idle", "free"}
    BY <2>1 DEF V3d!Locked, V3d!Numbers
  <2>a. ASSUME NEW d \in Client
        PROVE  /\ at'[d] \in {"serve", "count"} =>
                   /\ ret'[d] = "build" => want'[d] = pool_seqno'[pool_idx']
                   /\ ret'[d] = "free"  => want'[d] = seqno' /\ Pressure
               /\ at'[d] = "build" => pool_seqno'[pool_idx'] <= finished_seqno'
               /\ at'[d] \in {"drain", "drain2", "stash", "start", "kick", "tag"} =>
                   built'[pool_idx'] = V3d!Next1'
               /\ at'[d] = "free" => finished_seqno' = seqno' /\ Pressure
    <3>1. CASE d = c
      BY <2>1, <2>2, <3>1 DEF V3d!Pooled, V3d!Tags, V3d!Numbers
    <3>2. CASE d # c
      BY <2>1, <2>3, <3>2 DEF V3d!Pooled, V3d!Tags, V3d!Numbers
    <3> QED
      BY <3>1, <3>2
  <2>4. V3d!PoolSafe'
    <3> SUFFICES ASSUME NEW j \in V3d!Active PROVE built'[(j - 1) % Pools] = j
      BY <2>1 DEF V3d!PoolSafe
    <3>1. ~V3d!Stashed /\ ~V3d!Started
      BY <2>1, <2>3 DEF V3d!Stashed, V3d!Started
    <3>2. j \in 1..seqno /\ j \notin V3d!Ended
      BY <3>1 DEF V3d!Order, V3d!Jobs, V3d!Begun
    <3>3. j > finished_seqno
      BY <3>2 DEF V3d!Counted, V3d!Numbers
    <3>4. PICK i \in Nat : j - 1 = i
      BY <3>2
    <3>5. PICK s \in 0..Pools - 1 : s = (j - 1) % Pools
      BY <3>4, NextPool
    <3>6. j <= pool_seqno[s] /\ pool_seqno[pool_idx] <= finished_seqno
          /\ built[s] = j
      BY <2>1, <3>2, <3>3, <3>5 DEF V3d!Pooled, V3d!PoolSafe, V3d!Numbers
    <3>7. s # pool_idx
      <4>1. pool_seqno[pool_idx] \in Nat /\ finished_seqno \in Nat
        BY <2>2 DEF V3d!Tags, V3d!Numbers
      <4> QED
        BY <3>2, <3>3, <3>6, <4>1
    <3> QED
      BY <2>1, <3>5, <3>6, <3>7 DEF V3d!Pooled
  <2> QED
    BY <2>1, <2>2, <2>a, <2>4 DEF V3d!Pooled
<1> QED
  BY <1>1, <1>2

LEMMA DrainPools ==
  ASSUME V3d!EngineAssumption, V3d!PInv, V3d!Alone, NEW c \in Client, V3d!Drain(c)
  PROVE  V3d!Tags' /\ V3d!Pooled'
<1>1. V3d!Tags'
  BY DEF V3d!Drain, V3d!At, V3d!Busy, V3d!Service, V3d!Goto, V3d!Feed,
         V3d!Kick, V3d!Tags
<1>2. V3d!Pooled'
  BY DEF V3d!Drain, V3d!At, V3d!Busy, V3d!Service, V3d!Goto, V3d!Labels,
         V3d!PoolSafe, V3d!Feed, V3d!Kick, V3d!Numbers, V3d!Pooled
<1> QED
  BY <1>1, <1>2

LEMMA Drain2Pools ==
  ASSUME V3d!EngineAssumption, V3d!PInv, V3d!Alone, NEW c \in Client, V3d!Drain2(c)
  PROVE  V3d!Tags' /\ V3d!Pooled'
<1>1. V3d!Tags'
  <2>1. V3d!Numbers'
    BY Drain2Keeps
  <2>2. UNCHANGED <<seqno, pool_seqno, pool_idx, built, want>>
    BY DEF V3d!Drain2, V3d!Advance
  <2>3. finished_seqno' <= rfc_completed'
    BY <2>1, <2>2 DEF V3d!Drain2, V3d!Advance, V3d!Numbers
  <2> QED
    BY <2>2, <2>3 DEF V3d!Tags
<1>2. V3d!Pooled'
  <2>1. /\ at' = [at EXCEPT ![c] = "drain"] /\ at[c] = "drain2"
        /\ UNCHANGED <<ct0, seqno, pool_seqno, pool_idx, built, want, ret>>
        /\ {ct1', pending_render'} \ {0} = {ct1, pending_render} \ {0}
    BY DEF V3d!Drain2, V3d!At, V3d!Goto, V3d!Advance, V3d!Kick
  <2>2. finished_seqno <= finished_seqno' /\ finished_seqno' <= seqno
    <3>1. V3d!Numbers'
      BY Drain2Keeps
    <3> QED
      BY <2>1, <3>1 DEF V3d!Drain2, V3d!Advance, V3d!Tags, V3d!Numbers
  <2>3. V3d!PoolSafe'
    BY <2>1 DEF V3d!Pooled, V3d!PoolSafe
  <2>4. seqno \in Nat /\ finished_seqno \in Nat /\ finished_seqno' \in Nat
        /\ finished_seqno <= seqno
    <3>1. V3d!Numbers'
      BY Drain2Keeps
    <3> QED
      BY <3>1 DEF V3d!Numbers
  <2>5. \A j \in 1..seqno : j <= finished_seqno' \/ j <= pool_seqno[(j - 1) % Pools]
    BY <2>2, <2>4 DEF V3d!Pooled
  <2>6. \A d \in Client : at[d] = "free" => finished_seqno' = seqno
    BY <2>2, <2>4 DEF V3d!Pooled
  <2>7. \A d \in Client : d # c => at[d] \in {"idle", "free"}
    BY <2>1 DEF V3d!Locked, V3d!Numbers
  <2> QED
    BY <2>1, <2>3, <2>5, <2>6, <2>7 DEF V3d!Pooled, V3d!Numbers
<1> QED
  BY <1>1, <1>2

LEMMA StashPools ==
  ASSUME V3d!EngineAssumption, V3d!PInv, V3d!Alone, NEW c \in Client, V3d!Stash(c)
  PROVE  V3d!Tags' /\ V3d!Pooled'
<1>1. V3d!Tags'
  BY DEF V3d!Stash, V3d!At, V3d!Goto, V3d!Tags
<1>2. V3d!Pooled'
  BY DEF V3d!Stash, V3d!At, V3d!Goto, V3d!Labels, V3d!PoolSafe, V3d!Numbers,
         V3d!Tags, V3d!Pooled
<1> QED
  BY <1>1, <1>2

LEMMA StartPools ==
  ASSUME V3d!EngineAssumption, V3d!PInv, V3d!Alone, NEW c \in Client, V3d!Start(c)
  PROVE  V3d!Tags' /\ V3d!Pooled'
<1>1. V3d!Tags'
  BY DEF V3d!Start, V3d!At, V3d!Goto, V3d!Tags
<1>2. V3d!Pooled'
  BY DEF V3d!Start, V3d!At, V3d!Goto, V3d!Labels, V3d!PoolSafe, V3d!Numbers,
         V3d!Tags, V3d!Pooled
<1> QED
  BY <1>1, <1>2

LEMMA KickJobPools ==
  ASSUME V3d!EngineAssumption, V3d!PInv, V3d!Alone, NEW c \in Client, V3d!KickJob(c)
  PROVE  V3d!Tags' /\ V3d!Pooled'
<1>1. V3d!Tags'
  BY DEF V3d!KickJob, V3d!At, V3d!Service, V3d!Signal, V3d!Goto, V3d!Feed,
         V3d!Kick, V3d!Tags
<1>2. V3d!Pooled'
  BY DEF V3d!KickJob, V3d!At, V3d!Service, V3d!Signal, V3d!Goto, V3d!PoolSafe,
         V3d!Feed, V3d!Kick, V3d!Pooled
<1> QED
  BY <1>1, <1>2

LEMMA TagPools ==
  ASSUME V3d!EngineAssumption, V3d!PInv, V3d!Alone, NEW c \in Client, V3d!Tag(c)
  PROVE  V3d!Tags' /\ V3d!Pooled'
<1>1. V3d!Tags'
  <2>1. seqno' % Pools = (pool_idx + 1) % Pools /\ pool_idx \in 0..Pools - 1
    BY NextPool DEF V3d!Tag, V3d!Tags, V3d!Numbers
  <2>2. pool_seqno' \in [0..Pools - 1 -> 0..seqno']
    <3>1. pool_seqno \in [0..Pools - 1 -> 0..seqno'] /\ seqno + 1 \in 0..seqno'
      BY DEF V3d!Tag, V3d!Tags, V3d!Numbers
    <3> QED
      BY <3>1 DEF V3d!Tag
  <2>3. want' \in [Client -> 0..seqno']
    BY DEF V3d!Tag, V3d!Tags, V3d!Numbers
  <2> QED
    BY <2>1, <2>2, <2>3 DEF V3d!Tag, V3d!Tags
<1>2. V3d!Pooled'
  <2>1. /\ UNCHANGED <<ct0, ct1, pending_render, finished_seqno, rfc_completed, built,
                       want, ret>>
        /\ at[c] = "tag" /\ seqno' = seqno + 1
        /\ pool_seqno' = [pool_seqno EXCEPT ![pool_idx] = seqno + 1]
        /\ pool_idx' = (pool_idx + 1) % Pools
        /\ at' = [at EXCEPT ![c] = "idle"]
    BY DEF V3d!Tag, V3d!At, V3d!Goto
  <2>2. /\ pool_idx \in 0..Pools - 1 /\ pool_idx' = seqno' % Pools
        /\ pool_seqno' \in [0..Pools - 1 -> 0..seqno']
    BY <1>1, <2>1, NextPool DEF V3d!Tags, V3d!Numbers
  <2>3. \A d \in Client : d # c => at[d] \in {"idle", "free"}
    BY <2>1 DEF V3d!Locked, V3d!Numbers
  <2>4. \A d \in Client : at[d] # "free"
    BY <2>1, <2>3 DEF V3d!Pooled, V3d!Alone
  <2>a. ASSUME NEW d \in Client
        PROVE  /\ at'[d] \in {"serve", "count"} =>
                   /\ ret'[d] = "build" => want'[d] = pool_seqno'[pool_idx']
                   /\ ret'[d] = "free"  => want'[d] = seqno' /\ Pressure
               /\ at'[d] = "build" => pool_seqno'[pool_idx'] <= finished_seqno'
               /\ at'[d] \in {"drain", "drain2", "stash", "start", "kick", "tag"} =>
                   built'[pool_idx'] = V3d!Next1'
               /\ at'[d] = "free" => finished_seqno' = seqno' /\ Pressure
    <3>1. CASE d = c
      BY <2>1, <3>1 DEF V3d!Numbers
    <3>2. CASE d # c
      BY <2>1, <2>3, <2>4, <3>2 DEF V3d!Numbers
    <3> QED
      BY <3>1, <3>2
  <2>5. ASSUME NEW j \in 1..seqno'
        PROVE  j <= finished_seqno \/ j <= pool_seqno'[(j - 1) % Pools]
    <3>1. PICK i \in Nat : j - 1 = i
      OBVIOUS
    <3>2. PICK s \in 0..Pools - 1 : s = (j - 1) % Pools
      BY <3>1, NextPool
    <3>3. CASE j = seqno + 1
      <4>1. s = pool_idx
        BY <3>2, <3>3 DEF V3d!Pooled, V3d!Tags, V3d!Numbers
      <4> QED
        BY <2>1, <3>2, <3>3, <4>1 DEF V3d!Tags
    <3>4. CASE j \in 1..seqno
      <4>1. j <= finished_seqno \/ j <= pool_seqno[s]
        BY <3>2, <3>4 DEF V3d!Pooled
      <4>2. pool_seqno'[s] = IF s = pool_idx THEN seqno + 1 ELSE pool_seqno[s]
        BY <2>1 DEF V3d!Tags
      <4> QED
        BY <3>2, <3>4, <4>1, <4>2 DEF V3d!Numbers
    <3> QED
      BY <2>1, <3>3, <3>4 DEF V3d!Numbers
  <2> QED
    BY <2>1, <2>2, <2>a, <2>5 DEF V3d!Pooled, V3d!PoolSafe
<1> QED
  BY <1>1, <1>2

LEMMA BeginReclaimPools ==
  ASSUME V3d!EngineAssumption, V3d!PInv, V3d!Alone, NEW c \in Client, V3d!BeginReclaim(c)
  PROVE  V3d!Tags' /\ V3d!Pooled'
<1>1. V3d!Tags'
  <2>1. seqno \in 0..seqno /\ want' \in {want, [want EXCEPT ![c] = seqno]}
    BY DEF V3d!BeginReclaim, V3d!WaitFor, V3d!Numbers
  <2>2. UNCHANGED <<seqno, finished_seqno, rfc_completed, pool_seqno, pool_idx, built>>
    BY DEF V3d!BeginReclaim
  <2> QED
    BY <2>1, <2>2 DEF V3d!Tags
<1>2. V3d!Pooled'
  BY DEF V3d!BeginReclaim, V3d!At, V3d!Lock, V3d!WaitFor, V3d!Goto,
         V3d!Labels, V3d!PoolSafe, V3d!Numbers, V3d!Tags, V3d!Pooled
<1> QED
  BY <1>1, <1>2

LEMMA FreePools ==
  ASSUME V3d!EngineAssumption, V3d!PInv, V3d!Alone, NEW c \in Client, V3d!Free(c)
  PROVE  V3d!Tags' /\ V3d!Pooled'
<1>1. V3d!Tags'
  BY DEF V3d!Free, V3d!At, V3d!Goto, V3d!Labels, V3d!Numbers, V3d!Tags
<1>2. V3d!Pooled'
  <2>1. /\ UNCHANGED <<ct0, ct1, pending_render, seqno, finished_seqno, rfc_completed,
                       pool_idx, want, ret>>
        /\ at[c] = "free" /\ at' = [at EXCEPT ![c] = "idle"]
        /\ built' = [p \in 0..Pools - 1 |-> 0] /\ pool_seqno' = [p \in 0..Pools - 1 |-> 0]
    BY DEF V3d!Free, V3d!At, V3d!Goto, V3d!Tags
  <2>2. finished_seqno = seqno /\ \A d \in Client : d = c
    BY <2>1 DEF V3d!Pooled, V3d!Alone
  <2>3. V3d!Active = {}
    <3>1. ~V3d!Stashed /\ ~V3d!Started
      BY <2>1, <2>2 DEF V3d!Stashed, V3d!Started
    <3>2. V3d!Active \subseteq 1..seqno /\ 1..seqno \subseteq V3d!Ended
      BY <2>2, <3>1 DEF V3d!Order, V3d!Jobs, V3d!Begun, V3d!Counted
    <3> QED
      BY <3>2 DEF V3d!Order
  <2> QED
    BY <2>1, <2>2, <2>3 DEF V3d!Pooled, V3d!PoolSafe, V3d!Numbers
<1> QED
  BY <1>1, <1>2

LEMMA PoolsInductive ==
  ASSUME V3d!EngineAssumption, V3d!Alone, V3d!PInv, [V3d!Next]_V3d!vars
  PROVE  V3d!PInv'
<1>1. V3d!IInv'
  BY JobsInductive
<1>2. CASE UNCHANGED V3d!vars
  <2>1. V3d!Tags'
    BY <1>2 DEF V3d!vars, V3d!Tags
  <2>2. V3d!PoolSafe'
    BY <1>2 DEF V3d!vars, V3d!Pooled, V3d!PoolSafe
  <2>3. V3d!Pooled'
    BY <1>2, <2>2 DEF V3d!vars, V3d!Pooled
  <2> QED
    BY <1>1, <2>1, <2>3
<1>3. ASSUME V3d!Engine \/ V3d!Hang \/ V3d!Wake \/ V3d!Poll
      PROVE  V3d!Tags' /\ V3d!Pooled'
  BY <1>3, NeedMemoryPools, BinDonePools, RenderDonePools, HangPools, WakePools, PollPools
     DEF V3d!Engine
<1>4. ASSUME NEW c \in Client, V3d!Task(c) PROVE V3d!Tags' /\ V3d!Pooled'
  BY <1>4, BeginWaitPools, BeginProbePools, ServePools, CountFramesPools, TimeOutPools,
     BeginSubmitPools, BuildPools, DrainPools, Drain2Pools, StashPools, StartPools,
     KickJobPools, TagPools, BeginReclaimPools, FreePools DEF V3d!Task
<1> QED
  BY <1>1, <1>2, <1>3, <1>4 DEF V3d!Next

\* The buffers of a job are its own until it has ended, for any number of pool sets,
\* where the firmware's heap holds or one client alone draws on it.
THEOREM PoolsAreSafe ==
  ASSUME V3d!EngineAssumption, V3d!Alone
  PROVE  V3d!Spec => []V3d!PoolSafe
<1>1. V3d!Init => V3d!PInv
  BY InitJobs, InitPools
<1>2. V3d!PInv => V3d!PoolSafe
  BY DEF V3d!Pooled
<1> QED
  BY <1>1, <1>2, PoolsInductive, PTL DEF V3d!Spec

-----------------------------------------------------------------------------
(* The bounds of the jobs, and all they promise.                           *)

LEMMA InitLimits ==
  ASSUME V3d!EngineAssumption, V3d!Init
  PROVE  V3d!Limited
BY DEF V3d!Init, V3d!Limited, V3d!Preparing, V3d!Labels

\* What serves the engine hands out the overspill memory once.
LEMMA LimitsServed ==
  ASSUME V3d!EngineAssumption, V3d!IInv, V3d!Limited,
         V3d!Service \/ UNCHANGED overflow_handed
  PROVE  overflow_handed' \in 0..2
BY DEF V3d!Limited, V3d!Service, V3d!Feed

LEMMA LimitsOfTask ==
  ASSUME V3d!EngineAssumption, V3d!IInv, V3d!Limited, NEW c \in Client, V3d!Task(c)
  PROVE  V3d!Limited'
<1> USE DEF V3d!Limited, V3d!Preparing, V3d!Labels, V3d!Numbers, V3d!Locked, V3d!At,
            V3d!Goto, V3d!Lock, V3d!WaitFor, V3d!Leave
<1>1. CASE V3d!BeginWait(c) \/ V3d!BeginProbe(c)
  BY <1>1 DEF V3d!BeginWait, V3d!BeginProbe
<1>2. CASE V3d!Serve(c)
  BY <1>2, LimitsServed DEF V3d!Serve
<1>3. CASE V3d!CountFrames(c)
  BY <1>3 DEF V3d!CountFrames, V3d!Advance
<1>4. CASE V3d!TimeOut(c)
  BY <1>4 DEF V3d!TimeOut
<1>5. CASE V3d!BeginSubmit(c)
  BY <1>5 DEF V3d!BeginSubmit
<1>6. CASE V3d!Build(c)
  BY <1>6 DEF V3d!Build
<1>7. CASE V3d!Drain(c)
  BY <1>7, LimitsServed DEF V3d!Drain
<1>8. CASE V3d!Drain2(c)
  BY <1>8 DEF V3d!Drain2, V3d!Advance
<1>9. CASE V3d!Stash(c) \/ V3d!Start(c)
  BY <1>9 DEF V3d!Stash, V3d!Start
<1>10. CASE V3d!KickJob(c)
  BY <1>10, LimitsServed DEF V3d!KickJob
<1>11. CASE V3d!Tag(c)
  BY <1>11 DEF V3d!Tag
<1>12. CASE V3d!BeginReclaim(c) \/ V3d!Free(c)
  BY <1>12 DEF V3d!BeginReclaim, V3d!Free
<1> QED
  BY <1>1, <1>2, <1>3, <1>4, <1>5, <1>6, <1>7, <1>8, <1>9, <1>10, <1>11, <1>12
     DEF V3d!Task

LEMMA LimitsInductive ==
  ASSUME V3d!EngineAssumption, V3d!IInv, V3d!Limited, [V3d!Next]_V3d!vars
  PROVE  V3d!Limited'
<1>1. CASE UNCHANGED V3d!vars
  BY <1>1 DEF V3d!vars, V3d!Limited, V3d!Preparing
<1>2. CASE V3d!Engine \/ V3d!Hang \/ V3d!Wake
  BY <1>2 DEF V3d!Engine, V3d!NeedMemory, V3d!BinDone, V3d!RenderDone, V3d!Hang,
              V3d!Wake, V3d!Limited, V3d!Preparing
<1>3. CASE V3d!Poll
  <2>1. overflow_handed' \in 0..2
    BY <1>3, LimitsServed DEF V3d!Poll
  <2> QED
    BY <1>3, <2>1 DEF V3d!Poll, V3d!Limited, V3d!Preparing
<1> QED
  BY <1>1, <1>2, <1>3, LimitsOfTask DEF V3d!Next

\* All that the jobs promise: true fences, no forgotten render, buffers that are a
\* job's own, and the bounds and the lock as they should be.
THEOREM JobsAreKept ==
  ASSUME V3d!EngineAssumption, V3d!Alone
  PROVE  V3d!Spec => []V3d!JobsKept
<1>1. V3d!Init => V3d!PInv /\ V3d!Limited
  BY InitJobs, InitPools, InitLimits
<1>2. V3d!PInv /\ V3d!Limited /\ [V3d!Next]_V3d!vars => V3d!PInv' /\ V3d!Limited'
  BY PoolsInductive, LimitsInductive DEF V3d!PInv
<1>3. V3d!PInv /\ V3d!Limited => V3d!TypeOK
  <2> SUFFICES ASSUME V3d!PInv, V3d!Limited PROVE V3d!TypeOK
    OBVIOUS
  <2>1. seqno \in 0..MaxJobs /\ pending_render \in 0..seqno + 1
    BY DEF V3d!PInv, V3d!Limited, V3d!Numbers, V3d!Order, V3d!Jobs
  <2>2. pool_idx \in 0..Pools - 1
    BY <2>1, NextPool DEF V3d!PInv, V3d!Tags
  <2>3. render_lock = "free" <=> \A c \in Client : at[c] \in {"idle", "free"}
    BY DEF V3d!PInv, V3d!Limited, V3d!Locked
  <2> QED
    BY <2>1, <2>2, <2>3 DEF V3d!TypeOK, V3d!Limited
<1> QED
  BY <1>1, <1>2, <1>3, JobsAreFollowed, FencesAreHonest, NoRenderIsDropped, PoolsAreSafe, PTL
     DEF V3d!Spec, V3d!JobsKept

-----------------------------------------------------------------------------
(* The clock of the sound.                                                 *)

LEMMA ClockStep ==
  ASSUME Clock!RateAssumption, Clock!IInv, Clock!Next
  PROVE  Clock!IInv'
<1> USE DEF Clock!IInv, Clock!TypeOK, Clock!Claimed, Clock!ClockRight, Clock!Goto,
            Clock!None, Clock!RateAssumption
<1>1. CASE Clock!pwm_clock_setup
  BY <1>1 DEF Clock!pwm_clock_setup
<1>2. CASE Clock!Release
  BY <1>2 DEF Clock!Release, Clock!pwm_fw_release_clock
<1>3. CASE Clock!SetClock
  <2>1. CASE Clock!Programs
    BY <1>3, <2>1 DEF Clock!SetClock, Clock!Programs
  <2>2. CASE Clock!Fails
    BY <1>3, <2>2 DEF Clock!SetClock, Clock!Fails, Clock!pwm_fw_release_clock
  <2> QED
    BY <1>3, <2>1, <2>2 DEF Clock!SetClock, Clock!pwm_fw_set_clock
<1>4. CASE Clock!pwm_cm_start
  BY <1>4 DEF Clock!pwm_cm_start
<1>5. CASE Clock!Verify
  BY <1>5 DEF Clock!Verify, Clock!Verified
<1>6. CASE Clock!ReleaseClaim
  BY <1>6 DEF Clock!ReleaseClaim, Clock!pwm_fw_release_clock
<1>7. CASE Clock!pwm_clock_setup_cm
  BY <1>7 DEF Clock!pwm_clock_setup_cm
<1>8. CASE Clock!pwm_clock_stop
  BY <1>8 DEF Clock!pwm_clock_stop
<1>9. CASE Clock!Retune
  BY <1>9 DEF Clock!Retune
<1> QED
  BY <1>1, <1>2, <1>3, <1>4, <1>5, <1>6, <1>7, <1>8, <1>9 DEF Clock!Next

\* A sound plays at the rate it asked for, whatever the firmware answered and however
\* often it failed, and a later display mode leaves it so: the driver knows whether
\* the firmware keeps the clock.
THEOREM SoundsAtItsRate ==
  ASSUME Clock!RateAssumption
  PROVE  Clock!Spec => []Clock!ClockRight
<1>1. Clock!Init => Clock!IInv
  <2> SUFFICES ASSUME Clock!Init PROVE Clock!IInv
    OBVIOUS
  <2>1. Clock!TypeOK
    BY DEF Clock!Init, Clock!TypeOK
  <2>2. Clock!Claimed /\ Clock!ClockRight
    BY DEF Clock!Init, Clock!Claimed, Clock!ClockRight
  <2> QED
    BY <2>1, <2>2 DEF Clock!IInv
<1>2. Clock!IInv /\ [Clock!Next]_Clock!vars => Clock!IInv'
  <2>1. CASE UNCHANGED Clock!vars
    BY <2>1 DEF Clock!vars, Clock!IInv, Clock!TypeOK, Clock!Claimed, Clock!ClockRight
  <2> QED
    BY <2>1, ClockStep
<1>3. Clock!IInv => Clock!ClockRight
  BY DEF Clock!IInv
<1> QED
  BY <1>1, <1>2, <1>3, PTL DEF Clock!Spec
-----------------------------------------------------------------------------
(* The root hub of the previous USB driver.                                *)

CONSTANTS Readers, Recovery, MaxPlugs, MaxResets
VARIABLES port, place, feature, oldval, queue, changed, caused, recover, forced,
          vacated, plugs, resets
Hub == INSTANCE OtgRootHub WITH pc <- place

LEMMA Shorter ==
  ASSUME NEW q \in Seq(Readers), NEW i \in 1..Len(q)
  PROVE  Hub!RemoveAt(q, i) \in Seq(Readers)
BY DEF Hub!RemoveAt

LEMMA Members2 ==
  ASSUME NEW q \in Seq(Readers) PROVE Hub!ToSet(q) \subseteq Readers
BY DEF Hub!ToSet

\* The bits of the register are those that are, and a write drops those it should.
LEMMA Written ==
  ASSUME NEW v, v \subseteq Hub!Bits, port \subseteq Hub!Bits, port' = Hub!Written(v)
  PROVE  /\ port' \subseteq Hub!Bits
         /\ \A b \in Hub!Change : b \in port /\ b \notin port' => b \in v
         /\ "ena" \in port /\ "ena" \notin port' =>
              "ena" \in v \/ "rst" \in port' \/ "conn" \notin port'
BY DEF Hub!Written, Hub!Change, Hub!Bits

\* What the driver writes for any purpose of its own asks for nothing.
LEMMA Rewritten ==
  ASSUME Hub!IInv, NEW set, set \in SUBSET {"pwr", "rst", "susp"},
         NEW clear, Hub!hostport_rmw(set, clear)
  PROVE  port' \subseteq Hub!Bits /\ Hub!AsAsked
<1> DEFINE v == (Hub!Harmless \ clear) \union set
<1>1. v \subseteq Hub!Bits /\ v \cap Hub!SC = {} /\ port \subseteq Hub!Bits
  BY DEF Hub!IInv, Hub!TypeOK, Hub!Bits, Hub!Harmless, Hub!SC, Hub!Change
<1>2. port' = Hub!Written(v)
  BY DEF Hub!hostport_rmw
<1> HIDE DEF v
<1> QED
  BY <1>1, <1>2, Written DEF Hub!AsAsked, Hub!SC, Hub!Change

\* A visit tells those who wait, or keeps the flag.
LEMMA Visited ==
  ASSUME Hub!IInv, Hub!PendingIO(changed) \/ Hub!PendingIO(TRUE)
  PROVE  queue' \in Seq(Readers) /\ changed' \in BOOLEAN /\ Hub!TellsOrKeeps
<1>1. queue \in Seq(Readers) /\ (queue # <<>> => Len(<<>>) < Len(queue))
  BY EmptySeq, LenProperties DEF Hub!IInv
<1>2. changed \in BOOLEAN
  BY DEF Hub!IInv
<1>3. CASE Hub!PendingIO(changed)
  BY <1>1, <1>2, <1>3 DEF Hub!PendingIO, Hub!Left, Hub!Still, Hub!TellsOrKeeps
<1>4. CASE Hub!PendingIO(TRUE)
  BY <1>1, <1>2, <1>4 DEF Hub!PendingIO, Hub!Left, Hub!Still, Hub!TellsOrKeeps
<1> QED
  BY <1>3, <1>4

\* The steps that write nothing into the register.
Quiet == \/ Hub!OpenLook \/ Hub!OpenReport \/ Hub!PortReset \/ Hub!ResetDone
         \/ Hub!ClearFeature \/ Hub!ClearSignal \/ Hub!GetStatus
         \/ Hub!PendingInt \/ Hub!Watchdog \/ Hub!WatchdogPokes
         \/ Hub!split_fsm_recover \/ Hub!AwaitConnect \/ Hub!Report
         \/ \E r \in Readers : Hub!cmdIntXFer(r) \/ Hub!AbortIO(r)
Register == port' \subseteq Hub!Bits /\ Hub!AsAsked

LEMMA RegisterKept ==
  ASSUME Hub!IInv, Hub!Next
  PROVE  Register
<1> USE DEF Register
<1>1. CASE Quiet
  <2>1. port' = port
    BY <1>1 DEF Quiet, Hub!OpenLook, Hub!OpenReport, Hub!PortReset, Hub!ResetDone,
       Hub!ClearFeature, Hub!ClearSignal, Hub!GetStatus, Hub!PendingInt, Hub!Watchdog,
       Hub!WatchdogPokes, Hub!split_fsm_recover, Hub!AwaitConnect, Hub!Report,
       Hub!cmdIntXFer, Hub!AbortIO
  <2> QED
    BY <2>1 DEF Hub!AsAsked, Hub!IInv, Hub!TypeOK
<1>2. CASE Hub!OpenPower \/ Hub!OpenAssert \/ Hub!OpenRelease
  BY <1>2, Rewritten DEF Hub!OpenPower, Hub!OpenAssert, Hub!OpenRelease
<1>3. CASE Hub!SetFeature \/ Hub!ResetAssert \/ Hub!ResetRelease
  BY <1>3, Rewritten DEF Hub!SetFeature, Hub!ResetAssert, Hub!ResetRelease
<1>4. CASE Hub!Debounced \/ Hub!Released
  BY <1>4, Rewritten DEF Hub!Debounced, Hub!Released
<1>5. CASE Hub!ClearWrite
  <2>1. /\ Hub!newval \subseteq Hub!Bits /\ port' = Hub!Written(Hub!newval)
        /\ place = "clear" /\ port \subseteq Hub!Bits
        /\ oldval \subseteq {"pwr", "conn", "rst", "susp", "res"}
    BY <1>5 DEF Hub!ClearWrite, Hub!Goto, Hub!IInv, Hub!TypeOK, Hub!newval, Hub!Bits,
                Hub!Change
  <2>2. /\ "det" \in Hub!newval => feature = "C_CONNECTION"
        /\ "enchg" \in Hub!newval => feature = "C_ENABLE"
        /\ "ena" \in Hub!newval => feature = "ENABLE"
    BY <2>1 DEF Hub!newval
  <2>3. /\ port' \subseteq Hub!Bits
        /\ \A b \in Hub!Change : b \in port /\ b \notin port' => b \in Hub!newval
        /\ "ena" \in port /\ "ena" \notin port' =>
             "ena" \in Hub!newval \/ "rst" \in port' \/ "conn" \notin port'
    BY <2>1, Written
  <2> QED
    BY <2>1, <2>2, <2>3 DEF Hub!AsAsked, Hub!Change
<1>6. CASE Hub!Escalate \/ Hub!PowerCycle
  BY <1>6 DEF Hub!Escalate, Hub!PowerCycle, Hub!core_reset_recover, Hub!Bits, Hub!AsAsked
<1>7. CASE Hub!Connect
  BY <1>7 DEF Hub!Connect, Hub!AsAsked, Hub!IInv, Hub!TypeOK, Hub!Bits, Hub!Change
<1>8. CASE Hub!Disconnect
  BY <1>8 DEF Hub!Disconnect, Hub!AsAsked, Hub!IInv, Hub!TypeOK, Hub!Bits, Hub!Change
<1> QED
  BY <1>1, <1>2, <1>3, <1>4, <1>5, <1>6, <1>7, <1>8
     DEF Quiet, Hub!Next, Hub!OpenUnit, Hub!Ports, Hub!Waits, Hub!Visit

\* Who waits, and the flag.
Flag == queue' \in Seq(Readers) /\ changed' \in BOOLEAN /\ Hub!TellsOrKeeps

LEMMA FlagKept ==
  ASSUME Hub!IInv, Hub!Next
  PROVE  Flag
<1> USE DEF Flag, Hub!IInv, Hub!hub
<1>0. queue \in Seq(Readers) /\ changed \in BOOLEAN
  OBVIOUS
<1>1. CASE UNCHANGED <<queue, changed>>
  BY <1>0, <1>1 DEF Hub!TellsOrKeeps
<1>2. CASE queue' = queue /\ changed' \in BOOLEAN /\ (changed => changed')
  BY <1>0, <1>2 DEF Hub!TellsOrKeeps
<1>3. CASE Hub!PendingIO(changed) \/ Hub!PendingIO(TRUE)
  BY <1>3, Visited
<1>4. CASE queue' = Hub!Left(changed) /\ changed' = TRUE
  BY <1>0, <1>4 DEF Hub!Left, Hub!TellsOrKeeps
<1>5. ASSUME NEW r \in Readers, Hub!cmdIntXFer(r) PROVE Flag
  <2>1. queue' \in Seq(Readers) /\ changed' = FALSE
    BY <1>0, <1>5 DEF Hub!cmdIntXFer
  <2> QED
    BY <1>5, <2>1 DEF Hub!TellsOrKeeps
<1>6. ASSUME NEW r \in Readers, Hub!AbortIO(r) PROVE Flag
  <2>1. PICK i \in 1..Len(queue) : queue' = Hub!RemoveAt(queue, i)
    BY <1>6 DEF Hub!AbortIO
  <2>2. queue' \in Seq(Readers) /\ changed' = changed
    BY <1>0, <1>6, <2>1, Shorter DEF Hub!AbortIO
  <2> QED
    BY <1>0, <2>2 DEF Hub!TellsOrKeeps
<1>7. CASE Hub!OpenUnit
  <2>1. queue' = queue /\ changed' \in BOOLEAN /\ (changed => changed')
    BY <1>7 DEF Hub!OpenUnit, Hub!OpenPower, Hub!OpenLook, Hub!OpenAssert,
                Hub!OpenRelease, Hub!OpenReport
  <2> QED
    BY <1>2, <2>1
<1>8. CASE Hub!Ports \/ Hub!Waits
  <2>1. queue' = queue /\ changed' \in BOOLEAN /\ (changed => changed')
    BY <1>8 DEF Hub!Ports, Hub!Waits, Hub!SetFeature, Hub!PortReset, Hub!ClearFeature,
                Hub!GetStatus, Hub!ResetAssert, Hub!ResetRelease, Hub!ResetDone,
                Hub!ClearWrite, Hub!ClearSignal
  <2> QED
    BY <1>2, <2>1
<1>9. CASE Hub!PendingInt \/ Hub!Watchdog \/ Hub!WatchdogPokes
  BY <1>3, <1>9 DEF Hub!PendingInt, Hub!Watchdog, Hub!WatchdogPokes
<1>10. CASE Hub!AwaitConnect \/ Hub!Debounced \/ Hub!Released
  <2>1. Hub!PendingIO(changed)
    BY <1>10 DEF Hub!AwaitConnect, Hub!Debounced, Hub!Released, Hub!Recovering,
                 Hub!PendingIO
  <2> QED
    BY <1>3, <2>1
<1>11. CASE Hub!PowerCycle \/ Hub!Report
  BY <1>4, <1>11 DEF Hub!PowerCycle, Hub!Report, Hub!Recovering, Hub!core_reset_recover
<1>12. CASE Hub!Escalate \/ Hub!split_fsm_recover \/ Hub!Connect \/ Hub!Disconnect
  <2>1. queue' = queue /\ changed' \in BOOLEAN /\ (changed => changed')
    BY <1>12 DEF Hub!Escalate, Hub!core_reset_recover, Hub!split_fsm_recover,
                 Hub!Connect, Hub!Disconnect
  <2> QED
    BY <1>2, <2>1
<1> QED
  BY <1>5, <1>6, <1>7, <1>8, <1>9, <1>10, <1>11, <1>12 DEF Hub!Next, Hub!Visit

LEMMA HubStep ==
  ASSUME Hub!IInv, Hub!Next
  PROVE  Hub!IInv'
<1>1. Register /\ Flag
  BY RegisterKept, FlagKept
<1>2. /\ place' \in {"clear", "after"} => feature' \in Hub!Features
      /\ oldval' \subseteq {"pwr", "conn", "rst", "susp", "res"}
  <2> USE DEF Hub!IInv, Hub!task, Hub!Goto
  <2>1. CASE UNCHANGED <<place, feature, oldval>>
    BY <2>1
  <2>2. CASE Hub!OpenUnit
    BY <2>2 DEF Hub!OpenUnit, Hub!OpenPower, Hub!OpenLook, Hub!OpenAssert,
                Hub!OpenRelease, Hub!OpenReport
  <2>3. CASE Hub!ClearFeature
    BY <2>3 DEF Hub!ClearFeature, Hub!Harmless, Hub!SC, Hub!TypeOK, Hub!Bits
  <2>4. CASE Hub!Ports
    BY <2>3, <2>4 DEF Hub!Ports, Hub!SetFeature, Hub!PortReset, Hub!GetStatus
  <2>5. CASE Hub!Waits
    BY <2>5 DEF Hub!Waits, Hub!ResetAssert, Hub!ResetRelease, Hub!ResetDone,
                Hub!ClearWrite, Hub!ClearSignal
  <2>6. CASE Hub!Visit
    BY <2>1, <2>6 DEF Hub!Visit, Hub!Watchdog, Hub!PowerCycle, Hub!AwaitConnect,
                      Hub!Debounced, Hub!Released, Hub!Report, Hub!Recovering
  <2> QED
    BY <2>1, <2>2, <2>4, <2>5, <2>6
       DEF Hub!Next, Hub!cmdIntXFer, Hub!AbortIO, Hub!PendingInt, Hub!Escalate,
           Hub!split_fsm_recover, Hub!WatchdogPokes, Hub!Connect, Hub!Disconnect
<1>3. recover' \in {0, 1, 2, 3, 4, 10}
  <2> USE DEF Hub!IInv, Hub!TypeOK, Hub!rec
  <2>1. CASE Hub!OpenUnit \/ Hub!Ports
    BY <2>1 DEF Hub!OpenUnit, Hub!Ports, Hub!OpenPower, Hub!OpenLook, Hub!OpenAssert,
                Hub!OpenRelease, Hub!OpenReport, Hub!SetFeature, Hub!PortReset,
                Hub!ClearFeature, Hub!GetStatus
  <2>2. CASE Hub!Waits
    BY <2>2 DEF Hub!Waits, Hub!ResetAssert, Hub!ResetRelease, Hub!ResetDone,
                Hub!ClearWrite, Hub!ClearSignal
  <2>3. CASE Hub!Visit
    BY <2>3 DEF Hub!Visit, Hub!Watchdog, Hub!PowerCycle, Hub!AwaitConnect,
                Hub!Debounced, Hub!Released, Hub!Report, Hub!Recovering
  <2> QED
    BY <2>1, <2>2, <2>3
       DEF Hub!Next, Hub!cmdIntXFer, Hub!AbortIO, Hub!PendingInt, Hub!Escalate,
           Hub!split_fsm_recover, Hub!WatchdogPokes, Hub!Connect, Hub!Disconnect
<1> QED
  BY <1>1, <1>2, <1>3, Members2 DEF Hub!IInv, Hub!TypeOK, Register, Flag

\* A write of the port register does only what was asked for, also when it writes
\* back what it read before a wait; a change that was raised is told to somebody, or
\* the flag stays, with any number of readers and with or without the recovery.
THEOREM RootHubIsHonest == Hub!Spec => Hub!RootHubTells
<1>1. Hub!Init => Hub!IInv
  <2> SUFFICES ASSUME Hub!Init PROVE Hub!IInv
    OBVIOUS
  <2>1. queue \in Seq(Readers)
    BY DEF Hub!Init
  <2>2. Hub!ToSet(queue) \subseteq Readers
    BY <2>1, Members2
  <2> QED
    BY <2>1, <2>2 DEF Hub!Init, Hub!IInv, Hub!TypeOK, Hub!Bits, Hub!Change
<1>2. Hub!IInv /\ [Hub!Next]_Hub!vars => Hub!IInv'
  <2>1. CASE UNCHANGED Hub!vars
    BY <2>1 DEF Hub!vars, Hub!task, Hub!hub, Hub!rec, Hub!IInv, Hub!TypeOK
  <2> QED
    BY <2>1, HubStep
<1>3. Hub!IInv /\ [Hub!Next]_Hub!vars => [Hub!AsAsked /\ Hub!TellsOrKeeps]_Hub!vars
  BY RegisterKept, FlagKept DEF Register, Flag
<1>4. Hub!IInv => Hub!TypeOK
  BY DEF Hub!IInv
<1> QED
  BY <1>1, <1>2, <1>3, <1>4, PTL DEF Hub!Spec, Hub!RootHubTells
-----------------------------------------------------------------------------
(* The bus of the wireless chip.                                          *)

CONSTANTS Ready5, ReadyF, Block, MaxBlocks, MaxBytes, MaxLen
VARIABLES chip, doing, status, stale, r5, sdio_Present, hostwide, fast, BlkSize, service,
          command, wait, retries, len, count, taken
Sdio == INSTANCE SdioHost WITH card <- chip, call <- service, at <- command, stage <- wait

ChipStates == [state : {"off", "idle", "standby", "selected"}, wide : BOOLEAN,
               size : {0, 1, Block}]

\* What a command does to the chip: the state and the width are the probe's.
LEMMA Effects ==
  ASSUME NEW c \in ChipStates, chip = c
  PROVE  /\ Sdio!Effect(command) \in ChipStates
         /\ command \notin {"cmd0", "cmd3", "cmd7"} =>
              Sdio!Effect(command).state = chip.state
         /\ command # "cmd0" => (chip.wide => Sdio!Effect(command).wide)
         /\ chip.size = Block => Sdio!Effect(command).size = Block
         /\ command = "cmd7" => Sdio!Effect(command).state = "selected"
         /\ command = "wrwidth" => Sdio!Effect(command).wide
         /\ command = "size1" => Sdio!Effect(command).size = Block
<1> USE DEF ChipStates
<1>1. CASE command = "cmd0"
  BY <1>1 DEF Sdio!Effect
<1>2. CASE command = "cmd3"
  BY <1>2 DEF Sdio!Effect
<1>3. CASE command = "cmd7"
  BY <1>3 DEF Sdio!Effect
<1>4. CASE command = "wrwidth"
  BY <1>4 DEF Sdio!Effect
<1>5. CASE command = "size0"
  BY <1>5 DEF Sdio!Effect
<1>6. CASE command = "size1"
  BY <1>6 DEF Sdio!Effect
<1>7. CASE command \notin {"cmd0", "cmd3", "cmd7", "wrwidth", "size0", "size1"}
  <2>1. Sdio!Effect(command) = chip
    BY <1>7 DEF Sdio!Effect
  <2> QED
    BY <1>7, <2>1
<1> QED
  BY <1>1, <1>2, <1>3, <1>4, <1>5, <1>6, <1>7

\* The chip answers a command that was sent.
LEMMA RespondStep ==
  ASSUME Sdio!IInv, Sdio!Respond
  PROVE  Sdio!IInv'
<1>1. /\ doing = "respond" /\ wait \in {"response", "reset"}
      /\ UNCHANGED <<stale, taken, sdio_Present, hostwide, fast, BlkSize, service,
                     command, retries, len, wait, count>>
  BY DEF Sdio!Respond, Sdio!IInv, Sdio!Landed, Sdio!hostVars, Sdio!callVars
<1>2. chip \in ChipStates
  BY DEF Sdio!IInv, Sdio!TypeOK, ChipStates
<1>3. /\ chip' \in {chip, Sdio!Effect(command)} /\ r5' \in BOOLEAN
      /\ doing' \in {"nothing", "fill"}
      /\ status' \in {status \cup {"response"}, status \cup {"error"}}
      /\ "error" \in status' \/ r5' \/ chip' = Sdio!Effect(command)
  BY DEF Sdio!Respond, Sdio!IInv, Sdio!TypeOK
<1>4. /\ chip' \in ChipStates
      /\ command \notin {"cmd0", "cmd3", "cmd7"} => chip'.state = chip.state
      /\ command # "cmd0" => (chip.wide => chip'.wide)
      /\ chip.size = Block => chip'.size = Block
      /\ chip' = Sdio!Effect(command) => Sdio!Applied'
  BY <1>1, <1>2, <1>3, Effects DEF Sdio!Applied
<1>5. sdio_Present => command \notin Sdio!ProbeOnly
  BY DEF Sdio!IInv, Sdio!CallsAt, Sdio!ProbeOnly
<1>6. Sdio!Agreed'
  BY <1>1, <1>3, <1>4, <1>5
     DEF Sdio!IInv, Sdio!Agreed, Sdio!HasData, Sdio!ProbeOnly
<1>7. Sdio!Landed' /\ Sdio!CallsAt'
  BY <1>1, <1>3, <1>4 DEF Sdio!IInv, Sdio!Landed, Sdio!CallsAt, Sdio!Busy
<1>8. Sdio!TypeOK'
  BY <1>1, <1>3, <1>4 DEF Sdio!IInv, Sdio!TypeOK, Sdio!Bit, ChipStates
<1> QED
  BY <1>1, <1>6, <1>7, <1>8 DEF Sdio!IInv

\* A wait goes on, ends or runs out; the chip stays as it is.
LEMMA WaitStep ==
  ASSUME Sdio!LimitAssumption, Sdio!IInv,
         Sdio!Transfer \/ Sdio!Issue \/ Sdio!Arrived \/ Sdio!TimeOut \/ Sdio!Reset
  PROVE  Sdio!IInv'
<1> USE DEF Sdio!IInv, Sdio!hostVars, Sdio!callVars, Sdio!chipVars, Sdio!regVars
<1>1. UNCHANGED <<chip, sdio_Present, hostwide, fast, BlkSize, service, command,
                  retries, len>>
  BY DEF Sdio!Transfer, Sdio!Issue, Sdio!Arrived, Sdio!TimeOut, Sdio!Reset
<1>2. stale' = {} /\ taken' \in BOOLEAN /\ ~taken'
  <2>1. CASE Sdio!Arrived
    <3>1. PICK b : b \in status /\ taken' = (b \in stale)
      BY <2>1 DEF Sdio!Arrived
    <3>2. (b \in stale) = FALSE
      OBVIOUS
    <3>3. taken' = FALSE
      BY <3>1, <3>2
    <3>4. stale' \subseteq stale
      BY <2>1 DEF Sdio!Arrived
    <3> QED
      BY <3>3, <3>4
  <2>2. CASE Sdio!Issue
    BY <2>2 DEF Sdio!Issue, Sdio!Left
  <2>3. CASE Sdio!TimeOut
    <3>1. stale' = {} /\ taken' = FALSE
      BY <2>3 DEF Sdio!TimeOut
    <3> QED
      BY <3>1
  <2>4. CASE Sdio!Transfer \/ Sdio!Reset
    <3>1. stale' = stale /\ taken' = taken /\ taken \in BOOLEAN
      BY <2>4 DEF Sdio!Transfer, Sdio!Reset, Sdio!TypeOK
    <3> QED
      BY <3>1
  <2> QED
    BY <2>1, <2>2, <2>3, <2>4
<1>3. Sdio!CallsAt'
  <2>1. Sdio!Busy <=> Sdio!Busy'
    BY DEF Sdio!Busy, Sdio!Transfer, Sdio!Issue, Sdio!Arrived, Sdio!TimeOut, Sdio!Reset,
           Sdio!Waiting
  <2>2. ~Sdio!Busy => wait' = wait
    BY DEF Sdio!Busy, Sdio!Transfer, Sdio!Issue, Sdio!Arrived, Sdio!TimeOut, Sdio!Reset,
           Sdio!Waiting
  <2> QED
    BY <1>1, <2>1, <2>2 DEF Sdio!CallsAt, Sdio!Busy
<1>4. Sdio!Applied <=> Sdio!Applied'
  BY <1>1 DEF Sdio!Applied
<1>5. CASE Sdio!Transfer
  <2>1. /\ doing' = "nothing" /\ UNCHANGED <<r5, wait, count>>
        /\ status' \subseteq status \cup {"ready", "done", "error"}
        /\ status \subseteq status' /\ doing \in {"fill", "finish"}
    BY <1>5 DEF Sdio!Transfer
  <2>2. Sdio!Landed'
    BY <1>4, <2>1 DEF Sdio!Landed
  <2> QED
    BY <1>1, <1>2, <1>3, <2>1, <2>2 DEF Sdio!TypeOK, Sdio!Bit, Sdio!Agreed, Sdio!HasData
<1>6. CASE Sdio!Issue
  <2>1. /\ wait = "issue" /\ wait' = "response" /\ status' = {} /\ doing' = "respond"
        /\ r5' = FALSE /\ count' = count
    BY <1>6 DEF Sdio!Issue, Sdio!Left
  <2> QED
    BY <1>1, <1>2, <1>3, <2>1
       DEF Sdio!TypeOK, Sdio!Bit, Sdio!Agreed, Sdio!HasData, Sdio!Landed
<1>7. CASE Sdio!Arrived
  <2>1. /\ wait \in {"response", "data", "end"} /\ r5' = r5
        /\ status \cap {Sdio!Wanted, "error"} # {}
    BY <1>7 DEF Sdio!Arrived, Sdio!Waiting
  <2>2. CASE "error" \in status /\ wait # "end"
    <3>1. status' = {} /\ wait' = "reset" /\ UNCHANGED <<doing, count>>
      BY <1>7, <2>2 DEF Sdio!Arrived
    <3> QED
      BY <1>1, <1>2, <1>3, <2>1, <3>1
         DEF Sdio!TypeOK, Sdio!Bit, Sdio!Agreed, Sdio!HasData, Sdio!Landed
  <2>3. CASE ~("error" \in status /\ wait # "end")
    <3>1. status' \subseteq status
      BY <1>7, <2>3 DEF Sdio!Arrived
    <3>2. CASE wait = "response"
      <4>1. Sdio!Wanted = "response"
        BY <3>2 DEF Sdio!Wanted
      <4>2. "response" \in status /\ "error" \notin status
        BY <2>1, <2>3, <3>2, <4>1
      <4>3. /\ wait' = IF Sdio!HasData(command) THEN "data" ELSE "ok"
            /\ UNCHANGED <<doing, count>>
        BY <1>7, <2>3, <3>2 DEF Sdio!Arrived
      <4>4. doing # "respond"
        BY <3>2, <4>2 DEF Sdio!Landed
      <4>5. Sdio!Landed'
        BY <1>4, <2>1, <3>2, <4>2, <4>3, <4>4 DEF Sdio!Landed
      <4> QED
        BY <1>1, <1>2, <1>3, <2>1, <3>1, <3>2, <4>3, <4>5
           DEF Sdio!TypeOK, Sdio!Bit, Sdio!Agreed, Sdio!HasData
    <3>3. CASE wait = "data"
      <4>1. count' = count - 1 /\ count \in 0..MaxBlocks
        BY <1>7, <2>3, <3>3 DEF Sdio!Arrived, Sdio!TypeOK
      <4>2. IF count' = 0 THEN wait' = "end" /\ doing' = "finish"
                          ELSE wait' = "data" /\ doing' = "fill"
        BY <1>7, <2>3, <3>3 DEF Sdio!Arrived
      <4>3. Sdio!Landed'
        BY <1>4, <2>1, <3>3, <4>2 DEF Sdio!Landed
      <4>4. count \in 1..MaxBlocks /\ MaxBlocks \in Nat
        BY <3>3 DEF Sdio!Agreed, Sdio!LimitAssumption
      <4>5. count' \in 0..MaxBlocks /\ (count' # 0 => count' \in 1..MaxBlocks)
        BY <4>1, <4>4
      <4> QED
        BY <1>1, <1>2, <1>3, <2>1, <3>1, <3>3, <4>2, <4>3, <4>5
           DEF Sdio!TypeOK, Sdio!Bit, Sdio!Agreed, Sdio!HasData
    <3>4. CASE wait = "end"
      <4>1. wait' = "ok" /\ UNCHANGED <<doing, count>>
        BY <1>7, <2>3, <3>4 DEF Sdio!Arrived
      <4>2. Sdio!Landed'
        BY <1>4, <2>1, <3>4, <4>1 DEF Sdio!Landed
      <4> QED
        BY <1>1, <1>2, <1>3, <2>1, <3>1, <3>4, <4>1, <4>2
           DEF Sdio!TypeOK, Sdio!Bit, Sdio!Agreed, Sdio!HasData
    <3> QED
      BY <2>1, <3>2, <3>3, <3>4
  <2> QED
    BY <2>2, <2>3
<1>8. CASE Sdio!TimeOut \/ Sdio!Reset
  <2>1. /\ wait' \in {"reset", "failed"} /\ status' \subseteq status
        /\ UNCHANGED <<r5, count>> /\ doing' \in {doing, "nothing"}
        /\ wait' = "failed" => doing' = "nothing"
    BY <1>8 DEF Sdio!TimeOut, Sdio!Reset
  <2> QED
    BY <1>1, <1>2, <1>3, <2>1
       DEF Sdio!TypeOK, Sdio!Bit, Sdio!Agreed, Sdio!HasData, Sdio!Landed
<1> QED
  BY <1>5, <1>6, <1>7, <1>8

\* The number of whole blocks in a length.
LEMMA WholeBlocks ==
  ASSUME NEW l \in Nat, NEW b \in Nat \ {0}
  PROVE  l \div b \in Nat /\ (l >= b => l \div b # 0)
<1> DEFINE q == l \div b
           r == l % b
<1>1. q \in Int /\ r \in 0..b - 1 /\ l = b * q + r
  OBVIOUS
<1>2. CASE q <= -1
  <2>1. b * q <= -b
    BY <1>1, <1>2
  <2> QED
    BY <1>1, <2>1
<1>3. CASE q = 0
  <2>1. b * q = 0
    BY <1>3
  <2> QED
    BY <1>1, <1>3, <2>1
<1> QED
  BY <1>1, <1>2, <1>3

LEMMA Share ==
  ASSUME Sdio!LimitAssumption, BlkSize \in {0, Block}, NEW l \in 1..MaxLen,
         Sdio!GoExt(l)
  PROVE  /\ len' = l /\ wait' = "issue" /\ command' \in {"bytes", "blocks"}
         /\ count' \in 1..MaxBlocks
         /\ command' = "blocks" => BlkSize # 0
<1>1. BlkSize \in Nat /\ l \in Nat /\ MaxBlocks \in Nat \ {0}
  BY DEF Sdio!LimitAssumption
<1>2. CASE Sdio!BlockMode(l)
  <2>1. BlkSize \in Nat \ {0} /\ l >= BlkSize
    BY <1>1, <1>2 DEF Sdio!BlockMode
  <2>2. PICK n \in Nat \ {0} : n = l \div BlkSize
    BY <1>1, <2>1, WholeBlocks
  <2>3. Sdio!Blocks(l) = IF n > MaxBlocks THEN MaxBlocks ELSE n
    BY <2>2 DEF Sdio!Blocks
  <2>4. Sdio!Blocks(l) \in 1..MaxBlocks
    BY <1>1, <2>2, <2>3
  <2> QED
    BY <1>2, <2>1, <2>4 DEF Sdio!GoExt
<1>3. CASE ~Sdio!BlockMode(l)
  BY <1>1, <1>3 DEF Sdio!GoExt
<1> QED
  BY <1>2, <1>3

\* A call begins or ends.
LEMMA CallBegins ==
  ASSUME Sdio!LimitAssumption, Sdio!IInv,
         \/ Sdio!Probe \/ Sdio!SetBlockSize \/ Sdio!EnableFunction \/ Sdio!Ext
         \/ Sdio!Done
  PROVE  Sdio!IInv'
<1> USE DEF Sdio!IInv, Sdio!hostVars, Sdio!callVars, Sdio!chipVars, Sdio!regVars,
            Sdio!Calling
<1>1. CASE Sdio!Probe
  <2>1. /\ service = "none" /\ command = "none" /\ wait = "idle" /\ service' = "probe"
        /\ UNCHANGED <<doing, r5, status, stale, taken, sdio_Present, hostwide, fast,
                       BlkSize, len, count>>
    BY <1>1 DEF Sdio!Probe, Sdio!CallsAt
  <2>2. CASE sdio_Present
    <3>1. command' = "none" /\ wait' = "return" /\ chip' = chip
      BY <1>1, <2>2 DEF Sdio!Probe
    <3> QED
      BY <2>1, <2>2, <3>1
         DEF Sdio!TypeOK, Sdio!CallsAt, Sdio!Landed, Sdio!Agreed, Sdio!HasData
  <2>3. CASE ~sdio_Present
    <3>1. /\ command' = "cmd0" /\ wait' = "issue"
          /\ chip' = [state |-> "idle", wide |-> FALSE, size |-> 0]
      BY <1>1, <2>3 DEF Sdio!Probe
    <3>2. chip' \in [state : {"off", "idle", "standby", "selected"}, wide : BOOLEAN,
                     size : {0, 1, Block}]
      BY <3>1
    <3>3. Sdio!TypeOK'
      BY <2>1, <3>1, <3>2 DEF Sdio!TypeOK
    <3> QED
      BY <2>1, <2>3, <3>1, <3>3
         DEF Sdio!CallsAt, Sdio!Busy, Sdio!ProbeOnly, Sdio!Landed, Sdio!Agreed,
             Sdio!HasData
  <2> QED
    BY <2>2, <2>3
<1>2. CASE Sdio!SetBlockSize \/ Sdio!EnableFunction
  <2>1. /\ service = "none" /\ command = "none" /\ wait = "idle" /\ sdio_Present
        /\ \/ service' = "size" /\ command' = "size0"
           \/ service' = "enable" /\ command' = "rdioe"
        /\ wait' = "issue"
        /\ UNCHANGED <<chip, doing, r5, status, stale, taken, sdio_Present, hostwide,
                       fast, BlkSize, len, count>>
    BY <1>2 DEF Sdio!SetBlockSize, Sdio!EnableFunction, Sdio!CallsAt
  <2> QED
    BY <2>1 DEF Sdio!TypeOK, Sdio!CallsAt, Sdio!Busy, Sdio!Landed, Sdio!Agreed,
                Sdio!HasData
<1>3. CASE Sdio!Ext
  <2>1. PICK l \in 1..MaxLen : Sdio!GoExt(l)
    BY <1>3 DEF Sdio!Ext
  <2>2. /\ len' = l /\ wait' = "issue" /\ command' \in {"bytes", "blocks"}
        /\ count' \in 1..MaxBlocks
        /\ command' = "blocks" => BlkSize # 0
    BY <2>1, Share DEF Sdio!TypeOK
  <2>3. /\ service = "none" /\ wait = "idle" /\ sdio_Present /\ service' = "ext"
        /\ UNCHANGED <<chip, doing, r5, status, stale, taken, sdio_Present, hostwide,
                       fast, BlkSize>>
    BY <1>3 DEF Sdio!Ext, Sdio!CallsAt
  <2>4. len' \in 0..MaxLen /\ count' \in 0..MaxBlocks
    BY <2>2
  <2> QED
    BY <2>2, <2>3, <2>4
       DEF Sdio!TypeOK, Sdio!CallsAt, Sdio!Busy, Sdio!Landed, Sdio!Agreed, Sdio!HasData
<1>4. CASE Sdio!Done
  BY <1>4 DEF Sdio!Done, Sdio!Return, Sdio!TypeOK, Sdio!CallsAt, Sdio!Busy, Sdio!Landed,
              Sdio!Agreed, Sdio!HasData
<1> QED
  BY <1>1, <1>2, <1>3, <1>4

\* A command of the probe is over.
LEMMA ProbeGoes ==
  ASSUME Sdio!IInv, Sdio!ProbeStep
  PROVE  Sdio!IInv'
<1> USE DEF Sdio!IInv, Sdio!hostVars, Sdio!chipVars, Sdio!regVars
<1>1. /\ service = "probe" /\ wait \in {"ok", "failed"} /\ command \in Sdio!ProbeOnly
      /\ ~sdio_Present /\ BlkSize = 0 /\ hostwide = FALSE
      /\ UNCHANGED <<chip, doing, r5, status, stale, taken, len, count, BlkSize>>
  BY DEF Sdio!ProbeStep, Sdio!Over, Sdio!CallsAt, Sdio!Agreed, Sdio!TypeOK
<1>2. wait = "ok" /\ ~r5 => Sdio!Applied
  BY DEF Sdio!Landed
<1>3. doing # "respond"
  BY <1>1 DEF Sdio!Landed
<1>4. CASE Sdio!Return /\ UNCHANGED <<sdio_Present, hostwide, fast>>
  BY <1>1, <1>3, <1>4 DEF Sdio!Return, Sdio!TypeOK, Sdio!CallsAt, Sdio!Landed,
                          Sdio!Agreed, Sdio!HasData
<1>5. ASSUME NEW c \in Sdio!ProbeOnly, Sdio!Go(c),
             UNCHANGED <<sdio_Present, hostwide, fast>>,
             c \in {"rdwidth", "wrwidth"} => chip.state = "selected"
      PROVE  Sdio!IInv'
  BY <1>1, <1>3, <1>5 DEF Sdio!Go, Sdio!TypeOK, Sdio!CallsAt, Sdio!Busy, Sdio!Landed,
                          Sdio!Agreed, Sdio!HasData, Sdio!ProbeOnly
<1>6. CASE command \in {"cmd0", "cmd8", "cmd5", "cmd5w", "cmd3"}
  <2>1. \/ Sdio!Return /\ UNCHANGED <<sdio_Present, hostwide, fast>>
        \/ \E c \in {"cmd8", "cmd5", "cmd5w", "cmd3", "cmd7"} :
             Sdio!Go(c) /\ UNCHANGED <<sdio_Present, hostwide, fast>>
    BY <1>6 DEF Sdio!ProbeStep
  <2> QED
    BY <1>4, <1>5, <2>1 DEF Sdio!ProbeOnly
<1>7. CASE command = "cmd7"
  <2>1. /\ IF Sdio!Good THEN Sdio!Go("rdwidth") ELSE Sdio!Return
        /\ UNCHANGED <<sdio_Present, hostwide, fast>>
    BY <1>7 DEF Sdio!ProbeStep
  <2>2. Sdio!Good => chip.state = "selected"
    BY <1>2, <1>7 DEF Sdio!Good, Sdio!Applied
  <2> QED
    BY <1>4, <1>5, <2>1, <2>2 DEF Sdio!ProbeOnly
<1>8. CASE command = "rdwidth" /\ Sdio!Good
  <2>1. Sdio!Go("wrwidth") /\ UNCHANGED <<sdio_Present, hostwide, fast>>
    BY <1>8 DEF Sdio!ProbeStep
  <2>2. chip.state = "selected"
    BY <1>8 DEF Sdio!Agreed
  <2> QED
    BY <1>5, <2>1, <2>2 DEF Sdio!ProbeOnly
<1>9. CASE command \in {"rdwidth", "wrwidth"} /\ ~(command = "rdwidth" /\ Sdio!Good)
  <2>1. /\ hostwide' = Sdio!Widens /\ fast' = TRUE /\ sdio_Present' = TRUE
        /\ service' = "none" /\ command' = "none" /\ wait' = "idle"
    BY <1>9 DEF Sdio!ProbeStep, Sdio!Return
  <2>2. hostwide' \in BOOLEAN /\ (hostwide' => chip.wide)
    <3>1. Sdio!Widens \in BOOLEAN
      BY DEF Sdio!Widens, Sdio!Good
    <3>2. Sdio!Widens => chip.wide
      BY <1>2 DEF Sdio!Widens, Sdio!Good, Sdio!Applied
    <3> QED
      BY <2>1, <3>1, <3>2
  <2>3. chip.state = "selected"
    BY <1>9 DEF Sdio!Agreed
  <2> QED
    BY <1>1, <1>3, <2>1, <2>2, <2>3
       DEF Sdio!TypeOK, Sdio!CallsAt, Sdio!Landed, Sdio!Agreed, Sdio!HasData
<1> QED
  BY <1>1, <1>6, <1>7, <1>8, <1>9 DEF Sdio!ProbeOnly

\* A command of another call is over.
LEMMA CallGoes ==
  ASSUME Sdio!LimitAssumption, Sdio!IInv,
         Sdio!SizeStep \/ Sdio!EnableStep \/ Sdio!ExtStep
  PROVE  Sdio!IInv'
<1> USE DEF Sdio!IInv, Sdio!hostVars, Sdio!chipVars, Sdio!regVars
<1>1. /\ service \in {"size", "enable", "ext"} /\ wait \in {"ok", "failed"}
      /\ sdio_Present
      /\ UNCHANGED <<chip, doing, r5, status, stale, taken, sdio_Present, hostwide, fast>>
  BY DEF Sdio!SizeStep, Sdio!EnableStep, Sdio!ExtStep, Sdio!Over, Sdio!CallsAt
<1>2. doing # "respond"
  BY <1>1 DEF Sdio!Landed
<1>3. CASE Sdio!SizeStep
  <2>1. /\ \/ command' = "size1" /\ wait' = "issue" /\ service' = "size"
           \/ Sdio!Return
        /\ UNCHANGED <<len, count>>
        /\ BlkSize' = IF Sdio!Cache THEN Block ELSE BlkSize
    BY <1>3 DEF Sdio!SizeStep, Sdio!Go
  <2>2. Sdio!Cache => chip.size = Block
    BY DEF Sdio!Cache, Sdio!Good, Sdio!Landed, Sdio!Applied
  <2> QED
    BY <1>1, <1>2, <2>1, <2>2
       DEF Sdio!Return, Sdio!TypeOK, Sdio!CallsAt, Sdio!Busy, Sdio!Landed, Sdio!Agreed,
           Sdio!HasData
<1>4. CASE Sdio!EnableStep
  <2>1. /\ \/ /\ command' \in {"wrioe", "rdior"} /\ wait' = "issue"
              /\ service' = "enable"
           \/ Sdio!Return
        /\ UNCHANGED <<len, count, BlkSize>>
    BY <1>4 DEF Sdio!EnableStep, Sdio!Go
  <2> QED
    BY <1>1, <1>2, <2>1
       DEF Sdio!Return, Sdio!TypeOK, Sdio!CallsAt, Sdio!Busy, Sdio!Landed, Sdio!Agreed,
           Sdio!HasData
<1>5. CASE Sdio!ExtStep
  <2>1. /\ service = "ext" /\ command \in {"bytes", "blocks"} /\ BlkSize' = BlkSize
        /\ len \in 0..MaxLen /\ BlkSize \in {0, Block}
    BY <1>5 DEF Sdio!ExtStep, Sdio!CallsAt, Sdio!TypeOK
  <2>2. CASE Sdio!Good /\ len > Sdio!Moved
    <3>1. Sdio!GoExt(len - Sdio!Moved) /\ service' = service
      BY <1>5, <2>2 DEF Sdio!ExtStep
    <3>2. Sdio!Moved \in Nat
      <4>1. /\ len \in Nat /\ BlkSize \in Nat /\ MaxBytes \in Nat /\ MaxBlocks \in Nat
            /\ command = "blocks" => BlkSize # 0
        BY <2>1 DEF Sdio!Agreed, Sdio!LimitAssumption
      <4>2. CASE command = "blocks"
        <5>1. Sdio!Blocks(len) \in Nat
          BY <4>1, <4>2, WholeBlocks DEF Sdio!Blocks
        <5> QED
          BY <4>1, <4>2, <5>1 DEF Sdio!Moved
      <4>3. CASE command # "blocks"
        BY <4>1, <4>3 DEF Sdio!Moved
      <4> QED
        BY <4>2, <4>3
    <3>3. PICK l \in 1..MaxLen : l = len - Sdio!Moved
      BY <2>1, <2>2, <3>2 DEF Sdio!LimitAssumption
    <3>4. /\ len' = l /\ wait' = "issue" /\ command' \in {"bytes", "blocks"}
          /\ count' \in 1..MaxBlocks
          /\ command' = "blocks" => BlkSize # 0
      BY <2>1, <3>1, <3>3, Share
    <3>5. len' \in 0..MaxLen /\ count' \in 0..MaxBlocks
      BY <3>4
    <3> QED
      BY <1>1, <1>2, <2>1, <3>1, <3>4, <3>5
         DEF Sdio!TypeOK, Sdio!CallsAt, Sdio!Busy, Sdio!Landed, Sdio!Agreed, Sdio!HasData
  <2>3. CASE ~(Sdio!Good /\ len > Sdio!Moved)
    <3>1. Sdio!Return /\ len' = 0 /\ count' = 0 /\ MaxLen \in Nat /\ MaxBlocks \in Nat
      BY <1>5, <2>3 DEF Sdio!ExtStep, Sdio!LimitAssumption
    <3> QED
      BY <1>1, <1>2, <2>1, <3>1
         DEF Sdio!Return, Sdio!TypeOK, Sdio!CallsAt, Sdio!Landed, Sdio!Agreed, Sdio!HasData
  <2> QED
    BY <2>2, <2>3
<1> QED
  BY <1>3, <1>4, <1>5

LEMMA SdioInductive == ASSUME Sdio!LimitAssumption PROVE Sdio!Spec => []Sdio!IInv
<1>1. Sdio!Init => Sdio!IInv
  <2> SUFFICES ASSUME Sdio!Init PROVE Sdio!IInv
    OBVIOUS
  <2>1. Sdio!TypeOK
    <3>1. chip \in [state : {"off", "idle", "standby", "selected"}, wide : BOOLEAN,
                    size : {0, 1, Block}]
      BY DEF Sdio!Init
    <3>2. len \in 0..MaxLen /\ count \in 0..MaxBlocks
      BY DEF Sdio!Init, Sdio!LimitAssumption
    <3> QED
      BY <3>1, <3>2 DEF Sdio!Init, Sdio!TypeOK, Sdio!Bit
  <2> QED
    BY <2>1 DEF Sdio!Init, Sdio!IInv, Sdio!CallsAt, Sdio!Landed, Sdio!Agreed, Sdio!HasData
<1>2. Sdio!IInv /\ [Sdio!Next]_Sdio!vars => Sdio!IInv'
  <2>1. CASE UNCHANGED Sdio!vars
    BY <2>1 DEF Sdio!vars, Sdio!chipVars, Sdio!regVars, Sdio!hostVars, Sdio!callVars,
                Sdio!IInv, Sdio!TypeOK, Sdio!CallsAt, Sdio!Busy, Sdio!Landed,
                Sdio!Applied, Sdio!Agreed, Sdio!HasData
  <2> QED
    BY <2>1, RespondStep, WaitStep, CallBegins, ProbeGoes, CallGoes DEF Sdio!Next
<1> QED
  BY <1>1, <1>2, PTL DEF Sdio!Spec

-----------------------------------------------------------------------------
(* Bluetooth on the PL011.                                                *)

CONSTANTS Packets, Length, Room, Space, Reads, Claims, Opens
VARIABLES unit, task, opens, holder, powered, enabled, quit, out, uart, ring, rx,
          announced, lost, waiting, replies, framed
Hci == INSTANCE BtUart WITH owner <- holder, fifo <- uart, claim <- announced,
                            queue <- waiting, Ring <- Room, Buf <- Space

\* The stage of the task, with the unit, the claim and the receiver.
Wired == /\ holder \in {"nobody", "unit", "other"} /\ powered \in BOOLEAN
         /\ enabled \in BOOLEAN /\ opens \in Nat

LEMMA StageStep ==
  ASSUME Hci!StreamAssumption, Hci!IInv, Hci!Next
  PROVE  Hci!Staged' /\ Wired'
<1> USE DEF Wired, Hci!IInv, Hci!TypeOK, Hci!Staged, Hci!Bytes, Hci!line, Hci!reader, Hci!client, Hci!device
<1>1. CASE Hci!Open \/ Hci!Opened \/ Hci!Close \/ Hci!Closed
  BY <1>1 DEF Hci!Open, Hci!Opened, Hci!Close, Hci!Closed, Hci!TaskGone
<1>2. CASE Hci!ClaimUart \/ Hci!Power \/ Hci!Configure \/ Hci!GiveBack
  <2>1. CASE Hci!ClaimUart
    BY <2>1 DEF Hci!ClaimUart
  <2>2. CASE Hci!Power
    <3>1. Hci!Staged'
      BY <2>2 DEF Hci!Power
    <3>2. Wired'
      BY <2>2 DEF Hci!Power
    <3> QED
      BY <3>1, <3>2
  <2>4. CASE Hci!Configure
    <3>1. /\ task = "configure" /\ UNCHANGED <<unit, opens, holder, powered, quit>>
          /\ \/ task' = "up" /\ enabled' = TRUE
             \/ task' = "release" /\ enabled' = enabled
      BY <2>4 DEF Hci!Configure
    <3>2. Hci!Staged'
      BY <3>1
    <3>3. Wired'
      BY <3>1
    <3> QED
      BY <3>2, <3>3
  <2>3. CASE Hci!GiveBack
    BY <2>3 DEF Hci!GiveBack, Hci!Release
  <2> QED
    BY <1>2, <2>1, <2>2, <2>3, <2>4
<1>3. CASE Hci!Poll \/ Hci!Announce \/ Hci!Incomplete \/ Hci!Deliver
  BY <1>3 DEF Hci!Poll, Hci!Announce, Hci!Incomplete, Hci!Deliver
<1>4. CASE Hci!TaskStops \/ Hci!TaskEnds
  BY <1>4 DEF Hci!TaskStops, Hci!TaskEnds, Hci!Release
<1>5. ASSUME UNCHANGED <<unit, task, opens, holder, powered, enabled, quit>>
      PROVE  Hci!Staged' /\ Wired'
  BY <1>5
<1> QED
  BY <1>1, <1>2, <1>3, <1>4, <1>5
     DEF Hci!Next, Hci!UnitTask, Hci!Handler, Hci!SendByte, Hci!Crackle, Hci!Post,
         Hci!Abort

\* A read is on the queue once, and answered when it is not.
Answered == Hci!Posted /\ Hci!AnsweredOnce

LEMMA Dropped ==
  ASSUME NEW S, NEW q \in Seq(S), NEW i \in 1..Len(q),
         \A m, n \in 1..Len(q) : q[m] = q[n] => m = n
  PROVE  LET s == Hci!RemoveAt(q, i)
         IN  /\ s \in Seq(S)
             /\ \A m, n \in 1..Len(s) : s[m] = s[n] => m = n
             /\ \A m \in 1..Len(s) : s[m] # q[i] /\ \E n \in 1..Len(q) : s[m] = q[n]
<1> DEFINE s == Hci!RemoveAt(q, i)
<1>1. /\ s \in Seq(S) /\ Len(s) = Len(q) - 1
      /\ \A m \in 1..Len(s) : s[m] = IF m < i THEN q[m] ELSE q[m + 1]
  <2>1. Len(q) \in Nat /\ i \in Int /\ i - 1 \in Int /\ i + 1 \in Int
    OBVIOUS
  <2>2. PICK h : h = i - 1
    OBVIOUS
  <2>3. PICK k : k = i + 1
    OBVIOUS
  <2>4. PICK z : z = Len(q)
    OBVIOUS
  <2> DEFINE a == SubSeq(q, 1, h)
             b == SubSeq(q, k, z)
  <2>5. /\ a \in Seq(S) /\ Len(a) = i - 1
        /\ \A m \in 1..i - 1 : a[m] = q[m]
    <3>1. \A m \in 1..h : q[m] \in S
      BY <2>1, <2>2
    <3> QED
      BY <2>1, <2>2, <3>1, SubSeqProperties
  <2>6. /\ b \in Seq(S) /\ Len(b) = Len(q) - i
        /\ \A m \in 1..Len(q) - i : b[m] = q[i + m]
    <3>1. \A m \in k..z : q[m] \in S
      BY <2>1, <2>3, <2>4
    <3> QED
      BY <2>1, <2>3, <2>4, <3>1, SubSeqProperties
  <2>7. s = a \o b
    BY <2>2, <2>3, <2>4 DEF Hci!RemoveAt
  <2> HIDE DEF a, b, s
  <2>8. /\ s \in Seq(S) /\ Len(s) = Len(q) - 1
        /\ \A m \in 1..Len(s) : s[m] = IF m <= Len(a) THEN a[m] ELSE b[m - Len(a)]
    BY <2>1, <2>5, <2>6, <2>7, ConcatProperties
  <2>9. \A m \in 1..Len(s) : s[m] = IF m < i THEN q[m] ELSE q[m + 1]
    BY <2>1, <2>5, <2>6, <2>8
  <2> QED
    BY <2>8, <2>9
<1> HIDE DEF s
<1>2. Len(q) \in Nat
  OBVIOUS
<1>3. ASSUME NEW m \in 1..Len(s)
      PROVE  \E n \in 1..Len(q) : n # i /\ s[m] = q[n] /\ n = IF m < i THEN m ELSE m + 1
  BY <1>1, <1>2
<1>4. ASSUME NEW m \in 1..Len(s), NEW n \in 1..Len(s), s[m] = s[n] PROVE m = n
  <2>1. PICK a \in 1..Len(q) : s[m] = q[a] /\ a = IF m < i THEN m ELSE m + 1
    BY <1>3
  <2>2. PICK b \in 1..Len(q) : s[n] = q[b] /\ b = IF n < i THEN n ELSE n + 1
    BY <1>3
  <2>3. a = b
    BY <1>4, <2>1, <2>2
  <2> QED
    BY <1>1, <1>2, <2>1, <2>2, <2>3
<1>5. \A m \in 1..Len(s) : s[m] # q[i] /\ \E n \in 1..Len(q) : s[m] = q[n]
  BY <1>3
<1> QED
  BY <1>1, <1>4, <1>5 DEF s

LEMMA AnswerStep ==
  ASSUME Hci!IInv, Hci!Next
  PROVE  Answered'
<1>0. /\ waiting \in Seq(1..Reads) /\ replies \in [1..Reads -> Nat]
      /\ DOMAIN waiting = 1..Len(waiting) /\ Len(waiting) \in Nat
      /\ \A i, j \in 1..Len(waiting) : waiting[i] = waiting[j] => i = j
      /\ \A r \in 1..Reads : replies[r] <= 1
      /\ \A i \in 1..Len(waiting) : replies[waiting[i]] = 0 /\ waiting[i] \in 1..Reads
  <2>1. waiting \in Seq(1..Reads) /\ replies \in [1..Reads -> Nat]
    BY DEF Hci!IInv, Hci!Posted
  <2>2. DOMAIN waiting = 1..Len(waiting) /\ Len(waiting) \in Nat
    BY <2>1
  <2>3. \A i \in 1..Len(waiting) : waiting[i] \in 1..Reads
    BY <2>1, ElementOfSeq
  <2>4. \A i, j \in 1..Len(waiting) : waiting[i] = waiting[j] => i = j
    BY <2>2 DEF Hci!IInv, Hci!Posted
  <2>5. /\ \A r \in 1..Reads : replies[r] <= 1
        /\ \A i \in 1..Len(waiting) : replies[waiting[i]] = 0
    BY <2>2, <2>3 DEF Hci!IInv, Hci!AnsweredOnce, Hci!Queued
  <2> QED
    BY <2>1, <2>2, <2>3, <2>4, <2>5
<1> USE DEF Answered, Hci!Posted, Hci!AnsweredOnce, Hci!Queued
<1>1. CASE UNCHANGED <<waiting, replies>>
  BY <1>0, <1>1
<1>2. CASE Hci!Open
  <2>1. waiting' = <<>> /\ replies' = replies
    BY <1>2 DEF Hci!Open
  <2> QED
    BY <1>0, <2>1
<1>3. ASSUME waiting # <<>>, Hci!Replied(Head(waiting)), waiting' = Tail(waiting)
      PROVE  Answered'
  <2>1. /\ Head(waiting) = waiting[1] /\ waiting' \in Seq(1..Reads)
        /\ Len(waiting') = Len(waiting) - 1
        /\ \A i \in 1..Len(waiting') : waiting'[i] = waiting[i + 1]
    BY <1>0, <1>3
  <2>2. PICK h \in 1..Reads : h = waiting[1]
    BY <1>0, <1>3
  <2>3. replies' = [replies EXCEPT ![h] = @ + 1] /\ replies[h] = 0
    BY <1>0, <1>3, <2>1, <2>2 DEF Hci!Replied
  <2>4. \A i \in 1..Len(waiting') : waiting'[i] # h /\ \E n \in 1..Len(waiting) : waiting'[i] = waiting[n]
    BY <1>0, <2>1, <2>2
  <2>5. \A i \in 1..Len(waiting') : replies'[waiting'[i]] = 0
    BY <1>0, <2>3, <2>4
  <2>6. DOMAIN waiting' = 1..Len(waiting')
    BY <2>1
  <2>7. replies' \in [1..Reads -> Nat] /\ \A q \in 1..Reads : replies'[q] <= 1
    BY <1>0, <2>3
  <2>8. \A m, n \in 1..Len(waiting') : waiting'[m] = waiting'[n] => m = n
    BY <1>0, <2>1
  <2> QED
    BY <2>1, <2>5, <2>6, <2>7, <2>8
<1>4. ASSUME NEW r \in 1..Reads, Hci!Post(r) PROVE Answered'
  <2>1. /\ replies' = replies /\ replies[r] = 0 /\ \A i \in 1..Len(waiting) : waiting[i] # r
        /\ waiting' = Append(waiting, r)
    BY <1>0, <1>4 DEF Hci!Post
  <2>2. /\ waiting' \in Seq(1..Reads) /\ Len(waiting') = Len(waiting) + 1
        /\ \A i \in 1..Len(waiting) : waiting'[i] = waiting[i]
        /\ waiting'[Len(waiting) + 1] = r
    BY <1>0, <2>1
  <2> QED
    BY <1>0, <2>1, <2>2
<1>5. ASSUME NEW r \in 1..Reads, Hci!Abort(r) PROVE Answered'
  <2>1. PICK i \in 1..Len(waiting) : waiting[i] = r /\ waiting' = Hci!RemoveAt(waiting, i)
    BY <1>0, <1>5 DEF Hci!Abort
  <2>2. /\ waiting' \in Seq(1..Reads)
        /\ \A m, n \in 1..Len(waiting') : waiting'[m] = waiting'[n] => m = n
        /\ \A m \in 1..Len(waiting') :
              waiting'[m] # r /\ \E n \in 1..Len(waiting) : waiting'[m] = waiting[n]
    BY <1>0, <2>1, Dropped
  <2>3. replies' = [replies EXCEPT ![r] = @ + 1] /\ replies[r] = 0
    BY <1>0, <1>5, <2>1 DEF Hci!Abort, Hci!Replied
  <2>4. \A m \in 1..Len(waiting') : replies'[waiting'[m]] = 0
    BY <1>0, <2>2, <2>3
  <2>5. DOMAIN waiting' = 1..Len(waiting')
    BY <2>2
  <2>6. replies' \in [1..Reads -> Nat] /\ \A q \in 1..Reads : replies'[q] <= 1
    BY <1>0, <2>3
  <2> QED
    BY <2>2, <2>4, <2>5, <2>6
<1> QED
  BY <1>1, <1>2, <1>3, <1>4, <1>5
     DEF Hci!Next, Hci!UnitTask, Hci!Opened, Hci!Close, Hci!Closed, Hci!ClaimUart,
         Hci!Power, Hci!Configure, Hci!GiveBack, Hci!Poll, Hci!Announce,
         Hci!Incomplete, Hci!Deliver, Hci!TaskStops, Hci!TaskEnds, Hci!Handler,
         Hci!SendByte, Hci!Crackle, Hci!client

\* A part of a sequence, two of them, and one byte more.
LEMMA Slice ==
  ASSUME NEW S, NEW s \in Seq(S), NEW a \in Nat \ {0}, NEW b \in Nat, b <= Len(s), a <= b + 1
  PROVE  /\ SubSeq(s, a, b) \in Seq(S) /\ Len(SubSeq(s, a, b)) = b - a + 1
         /\ \A i \in 1..Len(SubSeq(s, a, b)) : SubSeq(s, a, b)[i] = s[a + i - 1]
<1>1. Len(s) \in Nat /\ \A i \in a..b : s[i] \in S
  OBVIOUS
<1> QED
  BY <1>1, SubSeqProperties

Clean(s) == \A i \in 1..Len(s) : s[i] # Hci!Noise
Line(s, n) == s \in Seq(Hci!AnyByte) /\ Len(s) <= n

LEMMA Joined ==
  ASSUME NEW s \in Seq(Hci!AnyByte), NEW t \in Seq(Hci!AnyByte), Clean(s), Clean(t)
  PROVE  s \o t \in Seq(Hci!AnyByte) /\ Len(s \o t) = Len(s) + Len(t) /\ Clean(s \o t)
<1>1. /\ s \o t \in Seq(Hci!AnyByte) /\ Len(s \o t) = Len(s) + Len(t)
      /\ \A i \in 1..Len(s) + Len(t) : (s \o t)[i] = IF i <= Len(s) THEN s[i] ELSE t[i - Len(s)]
  BY ConcatProperties
<1>2. Len(s) \in Nat /\ Len(t) \in Nat
  OBVIOUS
<1> QED
  BY <1>1, <1>2 DEF Clean

LEMMA Part ==
  ASSUME NEW s \in Seq(Hci!AnyByte), NEW a \in Nat \ {0}, NEW b \in Nat, b <= Len(s), a <= b + 1
  PROVE  /\ SubSeq(s, a, b) \in Seq(Hci!AnyByte) /\ Len(SubSeq(s, a, b)) = b - a + 1
         /\ Clean(s) => Clean(SubSeq(s, a, b))
<1>1. Len(s) \in Nat
  OBVIOUS
<1> QED
  BY <1>1, Slice DEF Clean

LEMMA OutIs ==
  ASSUME Hci!StreamAssumption, Hci!Bytes
  PROVE  /\ out \in Nat \X Nat /\ out # Hci!Noise /\ out[1] \in 1..Packets + 1
         /\ out[2] \in 1..Length /\ out = <<out[1], out[2]>>
         /\ out[1] <= Packets => out \in Hci!AnyByte
<1>1. Packets \in Nat /\ Length \in Nat
  BY DEF Hci!StreamAssumption
<1>2. PICK p \in 1..Packets + 1, k \in 1..Length : out = <<p, k>>
  BY DEF Hci!Bytes, Hci!Byte
<1>3. out[1] = p /\ out[2] = k
  BY <1>2
<1>4. out # Hci!Noise
  BY <1>2, <1>3 DEF Hci!Noise
<1>5. p <= Packets => <<p, k>> \in Hci!AnyByte
  BY <1>1 DEF Hci!AnyByte, Hci!Byte
<1> QED
  BY <1>1, <1>2, <1>3, <1>4, <1>5

\* The lines keep to their lengths, and no noise passes the receiver.
Lines == /\ Line(uart, 2) /\ Line(ring, Room) /\ Line(rx, Space) /\ Clean(rx)
         /\ enabled => Clean(uart) /\ Clean(ring)

LEMMA LinesAre ==
  ASSUME Hci!IInv
  PROVE  Lines
<1>1. uart \in Seq(Hci!AnyByte) /\ ring \in Seq(Hci!AnyByte) /\ rx \in Seq(Hci!AnyByte)
  BY DEF Hci!IInv, Hci!Bytes
<1>2. DOMAIN uart = 1..Len(uart) /\ DOMAIN ring = 1..Len(ring) /\ DOMAIN rx = 1..Len(rx)
  BY <1>1
<1>3. Len(uart) <= 2 /\ Len(ring) <= Room /\ Len(rx) <= Space
  BY DEF Hci!IInv, Hci!TypeOK, Hci!Fifo
<1>4. Clean(rx)
  BY <1>2 DEF Hci!IInv, Hci!FramesArePackets, Clean
<1>5. enabled => Clean(uart) /\ Clean(ring)
  BY <1>2 DEF Hci!IInv, Hci!Bytes, Clean
<1> QED
  BY <1>1, <1>3, <1>4, <1>5 DEF Lines, Line

LEMMA LineStep ==
  ASSUME Hci!StreamAssumption, Hci!IInv, Hci!Next
  PROVE  Lines'
<1>0. Lines
  BY LinesAre
<1>1. Room \in Nat /\ Space \in Nat /\ Packets \in Nat /\ Length \in Nat
  BY DEF Hci!StreamAssumption
<1>2. /\ uart \in Seq(Hci!AnyByte) /\ Len(uart) \in Nat /\ Len(uart) <= 2
      /\ ring \in Seq(Hci!AnyByte) /\ Len(ring) \in Nat /\ Len(ring) <= Room
      /\ rx \in Seq(Hci!AnyByte) /\ Len(rx) \in Nat /\ Len(rx) <= Space /\ Clean(rx)
      /\ enabled => Clean(uart) /\ Clean(ring)
  <2>1. uart \in Seq(Hci!AnyByte) /\ ring \in Seq(Hci!AnyByte) /\ rx \in Seq(Hci!AnyByte)
    BY <1>0 DEF Lines, Line
  <2>2. Len(uart) \in Nat /\ Len(ring) \in Nat /\ Len(rx) \in Nat
    BY <2>1
  <2>3. Len(uart) <= 2 /\ Len(ring) <= Room /\ Len(rx) <= Space
    BY <1>0 DEF Lines, Line
  <2>4. Clean(rx)
    BY <1>0 DEF Lines
  <2>5. enabled => Clean(uart) /\ Clean(ring)
    BY <1>0 DEF Lines
  <2> QED
    BY <2>1, <2>2, <2>3, <2>4, <2>5
<1>3. /\ <<>> \in Seq(Hci!AnyByte) /\ Len(<<>>) = 0 /\ Clean(<<>>)
  BY DEF Clean
<1>4. enabled <=> task \in {"up", "poll", "frame", "off"}
  BY DEF Hci!IInv, Hci!Staged
<1>5. CASE UNCHANGED <<uart, ring>> /\ rx' \in {rx, <<>>} /\ (enabled' => enabled)
  <2>1. rx' \in Seq(Hci!AnyByte) /\ Clean(rx')
    BY <1>2, <1>3, <1>5
  <2>2. Len(rx') <= Space
    BY <1>1, <1>2, <1>3, <1>5
  <2> QED
    BY <1>2, <1>5, <2>1, <2>2 DEF Lines, Line
<1>6. CASE Hci!Configure
  <2>1. /\ rx' = rx
        /\ \/ uart' = <<>> /\ ring' = <<>>
           \/ UNCHANGED <<enabled, uart, ring>>
    BY <1>6 DEF Hci!Configure, Hci!Emptied, Hci!reader
  <2>2. CASE uart' = <<>> /\ ring' = <<>>
    <3>1. Len(uart') <= 2 /\ Len(ring') <= Room
      BY <1>1, <1>3, <2>2
    <3>2. uart' \in Seq(Hci!AnyByte) /\ ring' \in Seq(Hci!AnyByte) /\ Clean(uart')
          /\ Clean(ring')
      BY <1>3, <2>2
    <3> QED
      BY <1>2, <2>1, <3>1, <3>2 DEF Lines, Line
  <2>3. CASE UNCHANGED <<enabled, uart, ring>>
    BY <1>5, <2>1, <2>3
  <2> QED
    BY <2>1, <2>2, <2>3
<1>7. CASE Hci!Handler
  <2>1. UNCHANGED <<rx, enabled>> /\ enabled
    BY <1>7 DEF Hci!Handler, Hci!reader, Hci!device
  <2>2. CASE Len(uart) <= Hci!Room
    <3>1. ring' = ring \o uart /\ uart' = <<>>
      BY <1>7, <2>2 DEF Hci!Handler
    <3> QED
      BY <1>1, <1>2, <1>3, <2>1, <2>2, <3>1, Joined DEF Lines, Line, Hci!Room
  <2>3. CASE ~(Len(uart) <= Hci!Room)
    <3>1. PICK r \in Nat : r = Hci!Room /\ r < Len(uart)
      BY <1>1, <1>2, <2>3 DEF Hci!Room
    <3>2. PICK a \in Nat \ {0} : a = r + 2
      OBVIOUS
    <3>3. PICK z \in Nat : z = Len(uart)
      BY <1>2
    <3>4. ring' = ring \o SubSeq(uart, 1, r) /\ uart' = SubSeq(uart, a, z)
      BY <1>7, <2>3, <3>1, <3>2, <3>3 DEF Hci!Handler
    <3>5. /\ SubSeq(uart, 1, r) \in Seq(Hci!AnyByte) /\ Len(SubSeq(uart, 1, r)) = r
          /\ Clean(SubSeq(uart, 1, r))
      BY <1>2, <2>1, <3>1, Part
    <3>6. uart' \in Seq(Hci!AnyByte) /\ Len(uart') <= 2 /\ Clean(uart')
      BY <1>2, <2>1, <3>1, <3>2, <3>3, <3>4, Part
    <3>7. ring' \in Seq(Hci!AnyByte) /\ Len(ring') = Len(ring) + r /\ Clean(ring')
      BY <1>2, <2>1, <3>4, <3>5, Joined
    <3>8. Len(ring') <= Room
      BY <1>1, <1>2, <3>1, <3>7 DEF Hci!Room
    <3> QED
      BY <1>2, <2>1, <3>6, <3>7, <3>8 DEF Lines, Line
  <2> QED
    BY <2>2, <2>3
<1>8. CASE Hci!Poll
  <2>1. PICK n \in Nat \ {0} : /\ n = Hci!TakeRoom /\ n <= Len(ring)
                               /\ n + Len(rx) <= Space
    BY <1>1, <1>2, <1>8 DEF Hci!Poll, Hci!TakeRoom, Hci!Least
  <2>2. PICK a \in Nat \ {0} : a = n + 1
    OBVIOUS
  <2>3. PICK z \in Nat : z = Len(ring)
    BY <1>2
  <2>4. /\ rx' = rx \o SubSeq(ring, 1, n) /\ ring' = SubSeq(ring, a, z) /\ uart' = uart
        /\ enabled' = enabled /\ enabled
    BY <1>4, <1>8, <2>1, <2>2, <2>3 DEF Hci!Poll
  <2>5. /\ SubSeq(ring, 1, n) \in Seq(Hci!AnyByte) /\ Len(SubSeq(ring, 1, n)) = n
        /\ Clean(SubSeq(ring, 1, n))
    BY <1>2, <2>1, <2>4, Part
  <2>6. ring' \in Seq(Hci!AnyByte) /\ Len(ring') = z - a + 1 /\ Clean(ring')
    BY <1>2, <2>1, <2>2, <2>3, <2>4, Part
  <2>7. rx' \in Seq(Hci!AnyByte) /\ Len(rx') = Len(rx) + n /\ Clean(rx')
    BY <1>2, <2>4, <2>5, Joined
  <2>8. Len(ring') <= Room
    BY <1>1, <1>2, <2>1, <2>2, <2>3, <2>6
  <2>9. Len(rx') <= Space
    BY <1>1, <1>2, <2>1, <2>7
  <2> QED
    BY <1>2, <2>4, <2>6, <2>7, <2>8, <2>9 DEF Lines, Line
<1>9. CASE Hci!Announce
  <2>1. UNCHANGED <<uart, ring, enabled>> /\ (rx' = rx \/ (rx # <<>> /\ rx' = Tail(rx)))
    <3>1. UNCHANGED Hci!line /\ enabled' = enabled
      BY <1>9 DEF Hci!Announce
    <3>2. rx' = rx \/ (rx # <<>> /\ rx' = Tail(rx))
      BY <1>9 DEF Hci!Announce
    <3> QED
      BY <3>1, <3>2 DEF Hci!line
  <2>2. rx # <<>> => Tail(rx) \in Seq(Hci!AnyByte) /\ Len(Tail(rx)) = Len(rx) - 1 /\ Clean(Tail(rx))
    BY <1>2, HeadTailProperties DEF Clean
  <2>3. rx' \in Seq(Hci!AnyByte) /\ Clean(rx') /\ Len(rx') \in {Len(rx), Len(rx) - 1}
    BY <1>2, <2>1, <2>2
  <2>4. Len(rx') <= Space
    BY <1>1, <1>2, <2>3
  <2> QED
    BY <1>2, <2>1, <2>3, <2>4 DEF Lines, Line
<1>10. CASE Hci!Deliver
  <2>1. /\ UNCHANGED <<uart, ring, enabled>> /\ rx' = Hci!Rest
        /\ announced \in Nat /\ announced <= Len(rx)
    BY <1>10 DEF Hci!Deliver, Hci!line, Hci!device, Hci!IInv, Hci!Bytes
  <2>2. PICK a \in Nat \ {0} : a = announced + 1
    BY <2>1
  <2>3. PICK z \in Nat : z = Len(rx)
    BY <1>2
  <2>4. rx' = SubSeq(rx, a, z)
    BY <2>1, <2>2, <2>3 DEF Hci!Rest
  <2>5. rx' \in Seq(Hci!AnyByte) /\ Len(rx') <= Space /\ Clean(rx')
    BY <1>1, <1>2, <2>1, <2>2, <2>3, <2>4, Part
  <2> QED
    BY <1>2, <2>1, <2>5 DEF Lines, Line
<1>11. ASSUME NEW b \in Hci!AnyByte, uart' = Append(uart, b), Len(uart) < 2,
              enabled => b # Hci!Noise, UNCHANGED <<ring, rx, enabled>>
       PROVE  Lines'
  <2>1. uart' \in Seq(Hci!AnyByte) /\ Len(uart') <= 2
    BY <1>2, <1>11, AppendProperties
  <2>2. enabled => Clean(uart')
    BY <1>2, <1>11, AppendProperties DEF Clean
  <2> QED
    BY <1>2, <1>11, <2>1, <2>2 DEF Lines, Line
<1>12. CASE Hci!SendByte
  BY <1>11, <1>12, OutIs DEF Hci!SendByte, Hci!Fifo, Hci!IInv, Hci!device, Hci!reader
<1>13. CASE Hci!Crackle
  <2>1. Hci!Noise \in Hci!AnyByte /\ ~enabled
    BY <1>4, <1>13 DEF Hci!AnyByte, Hci!Crackle
  <2> QED
    BY <1>11, <1>13, <2>1 DEF Hci!Crackle, Hci!Fifo, Hci!device, Hci!reader
<1> QED
  BY <1>5, <1>6, <1>7, <1>8, <1>9, <1>10, <1>12, <1>13
     DEF Hci!Next, Hci!UnitTask, Hci!Open, Hci!Opened, Hci!Close, Hci!Closed,
         Hci!ClaimUart, Hci!Power, Hci!GiveBack, Hci!Release, Hci!Incomplete,
         Hci!TaskStops, Hci!TaskEnds, Hci!Post, Hci!Abort, Hci!line, Hci!reader,
         Hci!device

\* What is shown for zero and for the next number holds of them all.
LEMMA Counted ==
  ASSUME NEW G, 0 \in G, \A n \in Nat : n \in G => n + 1 \in G
  PROVE  Nat \subseteq G
<1> DEFINE T == Nat \ G
<1>1. ASSUME T # {} PROVE FALSE
  <2>1. PICK x \in T : \A y \in T : ~ (<<y, x>> \in OpToRel(<, Nat))
    <3> HIDE DEF T
    <3>1. T \subseteq Nat
      BY DEF T
    <3> QED
      BY <1>1, <3>1, NatLessThanWellFounded, WFMin
  <2>2. \A y \in T : ~(y < x)
    BY <2>1 DEF OpToRel
  <2>3. x # 0 /\ x - 1 \in Nat
    OBVIOUS
  <2>4. x - 1 \in G /\ (x - 1) + 1 = x
    BY <2>2, <2>3
  <2> QED
    BY <2>3, <2>4
<1> QED
  BY <1>1

Place == Nat \X Nat

\* The stream is the same when bytes move on within it.
LEMMA Moved ==
  ASSUME NEW a \in Seq(Place), NEW b \in Seq(Place), NEW c \in Seq(Place)
  PROVE  /\ (a \o b) \o c = a \o (b \o c)
         /\ a \o (b \o c) \o <<>> = a \o b \o c
<1>1. b \o c \in Seq(Place) /\ a \o (b \o c) \in Seq(Place)
  BY ConcatProperties
<1> QED
  BY <1>1, ConcatAssociative, ConcatEmptySeq

\* A stream from which the first part is cut begins with what lay behind it.
Leads(a, w, v) ==
  /\ v \in Seq(Place) /\ Len(v) \in Nat \ {0}
  /\ w \in Seq(Place) /\ Len(w) = Len(a) + Len(v)
  /\ \A i \in 1..Len(w) : w[i] = IF i <= Len(a) THEN a[i] ELSE v[i - Len(a)]

LEMMA Behind ==
  ASSUME NEW a \in Seq(Place), NEW b \in Seq(Place), NEW c \in Seq(Place),
         NEW d \in Seq(Place), NEW o \in Place,
         NEW w, w = Append(a \o b \o c \o d, o), NEW v, v = Append(b \o c \o d, o)
  PROVE  Leads(a, w, v)
<1> DEFINE l == <<o>>
           e == b \o c
           f == e \o d
<1>1. l \in Seq(Place) /\ e \in Seq(Place) /\ a \o b \in Seq(Place)
  BY ConcatProperties
<1> HIDE DEF e
<1>2. f \in Seq(Place) /\ a \o e \in Seq(Place) /\ (a \o e) \o d \in Seq(Place)
  BY <1>1, ConcatProperties
<1>3. (a \o b) \o c = a \o e
  <2>1. (a \o b) \o c = a \o (b \o c)
    BY Moved, Zenon
  <2> QED
    BY <2>1 DEF e
<1>4. (a \o e) \o d = a \o f
  BY <1>1, ConcatAssociative
<1>5. v = Append(f, o) /\ w = Append(a \o f, o)
  <2>1. w = Append((a \o e) \o d, o)
    BY <1>3
  <2> QED
    BY <1>4, <2>1 DEF e
<1> HIDE DEF f
<1>6. v = f \o l /\ v \in Seq(Place) /\ Len(v) = Len(f) + 1
  BY <1>2, <1>5, AppendIsConcat, AppendProperties
<1>7. w = (a \o f) \o l
  <2>1. a \o f \in Seq(Place)
    BY <1>2, ConcatProperties
  <2> QED
    BY <1>5, <2>1, AppendIsConcat
<1>8. w = a \o v
  <2>1. (a \o f) \o l = a \o (f \o l)
    <3>1. \A x \in Seq(Place) : (a \o f) \o x = a \o (f \o x)
      BY <1>2, ConcatAssociative
    <3> QED
      BY <1>1, <3>1
  <2> QED
    BY <1>6, <1>7, <2>1
<1>9. Len(v) \in Nat \ {0} /\ Len(a) \in Nat
  BY <1>2, <1>6
<1>10. /\ w \in Seq(Place) /\ Len(w) = Len(a) + Len(v)
       /\ \A i \in 1..Len(a) + Len(v) : w[i] = IF i <= Len(a) THEN a[i] ELSE v[i - Len(a)]
  BY <1>6, <1>8, ConcatProperties
<1> QED
  BY <1>6, <1>9, <1>10 DEF Leads

\* A stream that begins a packet begins with all of it.
Chain(w, n) == /\ w[1] = <<n, 1>>
               /\ \A i \in 1..Len(w) - 1 : w[i + 1] = Hci!After(w[i])

LEMMA Run ==
  ASSUME Hci!StreamAssumption, NEW w \in Seq(Place), NEW n \in Nat, Chain(w, n)
  PROVE  \A i \in 1..Length : i <= Len(w) => w[i] = <<n, i>>
<1> DEFINE G == {i \in Nat : i \in 1..Length /\ i <= Len(w) => w[i] = <<n, i>>}
<1>1. Length \in Nat /\ Len(w) \in Nat
  BY DEF Hci!StreamAssumption
<1>2. 0 \in G
  OBVIOUS
<1>3. ASSUME NEW i \in Nat, i \in G PROVE i + 1 \in G
  <2>1. PICK j \in Nat : j = i + 1
    OBVIOUS
  <2>2. ASSUME j \in 1..Length, j <= Len(w) PROVE w[j] = <<n, j>>
    <3>1. CASE i = 0
      BY <2>1, <3>1 DEF Chain
    <3>2. CASE i # 0
      <4>1. w[i] = <<n, i>> /\ i < Length
        BY <1>1, <1>3, <2>1, <2>2, <3>2
      <4>2. w[j] = Hci!After(w[i])
        BY <1>1, <2>1, <2>2, <3>2 DEF Chain
      <4>3. w[i][1] = n /\ w[i][2] = i
        BY <4>1
      <4> QED
        BY <2>1, <4>1, <4>2, <4>3 DEF Hci!After, Hci!Byte
    <3> QED
      BY <3>1, <3>2
  <2> QED
    BY <2>1, <2>2
<1> HIDE DEF G
<1>4. Nat \subseteq G
  BY <1>2, <1>3, Counted
<1> QED
  BY <1>1, <1>4 DEF G

\* What lies on the way, as numbers.
LEMMA OnTheWay ==
  ASSUME Hci!StreamAssumption, Hci!IInv
  PROVE  /\ rx \in Seq(Place) /\ ring \in Seq(Place) /\ uart \in Seq(Place)
         /\ out \in Place /\ framed \in Seq(0..Packets) /\ Len(framed) \in Nat
         /\ DOMAIN framed = 1..Len(framed)
         /\ Packets \in Nat /\ Length \in Nat /\ Length >= 2 /\ announced \in Nat
         /\ lost \in BOOLEAN /\ opens \in Nat
<1>1. Packets \in Nat /\ Length \in Nat
  BY DEF Hci!StreamAssumption
<1>2. Hci!AnyByte \subseteq Place
  BY <1>1 DEF Hci!AnyByte, Hci!Byte, Hci!Noise, Place
<1>3. uart \in Seq(Hci!AnyByte) /\ ring \in Seq(Hci!AnyByte) /\ rx \in Seq(Hci!AnyByte)
  BY DEF Hci!IInv, Hci!Bytes
<1>4. rx \in Seq(Place) /\ ring \in Seq(Place) /\ uart \in Seq(Place)
  BY <1>2, <1>3, SeqMonotonic
<1>5. framed \in Seq(0..Packets) /\ announced \in Nat /\ lost \in BOOLEAN /\ opens \in Nat
  BY DEF Hci!IInv, Hci!Bytes
<1>6. Len(framed) \in Nat /\ DOMAIN framed = 1..Len(framed)
  BY <1>5
<1>7. out \in Place
  BY OutIs DEF Hci!IInv, Place
<1>8. Length >= 2
  BY DEF Hci!StreamAssumption
<1> QED
  BY <1>1, <1>4, <1>5, <1>6, <1>7, <1>8

\* A sequence cut in two is the two.
LEMMA Cut ==
  ASSUME NEW S, NEW s \in Seq(S), NEW n \in 0..Len(s), NEW a, a = n + 1, NEW z, z = Len(s)
  PROVE  SubSeq(s, 1, n) \o SubSeq(s, a, z) = s
<1> DEFINE b == SubSeq(s, 1, n)
           c == SubSeq(s, a, z)
           d == b \o c
<1>1. n \in Nat /\ a \in Nat \ {0} /\ z \in Nat /\ Len(s) \in Nat
  OBVIOUS
<1>2. b \in Seq(S) /\ Len(b) = n /\ \A i \in 1..n : b[i] = s[i]
  BY <1>1, Slice
<1>3. c \in Seq(S) /\ Len(c) = z - n /\ \A i \in 1..z - n : c[i] = s[n + i]
  <2>1. a <= z + 1 /\ z <= Len(s)
    BY <1>1
  <2>2. c \in Seq(S) /\ Len(c) = z - a + 1 /\ \A i \in 1..Len(c) : c[i] = s[a + i - 1]
    BY <1>1, <2>1, Slice
  <2> HIDE DEF c
  <2> QED
    BY <1>1, <2>2
<1> HIDE DEF b, c
<1>4. /\ d \in Seq(S) /\ Len(d) = Len(b) + Len(c)
      /\ \A i \in 1..Len(b) + Len(c) : d[i] = IF i <= Len(b) THEN b[i] ELSE c[i - Len(b)]
  BY <1>2, <1>3, ConcatProperties
<1> HIDE DEF d
<1>5. Len(d) = Len(s)
  BY <1>1, <1>2, <1>3, <1>4
<1>6. ASSUME NEW i \in 1..Len(d) PROVE d[i] = s[i]
  <2>1. CASE i <= n
    BY <1>1, <1>2, <1>3, <1>4, <2>1
  <2>2. CASE i > n
    <3>1. i - n \in 1..z - n /\ n + (i - n) = i
      BY <1>1, <1>5, <2>2
    <3> QED
      BY <1>1, <1>2, <1>3, <1>4, <2>2, <3>1
  <2> QED
    BY <1>1, <2>1, <2>2
<1>7. d = s
  BY <1>4, <1>5, <1>6, SeqEqual
<1> QED
  BY <1>7 DEF b, c, d

\* The stages before the first byte.
Before == opens = 0 \/ task \in {"claim", "power", "configure"}

LEMMA FirstKept ==
  ASSUME Hci!IInv, UNCHANGED <<uart, ring, rx, announced, out, framed, lost, opens>>,
         enabled' => enabled, Before' => Before
  PROVE  Hci!FirstSession'
BY DEF Hci!IInv, Hci!FirstSession, Hci!Unbroken, Hci!Stream, Before

\* The bytes move along, and one more may follow them.
LEMMA FirstMoves ==
  ASSUME Hci!StreamAssumption, Hci!IInv, Hci!Poll \/ Hci!Handler \/ Hci!SendByte
  PROVE  Hci!FirstSession'
<1>1. /\ task \in {"up", "poll", "frame", "off"} /\ enabled /\ opens # 0
      /\ UNCHANGED <<announced, framed, opens>> /\ (lost' \/ lost' = lost)
      /\ task' \in {"up", "poll", "frame", "off"}
  <2>1. enabled <=> task \in {"up", "poll", "frame", "off"}
    BY DEF Hci!IInv, Hci!Staged
  <2>2. enabled => opens # 0
    BY <2>1 DEF Hci!IInv, Hci!Staged
  <2> QED
    BY <2>1, <2>2 DEF Hci!Poll, Hci!Handler, Hci!SendByte, Hci!Listening, Hci!reader,
                      Hci!device
<1> SUFFICES ASSUME ~lost', opens' <= 1, Hci!Unbroken
             PROVE  Hci!Unbroken'
  BY <1>1 DEF Hci!IInv, Hci!FirstSession
<1>2. /\ rx \in Seq(Place) /\ ring \in Seq(Place) /\ uart \in Seq(Place) /\ out \in Place
      /\ Len(uart) \in Nat /\ Len(ring) \in Nat /\ Len(rx) \in Nat
      /\ framed \in Seq(0..Packets) /\ Len(framed) \in Nat
  BY OnTheWay
<1>3. ASSUME rx' \o ring' \o uart' = rx \o ring \o uart, out' = out PROVE Hci!Unbroken'
  <2>1. Hci!Stream' = Hci!Stream
    BY <1>3 DEF Hci!Stream
  <2> QED
    BY <1>1, <2>1 DEF Hci!Unbroken
<1>4. CASE Hci!Handler
  <2>1. ring' = ring \o uart /\ uart' = <<>> /\ rx' = rx /\ out' = out
    BY <1>4 DEF Hci!Handler, Hci!reader
  <2>2. rx' \o ring' \o uart' = rx \o ring \o uart
    BY <1>2, <2>1, Moved
  <2> QED
    BY <1>3, <2>1, <2>2
<1>5. CASE Hci!Poll
  <2>1. PICK n \in Nat : n = Hci!TakeRoom /\ n <= Len(ring)
    <3>1. Len(rx) <= Space /\ Space \in Nat
      BY DEF Hci!IInv, Hci!TypeOK, Hci!StreamAssumption
    <3> QED
      BY <1>2, <3>1 DEF Hci!TakeRoom, Hci!Least
  <2>2. PICK a \in Nat \ {0} : a = n + 1
    OBVIOUS
  <2>3. PICK z \in Nat : z = Len(ring)
    BY <1>2
  <2> DEFINE b == SubSeq(ring, 1, n)
             c == SubSeq(ring, a, z)
  <2>4. rx' = rx \o b /\ ring' = c /\ uart' = uart /\ out' = out
    BY <1>5, <2>1, <2>2, <2>3 DEF Hci!Poll
  <2>5. b \in Seq(Place) /\ c \in Seq(Place)
    BY <1>2, <2>1, <2>2, <2>3, Slice
  <2>6. b \o c = ring
    <3>1. n \in 0..Len(ring)
      BY <1>2, <2>1
    <3> QED
      BY <1>2, <2>2, <2>3, <3>1, Cut
  <2> HIDE DEF b, c
  <2>7. (rx \o b) \o c = rx \o ring
    BY <1>2, <2>5, <2>6, Moved
  <2> QED
    BY <1>3, <2>4, <2>7
<1>6. CASE Hci!SendByte
  <2>1. uart' = Append(uart, out) /\ out' = Hci!After(out) /\ UNCHANGED <<rx, ring>>
    BY <1>6 DEF Hci!SendByte, Hci!reader
  <2>2. out' \in Place
    <3>1. /\ out[1] \in Nat /\ out[2] \in Nat
      BY <1>2 DEF Place
    <3>2. out' \in {<<out[1], out[2] + 1>>, <<out[1] + 1, 1>>}
      BY <2>1 DEF Hci!After, Hci!Byte
    <3> QED
      BY <3>1, <3>2 DEF Place
  <2>3. rx \o ring \in Seq(Place) /\ (rx \o ring) \o uart \in Seq(Place)
    BY <1>2, ConcatProperties
  <2>4. Hci!Stream' = Append(Hci!Stream, out')
    <3>1. <<out>> \in Seq(Place)
      BY <1>2
    <3>2. uart' = uart \o <<out>>
      BY <1>2, <2>1, AppendIsConcat
    <3>3. Append((rx \o ring) \o uart, out) = ((rx \o ring) \o uart) \o <<out>>
      BY <1>2, <2>3, AppendIsConcat
    <3>4. (rx \o ring) \o uart' = ((rx \o ring) \o uart) \o <<out>>
      BY <1>2, <2>3, <3>1, <3>2, ConcatAssociative
    <3> QED
      BY <2>1, <3>3, <3>4 DEF Hci!Stream
  <2>5. PICK w \in Seq(Place) : /\ w = Hci!Stream /\ Len(w) \in Nat \ {0} /\ w[Len(w)] = out
    <3> DEFINE e == (rx \o ring) \o uart
               x == Append(e, out)
    <3>1. e \in Seq(Place)
      BY <2>3
    <3>2. x = Hci!Stream
      BY DEF Hci!Stream
    <3> HIDE DEF e
    <3>3. Len(e) \in Nat
      BY <3>1
    <3>4. x \in Seq(Place) /\ Len(x) = Len(e) + 1 /\ x[Len(e) + 1] = out
      BY <1>2, <3>1, AppendProperties
    <3> HIDE DEF x
    <3> QED
      BY <3>2, <3>3, <3>4
  <2>6. PICK v \in Seq(Place) : /\ v = Hci!Stream' /\ Len(v) = Len(w) + 1
                                /\ \A i \in 1..Len(w) : v[i] = w[i]
                                /\ v[Len(w) + 1] = out'
    BY <2>2, <2>4, <2>5, AppendProperties
  <2>7. \A i \in 1..Len(w) - 1 : w[i + 1] = Hci!After(w[i])
    BY <2>5 DEF Hci!Unbroken
  <2>8. ASSUME NEW i \in 1..Len(v) - 1 PROVE v[i + 1] = Hci!After(v[i])
    <3>1. CASE i = Len(w)
      BY <2>1, <2>5, <2>6, <3>1
    <3>2. CASE i # Len(w)
      <4>1. i \in 1..Len(w) /\ i + 1 \in 1..Len(w) /\ i \in 1..Len(w) - 1
        BY <2>5, <2>6, <3>2
      <4> QED
        BY <2>6, <2>7, <4>1
    <3> QED
      BY <3>1, <3>2
  <2>9. v[1] = w[1]
    BY <2>5, <2>6
  <2> QED
    BY <1>1, <2>5, <2>6, <2>8, <2>9 DEF Hci!Unbroken
<1> QED
  BY <1>4, <1>5, <1>6

\* The framer looks at the first byte, which begins a packet, and cuts the packet out.
LEMMA Halves ==
  ASSUME NEW s \in Seq(Place), NEW n \in 0..Len(s)
  PROVE  \A a, z : a = n + 1 /\ z = Len(s) => SubSeq(s, 1, n) \o SubSeq(s, a, z) = s
BY Cut

LEMMA FirstFramed ==
  ASSUME Hci!StreamAssumption, Hci!IInv, Hci!Announce \/ Hci!Deliver
  PROVE  Hci!FirstSession'
<1>1. /\ task = "frame" /\ enabled /\ opens # 0 /\ task' \in {"poll", "frame"}
      /\ UNCHANGED <<uart, ring, out, lost, opens>>
  <2>1. enabled <=> task \in {"up", "poll", "frame", "off"}
    BY DEF Hci!IInv, Hci!Staged
  <2>2. enabled => opens # 0
    BY <2>1 DEF Hci!IInv, Hci!Staged
  <2> QED
    BY <2>1, <2>2 DEF Hci!Announce, Hci!Deliver, Hci!line, Hci!device
<1> SUFFICES ASSUME ~lost, opens <= 1, Hci!Unbroken,
                    \A i \in DOMAIN framed : framed[i] = i
             PROVE  Hci!Unbroken' /\ \A i \in DOMAIN framed' : framed'[i] = i
  BY <1>1 DEF Hci!IInv, Hci!FirstSession
<1>2. /\ rx \in Seq(Place) /\ ring \in Seq(Place) /\ uart \in Seq(Place) /\ out \in Place
      /\ framed \in Seq(0..Packets) /\ Len(framed) \in Nat
      /\ DOMAIN framed = 1..Len(framed)
      /\ Packets \in Nat /\ Length \in Nat /\ Length >= 2 /\ announced \in Nat
  BY OnTheWay
<1>3. PICK z \in Nat : z = Len(rx)
  BY <1>2
<1>4. PICK n \in Nat \ {0} : n = Len(framed) + 1
  BY <1>2
<1>5. PICK w : w = Hci!Stream
  OBVIOUS
<1>6. Chain(w, n) /\ announced \in {0, Length}
  BY <1>4, <1>5 DEF Chain, Hci!Unbroken, Hci!Byte
<1>7. \A i \in 1..Length : i <= z => w \in Seq(Place) /\ rx[i] = <<n, i>>
  <2>1. <<>> \in Seq(Place)
    OBVIOUS
  <2>2. w = Append(rx \o ring \o uart \o <<>>, out)
    <3>1. (rx \o ring) \o uart \in Seq(Place)
      BY <1>2, ConcatProperties
    <3> QED
      BY <1>5, <3>1, ConcatEmptySeq DEF Hci!Stream
  <2>3. PICK v : v = Append(ring \o uart \o <<>>, out)
    OBVIOUS
  <2>4. /\ Len(v) \in Nat /\ w \in Seq(Place) /\ Len(w) = z + Len(v)
        /\ \A i \in 1..Len(w) : w[i] = IF i <= z THEN rx[i] ELSE v[i - z]
    <3>1. Leads(rx, w, v)
      BY <1>2, <2>1, <2>2, <2>3, Behind
    <3> QED
      BY <1>3, <3>1 DEF Leads
  <2>5. \A i \in 1..Length : i <= Len(w) => w[i] = <<n, i>>
    BY <1>6, <2>4, Run
  <2>6. ASSUME NEW i \in 1..Length, i <= z PROVE rx[i] = <<n, i>>
    <3>1. i \in 1..Len(w) /\ i <= Len(w)
      BY <1>2, <2>4, <2>6
    <3> QED
      BY <2>4, <2>5, <2>6, <3>1
  <2> QED
    BY <2>4, <2>6
<1>8. CASE Hci!Announce
  <2>1. rx # <<>> => Hci!Heads(rx[1])
    <3>1. rx # <<>> => 1 \in 1..Length /\ 1 <= z
      BY <1>2, <1>3
    <3>2. rx # <<>> => rx[1] = <<n, 1>>
      BY <1>7, <3>1
    <3> QED
      BY <1>4, <3>2 DEF Hci!Heads
  <2>2. UNCHANGED <<rx, framed>> /\ announced' \in {0, Length}
    BY <1>6, <1>8, <2>1 DEF Hci!Announce
  <2>3. Hci!Stream' = Hci!Stream
    BY <1>1, <2>2 DEF Hci!Stream
  <2> QED
    BY <2>2, <2>3 DEF Hci!Unbroken
<1>9. CASE Hci!Deliver
  <2>1. announced = Length /\ Length <= z
    BY <1>2, <1>3, <1>6, <1>9 DEF Hci!Deliver
  <2>2. PICK a \in Nat \ {0} : a = Length + 1
    BY <1>2
  <2> DEFINE b == SubSeq(rx, a, z)
             c == SubSeq(rx, 1, Length)
  <2>3. /\ rx' = b /\ announced' = 0 /\ framed' = Append(framed, Hci!Sent(c))
    BY <1>3, <1>9, <2>1, <2>2 DEF Hci!Deliver, Hci!Rest
  <2>4. c \in Seq(Place) /\ Len(c) = Length /\ \A i \in 1..Length : c[i] = rx[i]
    <3>1. 1 <= Length + 1 /\ Length <= Len(rx) /\ 1 \in Nat \ {0}
      BY <1>2, <1>3, <2>1
    <3>2. /\ c \in Seq(Place) /\ Len(c) = Length - 1 + 1
          /\ \A i \in 1..Len(c) : c[i] = rx[1 + i - 1]
      BY <1>2, <3>1, Slice
    <3> HIDE DEF c
    <3> QED
      BY <1>2, <3>2
  <2>5. b \in Seq(Place) /\ c \o b = rx
    <3>1. Length \in 0..Len(rx) /\ a <= z + 1 /\ z <= Len(rx)
      BY <1>2, <1>3, <2>1, <2>2
    <3>2. b \in Seq(Place)
      BY <1>2, <2>2, <3>1, Slice
    <3>3. c \o b = rx
      <4>1. rx \in Seq(Place) /\ Length \in 0..Len(rx)
        BY <1>2, <3>1
      <4>2. \A x, y : x = Length + 1 /\ y = Len(rx) =>
                        SubSeq(rx, 1, Length) \o SubSeq(rx, x, y) = rx
        <5> HIDE DEF b, c
        <5> QED
          BY <4>1, Halves
      <4> QED
        BY <1>3, <2>2, <4>2
    <3> QED
      BY <3>2, <3>3
  <2>6. c = [i \in 1..Length |-> Hci!Byte(n, i)]
    <3> HIDE DEF c
    <3>1. c = [i \in 1..Length |-> c[i]]
      BY <2>4
    <3>2. ASSUME NEW i \in 1..Length PROVE c[i] = Hci!Byte(n, i)
      <4>1. i <= z
        BY <1>2, <2>1
      <4> QED
        BY <1>7, <2>4, <4>1 DEF Hci!Byte
    <3> QED
      BY <3>1, <3>2
  <2>7. n \in 1..Packets /\ w \in Seq(Place)
    <3>0. 1 \in 1..Length /\ 1 <= z /\ 1 \in 1..Len(rx)
      BY <1>2, <1>3, <2>1
    <3>1. w \in Seq(Place) /\ rx[1] = <<n, 1>> /\ rx[1] \in Hci!AnyByte
      <4>1. rx \in Seq(Hci!AnyByte)
        BY DEF Hci!IInv, Hci!Bytes
      <4> QED
        BY <1>7, <3>0, <4>1, ElementOfSeq
    <3>2. rx[1][1] = n
      BY <3>1
    <3>3. rx[1] # Hci!Noise
      BY <1>4, <3>2 DEF Hci!Noise
    <3>4. PICK p \in 1..Packets, k \in 1..Length : rx[1] = <<p, k>>
      BY <3>1, <3>3 DEF Hci!AnyByte, Hci!Byte
    <3>5. rx[1][1] = p
      BY <3>4
    <3> QED
      BY <3>1, <3>2, <3>5
  <2>8. Hci!Sent(c) = n
    <3>1. 1 \in 1..Length
      BY <1>2
    <3>2. c[1] = <<n, 1>>
      <4> HIDE DEF c
      <4> QED
        BY <2>6, <3>1 DEF Hci!Byte
    <3>3. c[1][1] = n
      <4> HIDE DEF c
      <4> QED
        BY <3>2
    <3> HIDE DEF c
    <3> QED
      BY <2>6, <2>7, <3>3 DEF Hci!Sent
  <2> HIDE DEF b, c
  <2>9. Len(framed') = n /\ DOMAIN framed' = 1..n /\ \A i \in DOMAIN framed' : framed'[i] = i
    <3>1. /\ framed' \in Seq(0..Packets) /\ Len(framed') = Len(framed) + 1
          /\ \A i \in 1..Len(framed) : framed'[i] = framed[i]
          /\ framed'[Len(framed) + 1] = n
      <4>1. n \in 0..Packets
        BY <2>7
      <4> QED
        BY <1>2, <2>3, <2>8, <4>1, AppendProperties
    <3>2. Len(framed') = n
      BY <1>4, <3>1
    <3>3. DOMAIN framed' = 1..n
      BY <3>1, <3>2
    <3>4. ASSUME NEW i \in 1..n PROVE framed'[i] = i
      <4>1. CASE i = n
        BY <1>4, <3>1, <4>1
      <4>2. CASE i # n
        <5>1. i \in 1..Len(framed)
          BY <1>2, <1>4, <4>2
        <5> QED
          BY <1>2, <3>1, <5>1
      <4> QED
        BY <4>1, <4>2
    <3> QED
      BY <3>2, <3>3, <3>4
  <2>10. PICK v : v = Hci!Stream'
    OBVIOUS
  <2>11. /\ Len(v) \in Nat \ {0} /\ Len(w) = Length + Len(v)
         /\ \A i \in 1..Len(w) : w[i] = IF i <= Length THEN c[i] ELSE v[i - Length]
    <3>1. v = Append(b \o ring \o uart, out)
      BY <1>1, <2>3, <2>10 DEF Hci!Stream
    <3>2. w = Append(c \o b \o ring \o uart, out)
      BY <1>5, <2>5 DEF Hci!Stream
    <3>3. Leads(c, w, v)
      <4>1. /\ b \in Seq(Place) /\ c \in Seq(Place) /\ ring \in Seq(Place)
            /\ uart \in Seq(Place) /\ out \in Place
        BY <1>2, <2>4, <2>5
      <4> QED
        BY <3>1, <3>2, <4>1, Behind
    <3> QED
      BY <2>4, <3>3 DEF Leads
  <2>12. ASSUME NEW i \in 1..Len(v), NEW j, j = Length + i PROVE j \in 1..Len(w) /\ v[i] = w[j]
    <3>1. j \in 1..Len(w) /\ ~(j <= Length) /\ j - Length = i
      BY <1>2, <2>11, <2>12
    <3> QED
      BY <2>11, <3>1
  <2>13. ASSUME NEW i \in 1..Len(v) - 1 PROVE v[i + 1] = Hci!After(v[i])
    <3>0. Length + i \in 1..Len(w) - 1
      BY <1>2, <2>11
    <3>1. PICK j \in 1..Len(w) - 1 : j = Length + i
      BY <3>0
    <3>2. PICK k \in 1..Len(w) : k = j + 1
      BY <1>2, <2>11, <3>1
    <3>3. PICK m \in 1..Len(v) : m = i + 1
      BY <2>11
    <3>4. v[i] = w[j]
      BY <2>11, <2>12, <3>1
    <3>5. v[m] = w[k]
      <4>1. k = Length + m
        BY <1>2, <2>11, <3>1, <3>2, <3>3
      <4> QED
        BY <2>12, <4>1
    <3>6. w[k] = Hci!After(w[j])
      BY <1>6, <3>1, <3>2 DEF Chain
    <3> QED
      BY <3>3, <3>4, <3>5, <3>6
  <2>14. v[1] = Hci!Byte(n + 1, 1)
    <3>1. 1 \in 1..Len(v) /\ Length \in 1..Len(w) - 1 /\ Length \in 1..Length /\ Length <= Len(w)
      BY <1>2, <2>11
    <3>2. v[1] = w[a]
      BY <2>2, <2>12, <3>1
    <3>3. w[a] = Hci!After(w[Length])
      BY <1>6, <2>2, <3>1 DEF Chain
    <3>4. w[Length] = <<n, Length>>
      BY <1>4, <1>6, <2>7, <3>1, Run
    <3>5. w[Length][1] = n /\ w[Length][2] = Length
      BY <3>4
    <3> QED
      BY <1>2, <3>2, <3>3, <3>5 DEF Hci!After
  <2>15. Hci!Unbroken'
    <3>1. v[1] = Hci!Byte(Len(framed') + 1, 1)
      BY <2>9, <2>14
    <3> QED
      BY <2>3, <2>10, <2>13, <3>1 DEF Hci!Unbroken
  <2> QED
    BY <2>9, <2>15
<1> QED
  BY <1>8, <1>9

\* A session begins: nothing of it is there before the receiver is on.
LEMMA FirstBegins ==
  ASSUME Hci!StreamAssumption, Hci!IInv, Hci!Open \/ Hci!Configure \/ Hci!Crackle
  PROVE  Hci!FirstSession'
<1>1. enabled <=> task \in {"up", "poll", "frame", "off"}
  BY DEF Hci!IInv, Hci!Staged
<1>2. CASE Hci!Open
  <2>1. /\ task = "none" /\ enabled' = enabled /\ opens' = opens + 1 /\ opens \in Nat
        /\ rx' = <<>> /\ announced' = 0 /\ UNCHANGED <<out, lost, framed>>
    BY <1>2 DEF Hci!Open, Hci!line, Hci!IInv, Hci!Staged, Hci!Bytes
  <2>2. ~enabled'
    BY <1>1, <2>1
  <2>3. opens' <= 1 => opens = 0
    BY <2>1
  <2> QED
    BY <2>1, <2>2, <2>3 DEF Hci!IInv, Hci!FirstSession
<1>3. CASE Hci!Configure
  <2>1. /\ task = "configure" /\ UNCHANGED <<opens, out, lost, rx, announced, framed>>
    BY <1>3 DEF Hci!Configure, Hci!reader
  <2>2. CASE UNCHANGED <<enabled, uart, ring>>
    BY <2>1, <2>2, FirstKept DEF Before
  <2>3. CASE task' = "up" /\ uart' = <<>> /\ ring' = <<>>
    <3> SUFFICES ASSUME ~lost, opens <= 1, framed = <<>>, rx = <<>>, announced = 0,
                        out = Hci!Byte(1, 1), opens # 0
                 PROVE  Hci!Unbroken'
      <4>1. opens # 0
        BY <2>1 DEF Hci!IInv, Hci!Staged
      <4> QED
        BY <2>1, <2>3, <4>1 DEF Hci!IInv, Hci!FirstSession
    <3>1. <<>> \in Seq(Place) /\ Len(<<>>) = 0
      OBVIOUS
    <3>2. <<>> \o <<>> \o <<>> = <<>>
      BY <3>1, ConcatEmptySeq
    <3>3. Hci!Stream' = Append(<<>>, Hci!Byte(1, 1))
      BY <2>1, <2>3, <3>2 DEF Hci!Stream
    <3>4. Hci!Stream' = <<Hci!Byte(1, 1)>>
      BY <3>3
    <3>5. Len(Hci!Stream') = 1 /\ Hci!Stream'[1] = Hci!Byte(1, 1)
      BY <3>4
    <3>6. Len(framed') = 0 /\ announced' = 0
      BY <2>1, <3>1
    <3>7. 1..1 - 1 = {} /\ 0 + 1 = 1
      OBVIOUS
    <3> QED
      BY <3>5, <3>6, <3>7 DEF Hci!Unbroken
  <2> QED
    BY <1>3, <2>2, <2>3 DEF Hci!Configure, Hci!Emptied
<1>4. CASE Hci!Crackle
  <2>1. /\ task \in {"power", "configure"} /\ UNCHANGED <<task, enabled, opens, out, lost>>
        /\ UNCHANGED <<rx, announced, framed>>
    BY <1>4 DEF Hci!Crackle, Hci!device, Hci!reader
  <2>2. ~enabled'
    BY <1>1, <2>1
  <2> QED
    BY <2>1, <2>2 DEF Hci!IInv, Hci!FirstSession
<1> QED
  BY <1>2, <1>3, <1>4

LEMMA FirstStep ==
  ASSUME Hci!StreamAssumption, Hci!IInv, Hci!Next
  PROVE  Hci!FirstSession'
<1>1. CASE Hci!Opened \/ Hci!Close \/ Hci!Closed
  BY <1>1, FirstKept
     DEF Hci!Opened, Hci!Close, Hci!Closed, Hci!line, Hci!reader, Before
<1>2. CASE Hci!ClaimUart \/ Hci!Power \/ Hci!GiveBack
  BY <1>2, FirstKept
     DEF Hci!ClaimUart, Hci!Power, Hci!GiveBack, Hci!Release, Hci!line, Hci!reader, Before
<1>3. CASE Hci!Incomplete \/ Hci!TaskStops \/ Hci!TaskEnds
  BY <1>3, FirstKept
     DEF Hci!Incomplete, Hci!TaskStops, Hci!TaskEnds, Hci!Release, Hci!line, Hci!reader,
         Before
<1>4. ASSUME NEW r \in 1..Reads, Hci!Post(r) \/ Hci!Abort(r) PROVE Hci!FirstSession'
  BY <1>4, FirstKept DEF Hci!Post, Hci!Abort, Hci!line, Hci!reader, Hci!device, Before
<1> QED
  BY <1>1, <1>2, <1>3, <1>4, FirstMoves, FirstFramed, FirstBegins
     DEF Hci!Next, Hci!UnitTask

\* The controller's next byte, and what the framer has written down.
Told == /\ \E p \in 1..Packets + 1, k \in 1..Length : out = Hci!Byte(p, k)
        /\ framed \in Seq(0..Packets) /\ announced \in Nat /\ lost \in BOOLEAN

LEMMA CutIsCounted ==
  ASSUME Hci!StreamAssumption, NEW s
  PROVE  Hci!Sent(s) \in 0..Packets
<1>1. Packets \in Nat /\ Length \in Nat /\ 1 \in 1..Length
  BY DEF Hci!StreamAssumption
<1>2. ASSUME NEW p \in 1..Packets, s = [k \in 1..Length |-> Hci!Byte(p, k)]
      PROVE  s[1][1] \in 0..Packets
  <2>1. s[1] = <<p, 1>>
    BY <1>1, <1>2 DEF Hci!Byte
  <2>2. s[1][1] = p
    BY <2>1
  <2> QED
    BY <1>1, <2>2
<1>3. 0 \in 0..Packets
  BY <1>1
<1> QED
  BY <1>2, <1>3 DEF Hci!Sent

LEMMA ToldStep ==
  ASSUME Hci!StreamAssumption, Hci!IInv, Hci!Next
  PROVE  Told'
<1>1. Told /\ Packets \in Nat /\ Length \in Nat /\ Length >= 2
  BY DEF Hci!StreamAssumption, Hci!IInv, Hci!Bytes, Told
<1>2. ASSUME UNCHANGED <<out, framed, lost>>, announced' \in Nat PROVE Told'
  BY <1>1, <1>2 DEF Told
<1>3. CASE Hci!Deliver
  <2>1. /\ framed' = Append(framed, Hci!Sent(SubSeq(rx, 1, announced)))
        /\ announced' = 0 /\ UNCHANGED <<out, lost>>
    BY <1>3 DEF Hci!Deliver, Hci!line
  <2>2. framed' \in Seq(0..Packets)
    BY <1>1, <2>1, CutIsCounted, AppendProperties DEF Told
  <2> QED
    BY <1>1, <2>1, <2>2 DEF Told
<1>4. CASE Hci!Announce
  <2>1. UNCHANGED <<out, framed, lost>> /\ announced' \in {announced, Length} \cup Claims
    BY <1>4 DEF Hci!Announce, Hci!line
  <2>2. announced' \in Nat
    BY <1>1, <2>1 DEF Told, Hci!StreamAssumption
  <2> QED
    BY <1>2, <2>1, <2>2
<1>5. CASE Hci!Handler
  <2>1. UNCHANGED <<out, framed, announced>> /\ (lost' = TRUE \/ UNCHANGED lost)
    BY <1>5 DEF Hci!Handler, Hci!reader
  <2> QED
    BY <1>1, <2>1 DEF Told
<1>6. CASE Hci!SendByte
  <2>1. out' = Hci!After(out) /\ out[1] <= Packets /\ UNCHANGED <<framed, announced, lost>>
    BY <1>6 DEF Hci!SendByte, Hci!reader
  <2>2. out[1] \in 1..Packets + 1 /\ out[2] \in 1..Length
    BY OutIs DEF Hci!IInv
  <2>3. \E p \in 1..Packets + 1, k \in 1..Length : out' = Hci!Byte(p, k)
    <3>1. CASE out[2] < Length
      <4>1. out[2] + 1 \in 1..Length
        BY <1>1, <2>2, <3>1
      <4> QED
        BY <2>1, <2>2, <3>1, <4>1 DEF Hci!After
    <3>2. CASE ~(out[2] < Length)
      <4>1. out[1] + 1 \in 1..Packets + 1 /\ 1 \in 1..Length
        BY <1>1, <2>1, <2>2
      <4> QED
        BY <2>1, <3>2, <4>1 DEF Hci!After
    <3> QED
      BY <3>1, <3>2
  <2> QED
    BY <1>1, <2>1, <2>3 DEF Told
<1>7. ASSUME UNCHANGED <<out, framed, lost>>, announced' \in {0, announced} PROVE Told'
  BY <1>1, <1>2, <1>7 DEF Told
<1>8. CASE Hci!Open \/ Hci!Opened \/ Hci!Close \/ Hci!Closed
  BY <1>7, <1>8 DEF Hci!Open, Hci!Opened, Hci!Close, Hci!Closed, Hci!line, Hci!reader
<1>9. CASE Hci!ClaimUart \/ Hci!Power \/ Hci!Configure \/ Hci!GiveBack \/ Hci!Crackle
  BY <1>7, <1>9
     DEF Hci!ClaimUart, Hci!Power, Hci!Configure, Hci!GiveBack, Hci!Crackle, Hci!line,
         Hci!reader
<1>10. CASE Hci!Poll \/ Hci!Incomplete \/ Hci!TaskStops \/ Hci!TaskEnds
  BY <1>7, <1>10
     DEF Hci!Poll, Hci!Incomplete, Hci!TaskStops, Hci!TaskEnds, Hci!line, Hci!reader
<1>11. ASSUME NEW r \in 1..Reads, Hci!Post(r) \/ Hci!Abort(r) PROVE Told'
  BY <1>7, <1>11 DEF Hci!Post, Hci!Abort, Hci!line, Hci!reader
<1> QED
  BY <1>3, <1>4, <1>5, <1>6, <1>8, <1>9, <1>10, <1>11 DEF Hci!Next, Hci!UnitTask

\* The parts together.
LEMMA Whole ==
  Lines /\ Told /\ Answered /\ Hci!Staged /\ Hci!FirstSession /\ Wired => Hci!IInv
<1> SUFFICES ASSUME Lines, Told, Answered, Hci!Staged, Hci!FirstSession, Wired
             PROVE  Hci!IInv
  OBVIOUS
<1>1. /\ uart \in Seq(Hci!AnyByte) /\ ring \in Seq(Hci!AnyByte) /\ rx \in Seq(Hci!AnyByte)
  BY DEF Lines, Line
<1>2. Len(uart) <= 2 /\ Len(ring) <= Room /\ Len(rx) <= Space
  BY DEF Lines, Line
<1>3. DOMAIN uart = 1..Len(uart) /\ DOMAIN ring = 1..Len(ring) /\ DOMAIN rx = 1..Len(rx)
  BY <1>1
<1>4. \A s \in {uart, ring, rx} : \A i \in DOMAIN s : s[i] \in Hci!AnyByte
  BY <1>1, <1>3, ElementOfSeq
<1>5. \A i \in DOMAIN framed : framed[i] \in 0..Packets
  <2>1. framed \in Seq(0..Packets) /\ DOMAIN framed = 1..Len(framed)
    BY DEF Told
  <2> QED
    BY <2>1, ElementOfSeq
<1>6. Hci!TypeOK
  <2>1. /\ unit \in {"none", "opening", "open", "closing"}
        /\ task \in {"none", "claim", "power", "configure", "up", "release", "failed",
                     "poll", "frame", "off"}
    BY DEF Hci!Staged
  <2> QED
    BY <1>2, <1>4, <1>5, <2>1 DEF Wired, Hci!TypeOK, Hci!Fifo
<1>7. Hci!FramesArePackets
  <2>1. \A i \in DOMAIN rx : rx[i] # Hci!Noise
    BY <1>3 DEF Lines, Clean
  <2>2. ~lost /\ opens <= 1 => \A i \in DOMAIN framed : framed[i] = i
    BY DEF Hci!FirstSession
  <2> QED
    BY <2>1, <2>2 DEF Hci!FramesArePackets
<1>8. Hci!Bytes
  <2>1. enabled => \A s \in {uart, ring} : \A i \in DOMAIN s : s[i] # Hci!Noise
    BY <1>3 DEF Lines, Clean
  <2> QED
    BY <1>1, <2>1 DEF Told, Wired, Hci!Bytes
<1> QED
  BY <1>6, <1>7, <1>8 DEF Hci!IInv, Answered

LEMMA HciInductive ==
  Hci!StreamAssumption => /\ Hci!Init => Hci!IInv
                          /\ Hci!IInv /\ [Hci!Next]_Hci!vars => Hci!IInv'
<1> SUFFICES ASSUME Hci!StreamAssumption
             PROVE  /\ Hci!Init => Hci!IInv
                    /\ Hci!IInv /\ [Hci!Next]_Hci!vars => Hci!IInv'
  OBVIOUS
<1>1. ASSUME Hci!Init PROVE Hci!IInv
  <2>1. Packets \in Nat /\ Length \in Nat /\ Length >= 2 /\ Room \in Nat /\ Space \in Nat
    BY DEF Hci!StreamAssumption
  <2>2. <<>> \in Seq(Hci!AnyByte) /\ Len(<<>>) = 0 /\ DOMAIN <<>> = {}
    OBVIOUS
  <2>3. uart = <<>> /\ ring = <<>> /\ rx = <<>> /\ waiting = <<>> /\ framed = <<>>
    BY <1>1 DEF Hci!Init
  <2>4. Lines
    <3>1. Clean(<<>>)
      BY <2>2 DEF Clean
    <3>2. Line(<<>>, 2) /\ Line(<<>>, Room) /\ Line(<<>>, Space)
      BY <2>1, <2>2 DEF Line
    <3> QED
      BY <2>3, <3>1, <3>2 DEF Lines
  <2>5. Told
    <3>1. 1 \in 1..Packets + 1 /\ 1 \in 1..Length
      BY <2>1
    <3>2. \E p \in 1..Packets + 1, k \in 1..Length : out = Hci!Byte(p, k)
      BY <1>1, <3>1 DEF Hci!Init
    <3>3. framed = <<>> /\ announced = 0 /\ lost = FALSE
      BY <1>1 DEF Hci!Init
    <3>4. framed \in Seq(0..Packets)
      BY <3>3
    <3> QED
      BY <3>2, <3>3, <3>4 DEF Told
  <2>6. Answered
    <3>1. replies = [r \in 1..Reads |-> 0] /\ waiting = <<>> /\ DOMAIN waiting = {}
      BY <1>1, <2>2 DEF Hci!Init
    <3> QED
      BY <3>1 DEF Answered, Hci!Posted, Hci!AnsweredOnce, Hci!Queued
  <2>7. Hci!Staged /\ Wired
    BY <1>1 DEF Hci!Init, Hci!Staged, Wired
  <2>8. Hci!FirstSession
    BY <1>1, <2>2 DEF Hci!Init, Hci!FirstSession
  <2> QED
    BY <2>4, <2>5, <2>6, <2>7, <2>8, Whole
<1>2. ASSUME Hci!IInv, Hci!Next PROVE Hci!IInv'
  <2>1. Lines' /\ Told' /\ Answered' /\ Hci!Staged' /\ Hci!FirstSession' /\ Wired'
    BY <1>2, LineStep, ToldStep, AnswerStep, StageStep, FirstStep
  <2>2. (Lines /\ Told /\ Answered /\ Hci!Staged /\ Hci!FirstSession /\ Wired => Hci!IInv)'
    BY Whole, PTL
  <2> QED
    BY <2>1, <2>2
<1>3. ASSUME Hci!IInv, UNCHANGED Hci!vars PROVE Hci!IInv'
  BY <1>3 DEF Hci!vars, Hci!device, Hci!line, Hci!reader, Hci!client, Hci!IInv, Hci!TypeOK,
              Hci!FramesArePackets, Hci!AnsweredOnce, Hci!Queued, Hci!Staged, Hci!Posted,
              Hci!Bytes, Hci!FirstSession, Hci!Unbroken, Hci!Stream
<1> QED
  BY <1>1, <1>2, <1>3

-----------------------------------------------------------------------------
(* The bring-up of the wireless chip.                                     *)

CONSTANTS Windows, Sampled, MaxFaults
VARIABLES erom, cores, attached, bwfm_bar0, window, ram, cpu, version, ioe, iordy,
          fwready, stage, k, outcome, used, faults
Chip == INSTANCE WifiBringup WITH at <- stage, result <- outcome

\* The window follows its copy, or a transfer was lost.
LEMMA Shifted ==
  ASSUME Chip!WindowAssumption, Chip!IInv, NEW w \in 0..Windows + 1, Chip!Backplane(w)
  PROVE  /\ bwfm_bar0' = w /\ window' \in -1..Windows + 1 /\ faults' \in 0..MaxFaults
         /\ faults' = 0 => faults = 0
         /\ faults = 0 /\ faults' = 0 => window' = w
BY DEF Chip!WindowAssumption, Chip!IInv, Chip!TypeOK, Chip!Unhurt, Chip!Backplane,
       Chip!Fault, Chip!NoWindow, Chip!Nvram

LEMMA ChipStep ==
  ASSUME Chip!WindowAssumption, Chip!IInv, Chip!Next
  PROVE  Chip!IInv'
<1> USE DEF Chip!IInv, Chip!TypeOK, Chip!NoNullCore, Chip!Found, Chip!Walk,
            Chip!Unhurt, Chip!Whole, Chip!HealthyChipStarts, Chip!VerifiedIsImage,
            Chip!WindowAssumption, Chip!Image, Chip!Nvram, Chip!Regs, Chip!NoWindow,
            Chip!foundVars, Chip!busVars, Chip!chipVars, Chip!EveryWindow
<1>1. CASE Chip!Attach
  <2>1. /\ bwfm_bar0' = 0 /\ window' \in -1..Windows + 1 /\ faults' \in 0..MaxFaults
        /\ faults = 0 /\ faults' = 0 => window' = 0
        /\ faults' = 0 => faults = 0
    BY <1>1, Shifted DEF Chip!Attach
  <2>2. cores' \in {{}, erom}
    BY <1>1 DEF Chip!Attach
  <2>3. CASE Chip!Required(cores')
    <3>1. /\ attached' = TRUE /\ used' = used \cup Chip!PassiveUses(cores') \cup {"cc"}
          /\ cpu' = Chip!Passive(cores')
      BY <1>1, <2>3 DEF Chip!Attach
    <3>2. used' \subseteq cores' /\ used' \subseteq Chip!CoreId
      BY <1>1, <2>3, <3>1 DEF Chip!Attach, Chip!Required, Chip!PassiveUses, Chip!CoreId
    <3>3. cpu' \in {"halted", "running"}
      BY <3>1 DEF Chip!Passive
    <3> QED
      BY <1>1, <2>1, <2>2, <2>3, <3>1, <3>2, <3>3 DEF Chip!Attach
  <2>4. CASE ~Chip!Required(cores')
    BY <1>1, <2>1, <2>2, <2>4 DEF Chip!Attach
  <2> QED
    BY <2>3, <2>4
<1>2. CASE Chip!Start
  BY <1>2 DEF Chip!Start
<1>3. CASE Chip!Upload
  <2>1. stage = "upload" /\ k \in 1..Windows /\ attached
    BY <1>3 DEF Chip!Upload
  <2>2. /\ bwfm_bar0' = k /\ window' \in -1..Windows + 1 /\ faults' \in 0..MaxFaults
        /\ faults = 0 /\ faults' = 0 => window' = k
        /\ faults' = 0 => faults = 0
    BY <1>3, <2>1, Shifted DEF Chip!Upload
  <2>3. ram' \in [1..Windows -> {"old", "image", "other"}]
    BY <1>3 DEF Chip!Upload
  <2>4. faults' = 0 => \A w \in 1..Windows : w <= k => ram'[w] = "image"
    BY <1>3, <2>1, <2>2 DEF Chip!Upload
  <2>5. k' = k + 1 /\ stage' = IF k = Windows THEN "verify" ELSE "upload"
    BY <1>3 DEF Chip!Upload
  <2> QED
    BY <1>3, <2>1, <2>2, <2>3, <2>4, <2>5 DEF Chip!Upload
<1>4. CASE Chip!Verify
  <2>1. /\ bwfm_bar0' = 1 /\ window' \in -1..Windows + 1 /\ faults' \in 0..MaxFaults
        /\ faults = 0 /\ faults' = 0 => window' = 1
        /\ faults' = 0 => faults = 0
    BY <1>4, Shifted DEF Chip!Verify
  <2> QED
    BY <1>4, <2>1 DEF Chip!Verify, Chip!Reads, Chip!Fail
<1>5. CASE Chip!Sample
  <2>1. /\ stage = "verify" /\ k \in 0..Windows - 1 /\ k' = k + 1 /\ attached
        /\ UNCHANGED <<erom, cores, attached, used, ram, cpu, version, ioe, iordy, fwready>>
        /\ \/ Chip!Backplane(k + 1)
           \/ UNCHANGED <<bwfm_bar0, window, faults>> /\ k + 1 \notin Chip!Checked
        /\ IF k + 1 \in Chip!Checked => Chip!Reads(k + 1)
           THEN UNCHANGED <<stage, outcome>> ELSE Chip!Fail
    BY <1>5 DEF Chip!Sample
  <2>2. PICK n \in 1..Windows : n = k + 1
    BY <2>1
  <2>3. /\ window' \in -1..Windows + 1 /\ bwfm_bar0' \in -1..Windows + 1
        /\ faults' \in 0..MaxFaults
        /\ faults' = 0 => faults = 0 /\ window' = bwfm_bar0'
        /\ faults = 0 /\ faults' = 0 /\ n \in Chip!Checked => window' = n
    BY <2>1, <2>2, Shifted
  <2>4. CASE n \in Chip!Checked => Chip!Reads(n)
    <3>1. UNCHANGED <<stage, outcome>>
      BY <2>1, <2>2, <2>4
    <3>2. \A w \in 1..Windows : (w = 1 \/ w \in Sampled) /\ w <= n => ram[w] = "image"
      BY <2>1, <2>2, <2>4 DEF Chip!Reads, Chip!Checked
    <3> QED
      BY <2>1, <2>2, <2>3, <3>1, <3>2
  <2>5. CASE n \in Chip!Checked /\ ~Chip!Reads(n)
    <3>1. Chip!Fail
      BY <2>1, <2>2, <2>5
    <3>2. faults' # 0
      BY <2>1, <2>2, <2>3, <2>5 DEF Chip!Reads
    <3> QED
      BY <2>1, <2>2, <2>3, <3>1, <3>2 DEF Chip!Fail
  <2> QED
    BY <2>4, <2>5
<1>6. CASE Chip!Verified
  BY <1>6 DEF Chip!Verified
<1>7. CASE Chip!WriteNvram
  <2>1. /\ bwfm_bar0' = Windows + 1 /\ window' \in -1..Windows + 1
        /\ faults' \in 0..MaxFaults
        /\ faults = 0 /\ faults' = 0 => window' = Windows + 1
        /\ faults' = 0 => faults = 0
    BY <1>7, Shifted DEF Chip!WriteNvram
  <2>2. ram' \in [1..Windows -> {"old", "image", "other"}]
    BY <1>7 DEF Chip!WriteNvram
  <2>3. faults' = 0 => ram' = ram
    BY <1>7, <2>1 DEF Chip!WriteNvram
  <2> QED
    BY <1>7, <2>1, <2>2, <2>3 DEF Chip!WriteNvram
<1>8. CASE Chip!SetActive
  <2>1. /\ bwfm_bar0' = 0 /\ window' \in -1..Windows + 1 /\ faults' \in 0..MaxFaults
        /\ faults = 0 /\ faults' = 0 => window' = 0
        /\ faults' = 0 => faults = 0
    BY <1>8, Shifted DEF Chip!SetActive
  <2>2. attached /\ used' \subseteq cores /\ used' \subseteq Chip!CoreId
    BY <1>8 DEF Chip!SetActive, Chip!Required, Chip!CoreId
  <2>3. CASE cores \cap {"cr4", "cm3"} = {}
    BY <1>8, <2>1, <2>2, <2>3 DEF Chip!SetActive, Chip!Fail
  <2>4. CASE cores \cap {"cr4", "cm3"} # {}
    <3>1. /\ stage' = "function2" /\ UNCHANGED outcome
          /\ IF window' = 0 THEN cpu' = "running" /\ version' = TRUE
                            ELSE UNCHANGED <<cpu, version>>
      BY <1>8, <2>4 DEF Chip!SetActive, Chip!AfterActive
    <3>2. /\ stage = "active" /\ k' = k
          /\ UNCHANGED <<erom, cores, attached, ram, ioe, iordy, fwready>>
      BY <1>8 DEF Chip!SetActive
    <3>3. Chip!TypeOK'
      <4>1. cpu' \in {"halted", "running"} /\ version' \in BOOLEAN
        BY <3>1
      <4>2. cores' \in {{}, erom'} /\ used' \subseteq Chip!CoreId
        BY <2>2, <3>2
      <4>3. attached' \in BOOLEAN /\ ioe' \in BOOLEAN /\ iordy' \in BOOLEAN
            /\ fwready' \in BOOLEAN
        BY <3>2
      <4> QED
        BY <2>1, <3>1, <3>2, <4>1, <4>2, <4>3
    <3>4. Chip!Unhurt'
      BY <2>1, <3>1, <3>2
    <3> QED
      BY <2>1, <2>2, <3>1, <3>2, <3>3, <3>4
  <2> QED
    BY <2>3, <2>4
<1>9. CASE Chip!Enable2 \/ Chip!Ready2 \/ Chip!FwReady
  BY <1>9 DEF Chip!Enable2, Chip!Ready2, Chip!FwReady
<1>10. CASE Chip!GiveUp
  <2>1. faults # 0
    BY <1>10 DEF Chip!GiveUp, Chip!Stuck, Chip!Booting, Chip!Readying
  <2> QED
    BY <1>10, <2>1 DEF Chip!GiveUp, Chip!Fail, Chip!Stuck
<1>11. ASSUME NEW here \in {"upload", "verify", "nvram"}, Chip!Broken(here) PROVE Chip!IInv'
  BY <1>11 DEF Chip!Broken, Chip!Fault, Chip!Fail
<1>12. CASE Chip!Boot
  BY <1>12 DEF Chip!Boot
<1>13. CASE Chip!Report
  BY <1>13 DEF Chip!Report
<1> QED
  BY <1>1, <1>2, <1>3, <1>4, <1>5, <1>6, <1>7, <1>8, <1>9, <1>10, <1>11, <1>12,
     <1>13 DEF Chip!Next

LEMMA ChipInductive == ASSUME Chip!WindowAssumption PROVE Chip!Spec => []Chip!IInv
<1>1. Chip!Init => Chip!IInv
  <2> SUFFICES ASSUME Chip!Init PROVE Chip!IInv
    OBVIOUS
  <2>1. Chip!TypeOK
    <3>1. ram \in [Chip!Image -> {"old", "image", "other"}]
      BY DEF Chip!Init
    <3>2. /\ bwfm_bar0 \in Chip!NoWindow..Chip!Nvram /\ window \in Chip!NoWindow..Chip!Nvram
          /\ k \in 0..Windows + 1 /\ faults \in 0..MaxFaults
      BY DEF Chip!Init, Chip!WindowAssumption, Chip!Nvram, Chip!NoWindow
    <3>3. cores \in {{}, erom} /\ used \subseteq Chip!CoreId
      BY DEF Chip!Init
    <3>4. attached \in BOOLEAN /\ version \in BOOLEAN /\ ioe \in BOOLEAN
          /\ iordy \in BOOLEAN /\ fwready \in BOOLEAN
      BY DEF Chip!Init
    <3> QED
      BY <3>1, <3>2, <3>3, <3>4 DEF Chip!Init, Chip!TypeOK
  <2> QED
    BY <2>1 DEF Chip!Init, Chip!IInv, Chip!NoNullCore, Chip!Found, Chip!Walk,
           Chip!Unhurt, Chip!HealthyChipStarts, Chip!VerifiedIsImage
<1>2. Chip!IInv /\ [Chip!Next]_Chip!vars => Chip!IInv'
  <2>1. CASE UNCHANGED Chip!vars
    BY <2>1 DEF Chip!vars, Chip!foundVars, Chip!busVars, Chip!chipVars, Chip!IInv,
                Chip!TypeOK, Chip!NoNullCore, Chip!Found, Chip!Walk, Chip!Unhurt,
                Chip!Whole, Chip!HealthyChipStarts, Chip!VerifiedIsImage
  <2> QED
    BY <2>1, ChipStep
<1> QED
  BY <1>1, <1>2, PTL DEF Chip!Spec

\* The radio keeps what it promises, each part for every value of its constants.  The
\* bus of the wireless chip: no command is judged by the status of one before it, both
\* ends cut a transfer into blocks of one size, and the host is never wider than the
\* chip, with bytes and blocks of any number.  Its bring-up: no core that was not found is
\* touched, a chip that is well starts, and a firmware that was verified is the one
\* meant, with an image of any size and any number of lost transfers.  Bluetooth: with
\* packets of any length, rings and buffers of any size and any number of sessions, the
\* framer cuts out what the controller sent, each read is answered once, and a unit that
\* is gone has left the UART silent.
THEOREM RadioIsKept ==
  /\ Sdio!LimitAssumption => (Sdio!Spec => []Sdio!RadioKept)
  /\ Chip!WindowAssumption => (Chip!Spec => []Chip!RadioKept)
  /\ Hci!StreamAssumption => (Hci!Spec => []Hci!RadioKept)
<1>1. ASSUME Sdio!LimitAssumption PROVE Sdio!Spec => []Sdio!RadioKept
  <2>1. Sdio!IInv => Sdio!RadioKept
    BY DEF Sdio!IInv, Sdio!TypeOK, Sdio!Agreed, Sdio!HasData, Sdio!StatusIsOurs,
           Sdio!BlocksAgree, Sdio!HostNarrowFirst, Sdio!RadioKept
  <2>2. Sdio!Spec => []Sdio!IInv
    BY <1>1, SdioInductive
  <2> QED
    BY <2>1, <2>2, PTL
<1>2. ASSUME Chip!WindowAssumption PROVE Chip!Spec => []Chip!RadioKept
  <2>1. Chip!IInv => Chip!RadioKept
    BY DEF Chip!IInv, Chip!Walk, Chip!Unhurt, Chip!RadioKept
  <2>2. Chip!Spec => []Chip!IInv
    BY <1>2, ChipInductive
  <2> QED
    BY <2>1, <2>2, PTL
<1>3. ASSUME Hci!StreamAssumption PROVE Hci!Spec => []Hci!RadioKept
  <2>1. Hci!IInv => Hci!RadioKept
    BY DEF Hci!IInv, Hci!Staged, Hci!TaskHasUnit, Hci!RadioKept
  <2>2. Hci!Init => Hci!IInv
    BY <1>3, HciInductive
  <2>3. Hci!IInv /\ [Hci!Next]_Hci!vars => Hci!IInv'
    BY <1>3, HciInductive
  <2> QED
    BY <2>1, <2>2, <2>3, PTL DEF Hci!Spec
<1> QED
  BY <1>1, <1>2, <1>3
=============================================================================
