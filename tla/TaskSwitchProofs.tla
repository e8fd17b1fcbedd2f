-------------------------- MODULE TaskSwitchProofs --------------------------
(***************************************************************************)
(* What TaskSwitch keeps, for every set of tasks and however long it runs. *)
(* IInv is proved with handlers at every point of the voluntary switch,    *)
(* the two that lose a wakeup included; the list of the tasks that wait,   *)
(* WaitList, where Windows leaves those two out.                           *)
(***************************************************************************)
EXTENDS TaskSwitch, SequenceTheorems, FiniteSetTheorems, TLAPS

-----------------------------------------------------------------------------
(* Exec's lists.                                                           *)

\* The nodes of a list are what stands at its places.
LEMMA Members ==
  ASSUME NEW q \in Seq(Task)
  PROVE  /\ Len(q) \in Nat /\ ToSet(q) \subseteq Task
         /\ \A t : t \in ToSet(q) <=> \E i \in 1..Len(q) : q[i] = t
BY DEF ToSet

\* AddTail of a task that is not on the list: the list has each task once.
LEMMA AppendOnce ==
  ASSUME NEW q \in Seq(Task), NEW t \in Task
  PROVE  /\ Append(q, t) \in Seq(Task)
         /\ ToSet(Append(q, t)) = ToSet(q) \cup {t}
         /\ Once(q) /\ t \notin ToSet(q) => Once(Append(q, t))
<1>1. /\ Append(q, t) \in Seq(Task) /\ Len(Append(q, t)) = Len(q) + 1
      /\ \A i \in 1..Len(q) : Append(q, t)[i] = q[i]
      /\ Append(q, t)[Len(q) + 1] = t
  BY AppendProperties
<1> DEFINE w == Append(q, t)
<1>2. /\ w \in Seq(Task) /\ Len(w) = Len(q) + 1
      /\ \A i \in 1..Len(q) : w[i] = q[i]
      /\ w[Len(q) + 1] = t
  BY <1>1
<1> HIDE DEF w
<1>3. ToSet(w) = ToSet(q) \cup {t}
  <2>1. ASSUME NEW x \in ToSet(w) PROVE x \in ToSet(q) \cup {t}
    <3>1. PICK i \in 1..(Len(q) + 1) : w[i] = x
      BY <1>2, <2>1, Members
    <3>2. CASE i \in 1..Len(q)
      BY <1>2, <3>1, <3>2, Members
    <3>3. CASE i = Len(q) + 1
      BY <1>2, <3>1, <3>3
    <3> QED
      BY <3>1, <3>2, <3>3, Members
  <2>2. ASSUME NEW x \in ToSet(q) \cup {t} PROVE \E i \in 1..(Len(q) + 1) : w[i] = x
    <3>1. CASE x = t
      BY <1>2, <3>1, Members
    <3>2. CASE x \in ToSet(q)
      <4>1. PICK i \in 1..Len(q) : q[i] = x
        BY <3>2, Members
      <4> QED
        BY <1>2, <4>1, Members
    <3> QED
      BY <2>2, <3>1, <3>2
  <2> QED
    BY <1>2, <2>1, <2>2, Members
<1>4. Once(q) /\ t \notin ToSet(q) => Once(w)
  BY <1>2, Members DEF Once
<1> QED
  BY <1>2, <1>3, <1>4 DEF w

\* RemHead takes the first task off the list and nothing else.
LEMMA TailOnce ==
  ASSUME NEW q \in Seq(Task), q # <<>>
  PROVE  /\ Tail(q) \in Seq(Task) /\ Head(q) \in Task /\ Head(q) \in ToSet(q)
         /\ Once(q) => Once(Tail(q)) /\ ToSet(Tail(q)) = ToSet(q) \ {Head(q)}
<1> DEFINE w == Tail(q)
           h == Head(q)
           n == Len(q)
<1>1. /\ h \in Task /\ w \in Seq(Task) /\ Len(w) = n - 1
      /\ \A i \in 1..(n - 1) : w[i] = q[i + 1]
      /\ n \in Nat \ {0} /\ h = q[1]
  BY HeadTailProperties
<1> HIDE DEF w, h
<1>2. h \in ToSet(q)
  BY <1>1, Members
<1>3. ASSUME Once(q) PROVE Once(w)
  BY <1>1, <1>3 DEF Once
<1>4. ASSUME Once(q), NEW x PROVE x \in ToSet(w) <=> x \in ToSet(q) \ {h}
  <2>1. ASSUME x \in ToSet(w) PROVE x \in ToSet(q) \ {h}
    <3>1. PICK i \in 1..(n - 1) : w[i] = x
      BY <1>1, <2>1, Members
    <3>2. q[i + 1] = x /\ i + 1 \in 1..n /\ i + 1 # 1 /\ 1 \in 1..n
      BY <1>1, <3>1
    <3> QED
      BY <1>1, <1>4, <3>2, Members DEF Once
  <2>2. ASSUME x \in ToSet(q) \ {h} PROVE x \in ToSet(w)
    <3>1. PICK i \in 1..n : q[i] = x
      BY <2>2, Members
    <3>2. i - 1 \in 1..(n - 1) /\ w[i - 1] = x
      BY <1>1, <2>2, <3>1
    <3> QED
      BY <1>1, <3>2, Members
  <2> QED
    BY <2>1, <2>2
<1> QED
  BY <1>1, <1>2, <1>3, <1>4 DEF w, h

\* Remove takes one task off the list and nothing else.
LEMMA UnlinkOnce ==
  ASSUME NEW q \in Seq(Task), NEW t \in ToSet(q)
  PROVE  /\ Unlink(q, t) \in Seq(Task)
         /\ Once(q) => /\ Once(Unlink(q, t))
                       /\ ToSet(Unlink(q, t)) = ToSet(q) \ {t}
<1> DEFINE n == Len(q)
           k == CHOOSE i \in 1..n : q[i] = t
           w == [j \in 1..(n - 1) |-> IF j < k THEN q[j] ELSE q[j + 1]]
<1>1. k \in 1..n /\ q[k] = t /\ n \in Nat
  BY Members
<1> HIDE DEF k
<1>2. w \in Seq(Task) /\ Len(w) = n - 1
      /\ \A j \in 1..(n - 1) : w[j] = IF j < k THEN q[j] ELSE q[j + 1]
  <2>1. n - 1 \in Nat /\ \A j \in 1..(n - 1) : q[j] \in Task /\ q[j + 1] \in Task
    BY <1>1
  <2>2. w \in [1..(n - 1) -> Task]
    BY <2>1
  <2>3. w \in Seq(Task) /\ Len(w) = n - 1
    BY <2>1, <2>2
  <2> QED
    BY <2>3
<1>3. Unlink(q, t) = w
  BY DEF Unlink, k
<1> HIDE DEF w, n
<1>4. \A i, j \in 1..n : Once(q) /\ q[i] = q[j] => i = j
  BY DEF Once, n
<1>5. ASSUME Once(q) PROVE Once(w)
  BY <1>1, <1>2, <1>4, <1>5 DEF Once
<1>6. ASSUME Once(q), NEW x PROVE x \in ToSet(w) <=> x \in ToSet(q) \ {t}
  <2>1. ASSUME x \in ToSet(w) PROVE x \in ToSet(q) \ {t}
    <3>1. PICK j \in 1..(n - 1) : w[j] = x
      BY <1>2, <2>1, Members
    <3>2. \E i \in 1..n : i # k /\ q[i] = x
      BY <1>1, <1>2, <3>1
    <3> QED
      BY <1>1, <1>4, <1>6, <3>2, Members DEF n
  <2>2. ASSUME x \in ToSet(q) \ {t} PROVE x \in ToSet(w)
    <3>1. PICK i \in 1..n : q[i] = x /\ i # k
      BY <1>1, <2>2, Members DEF n
    <3>2. \E j \in 1..(n - 1) : w[j] = x
      <4>1. CASE i < k
        BY <1>1, <1>2, <3>1, <4>1
      <4>2. CASE i > k
        <5>1. i - 1 \in 1..(n - 1) /\ w[i - 1] = x
          BY <1>1, <1>2, <3>1, <4>2
        <5> QED
          BY <5>1
      <4> QED
        BY <1>1, <3>1, <4>1, <4>2
    <3> QED
      BY <1>2, <3>2, Members
  <2> QED
    BY <2>1, <2>2
<1> QED
  BY <1>2, <1>3, <1>5, <1>6

-----------------------------------------------------------------------------
(* The steps.                                                              *)

USE DEF switch, usage, vars

LEMMA InitInv ==
  ASSUME TaskAssumption, Init
  PROVE  IInv /\ WaitList
<1>1. PICK q \in SetToSeqs(Task \ {this}) : ready = q
  BY DEF Init
<1> DEFINE S == Task \ {this}
           n == Cardinality(S)
<1>2. IsFiniteSet(S) /\ n \in Nat /\ this \in Task
  BY FS_Subset, FS_CardinalityType DEF TaskAssumption, Init
<1>3. /\ ready \in [1..n -> S]
      /\ \A i, j \in 1..n : i # j => ready[i] # ready[j]
  BY <1>1 DEF SetToSeqs
<1>4. ready \in Seq(Task) /\ Len(ready) = n
  <2>1. ready \in [1..n -> Task]
    BY <1>3
  <2> HIDE DEF n, S
  <2> QED
    BY <1>2, <2>1
<1>5. Once(ready)
  BY <1>3, <1>4 DEF Once
<1>6. ToSet(ready) = S
  <2>1. ready \in Injection(1..n, S)
    BY <1>3 DEF Injection, IsInjective
  <2>2. IsFiniteSet(1..n) /\ Cardinality(1..n) = n
    BY <1>2, FS_Interval
  <2>3. ready \in Surjection(1..n, S)
    BY <1>2, <2>1, <2>2, FS_Injection
  <2> QED
    BY <1>3, <1>4, <2>3 DEF Surjection, ToSet
<1>7. waiting \in Seq(Task) /\ Len(waiting) = 0 /\ ToSet(waiting) = {}
  BY DEF Init, ToSet
<1>8. \A t \in Task : /\ state[t] = "run" <=> t = this
                      /\ state[t] = "ready" <=> t # this
                      /\ state[t] # "wait"
  BY DEF Init
<1>9. TypeOK
  <2>1. state \in [Task -> {"run", "ready", "wait"}]
    BY DEF Init
  <2>2. busy \in [Task -> 0..stamp] /\ ran \in [Task -> 0..now]
        /\ now \in 0..MaxNow /\ stamp \in 0..now
    BY DEF Init, TaskAssumption
  <2>3. nest \in -1..1 /\ saved \in [Task -> -1..0] /\ own \in [Task -> -1..0]
    BY DEF Init
  <2>4. /\ pc = "user" /\ masked \in BOOLEAN /\ this \in Task /\ charged \in Task
        /\ recvd \subseteq Task
    BY DEF Init
  <2> QED
    BY <1>4, <1>7, <2>1, <2>2, <2>3, <2>4 DEF TypeOK
<1>10. Holder /\ Sleep /\ Nesting
  BY <1>8 DEF Init, Holder, Holding, Sleep, Nesting
<1>11. ReadyList
  BY <1>5, <1>6, <1>8 DEF ReadyList
<1>12. NoneUndercharged
  BY <1>9 DEF Init, NoneUndercharged, Unbilled, TypeOK
<1>13. WaitList
  BY <1>7, <1>8 DEF WaitList, Once, Init
<1> QED
  BY <1>9, <1>10, <1>11, <1>12, <1>13 DEF IInv

\* What a Signal does to the lists and to the states.
LEMMA Posted ==
  ASSUME IInv, NEW t \in Task, Post(t)
  PROVE  /\ recvd' \subseteq Task
         /\ state' \in [Task -> {"run", "ready", "wait"}]
         /\ ready' \in Seq(Task) /\ waiting' \in Seq(Task)
         /\ ReadyList'
         /\ \A u \in Task : state'[u] = "run" <=> state[u] = "run"
         /\ \A u \in Task : state'[u] = state[u] \/ (state[u] = "wait" /\ state'[u] = "ready")
<1>1. CASE state[t] = "wait"
  <2>1. /\ state' = [state EXCEPT ![t] = "ready"] /\ ready' = Append(ready, t)
        /\ waiting' = IF t \in ToSet(waiting) THEN Unlink(waiting, t) ELSE waiting
        /\ recvd' = recvd \cup {t}
    BY <1>1 DEF Post
  <2>2. waiting' \in Seq(Task)
    BY <2>1, UnlinkOnce DEF IInv, TypeOK
  <2>3. t \notin ToSet(ready) /\ ready \in Seq(Task)
    BY <1>1 DEF IInv, ReadyList, TypeOK
  <2>4. Once(ready') /\ ready' \in Seq(Task) /\ ToSet(ready') = ToSet(ready) \cup {t}
    BY <2>1, <2>3, AppendOnce DEF IInv, ReadyList
  <2>5. state' \in [Task -> {"run", "ready", "wait"}]
    BY <2>1 DEF IInv, TypeOK
  <2>6. \A u \in Task : state'[u] = IF u = t THEN "ready" ELSE state[u]
    BY <2>1 DEF IInv, TypeOK
  <2>7. ReadyList'
    BY <2>4, <2>6 DEF IInv, ReadyList
  <2>8. recvd' \subseteq Task
    BY <2>1 DEF IInv, TypeOK
  <2> QED
    BY <1>1, <2>2, <2>4, <2>5, <2>6, <2>7, <2>8
<1>2. CASE state[t] # "wait"
  <2>1. recvd' = recvd \cup {t} /\ UNCHANGED <<state, ready, waiting>>
    BY <1>2 DEF Post
  <2>2. ReadyList'
    BY <2>1 DEF IInv, ReadyList, Once
  <2> QED
    BY <2>1, <2>2 DEF IInv, TypeOK
<1> QED
  BY <1>1, <1>2

\* A step of the running task.
TaskStep == Disable \/ Enable \/ Take \/ Wait \/ Preempt
SignalStep == \E t \in Task : Handler(t) \/ Send(t)

LEMMA TypeStep ==
  ASSUME TaskAssumption, IInv, Next
  PROVE  TypeOK'
<1> USE DEF IInv, TypeOK
<1>1. CASE Disable
  BY <1>1 DEF Disable
<1>2. CASE Enable
  BY <1>2 DEF Enable
<1>3. CASE Take
  BY <1>3 DEF Take
<1>4. CASE Wait
  BY <1>4 DEF Wait
<1>5. CASE Preempt
  <2>1. ready' \in Seq(Task)
    BY <1>5, AppendOnce DEF Preempt
  <2>2. nest \in -1..0 /\ saved' \in [Task -> -1..0]
    BY <1>5 DEF Preempt
  <2> QED
    BY <1>5, <2>1, <2>2 DEF Preempt
<1>6. CASE Recheck
  <2>1. pc' \in {"user", "checked"} /\ nest' \in {nest, nest + 1} /\ nest \in -1..0
    BY <1>6 DEF Recheck, Nesting
  <2>2. nest' \in -1..1
    BY <2>1
  <2> QED
    BY <1>6, <2>1, <2>2 DEF Recheck
<1>7. CASE Commit
  BY <1>7 DEF Commit
<1>8. CASE Insert
  <2>1. waiting' \in Seq(Task)
    BY <1>8, AppendOnce DEF Insert
  <2>2. saved' \in [Task -> -1..0]
    <3>1. nest = own[this] + 1 /\ own[this] \in -1..0
      BY <1>8 DEF Insert, Nesting
    <3>2. nest - 1 \in -1..0
      BY <3>1
    <3> QED
      BY <1>8, <3>2 DEF Insert, KeepNest
  <2> QED
    BY <1>8, <2>1, <2>2 DEF Insert
<1>9. CASE Close
  BY <1>9 DEF Close, Mask
<1>10. CASE Dispatch
  <2>1. Head(ready) \in Task /\ ready' \in Seq(Task)
    BY <1>10, TailOnce DEF Dispatch
  <2>2. busy' \in [Task -> 0..now] /\ stamp' = now /\ now' = now
    <3>1. busy[charged] + (now - stamp) \in 0..now
      OBVIOUS
    <3> QED
      BY <1>10, <3>1 DEF Dispatch, Account
  <2>3. nest' \in -1..0
    BY <1>10, <2>1 DEF Dispatch
  <2>4. state' \in [Task -> {"run", "ready", "wait"}]
    BY <1>10 DEF Dispatch
  <2>5. this' \in Task /\ charged' \in Task /\ masked' = FALSE /\ pc' = "user"
        /\ UNCHANGED <<waiting, recvd, saved, own, now, ran>>
    BY <1>10, <2>1 DEF Dispatch
  <2>6. now' \in 0..MaxNow /\ stamp' \in 0..now' /\ busy' \in [Task -> 0..stamp']
    BY <2>2
  <2>7. nest' \in -1..1
    BY <2>3
  <2> QED
    BY <2>1, <2>4, <2>5, <2>6, <2>7
<1>11. CASE Empty
  BY <1>11 DEF Empty
<1>12. CASE Stop
  BY <1>12 DEF Stop
<1>13. CASE SignalStep
  <2>1. PICK t \in Task : Handler(t) \/ Send(t)
    BY <1>13 DEF SignalStep
  <2>2. Post(t)
    BY <2>1 DEF Handler, Send
  <2> QED
    BY <2>1, <2>2, Posted DEF Handler, Send
<1>14. CASE Tick
  <2>1. now' \in 0..MaxNow /\ stamp' \in 0..now' /\ 0..now \subseteq 0..now' /\ busy' \in [Task -> 0..stamp']
    BY <1>14 DEF Tick, TaskAssumption
  <2>2. ran' \in [Task -> 0..now']
    <3>1. CASE pc = "idle"
      BY <1>14, <2>1, <3>1 DEF Tick
    <3>2. CASE pc # "idle"
      <4>1. ran' = [ran EXCEPT ![this] = ran[this] + 1] /\ now' = now + 1
        BY <1>14, <3>2 DEF Tick
      <4>2. ran[this] + 1 \in 0..now' /\ \A t \in Task : ran[t] \in 0..now'
        BY <2>1, <4>1
      <4> QED
        BY <4>1, <4>2
    <3> QED
      BY <3>1, <3>2
  <2> QED
    BY <1>14, <2>1, <2>2 DEF Tick
<1> QED
  BY <1>1, <1>2, <1>3, <1>4, <1>5, <1>6, <1>7, <1>8, <1>9, <1>10, <1>11, <1>12, <1>13, <1>14
     DEF Next, Cpu, SignalStep

LEMMA HolderStep ==
  ASSUME TaskAssumption, IInv, Next
  PROVE  Holder'
<1> USE DEF IInv, TypeOK, Holder, Holding
<1>1. CASE Disable \/ Enable \/ Take \/ Wait
  BY <1>1 DEF Disable, Enable, Take, Wait
<1>2. CASE Preempt
  BY <1>2 DEF Preempt
<1>3. CASE Recheck
  BY <1>3 DEF Recheck
<1>4. CASE Commit
  BY <1>4 DEF Commit
<1>5. CASE Insert
  BY <1>5 DEF Insert
<1>6. CASE Close \/ Empty \/ Stop
  BY <1>6 DEF Close, Empty, Stop
<1>7. CASE Dispatch
  <2>1. Head(ready) \in Task
    BY <1>7, TailOnce DEF Dispatch
  <2> QED
    BY <1>7, <2>1 DEF Dispatch
<1>8. CASE SignalStep
  <2>1. PICK t \in Task : Handler(t) \/ Send(t)
    BY <1>8 DEF SignalStep
  <2>2. Post(t)
    BY <2>1 DEF Handler, Send
  <2>3. /\ \A u \in Task : state'[u] = "run" <=> state[u] = "run"
        /\ \A u \in Task : state'[u] = state[u] \/ (state[u] = "wait" /\ state'[u] = "ready")
    BY <2>2, Posted
  <2>4. UNCHANGED <<this, charged>> /\ (pc' = pc \/ (pc = "idle" /\ pc' = "dispatch"))
    BY <2>1 DEF Handler, Send
  <2> QED
    BY <2>3, <2>4
<1>9. CASE Tick
  BY <1>9 DEF Tick
<1> QED
  BY <1>1, <1>2, <1>3, <1>4, <1>5, <1>6, <1>7, <1>8, <1>9 DEF Next, Cpu, SignalStep

LEMMA ReadyStep ==
  ASSUME TaskAssumption, IInv, Next
  PROVE  ReadyList'
<1> USE DEF IInv, TypeOK
<1>1. ASSUME UNCHANGED <<state, ready>> PROVE ReadyList'
  BY <1>1 DEF ReadyList, Once
<1>2. CASE Preempt
  <2>1. state[this] = "run" /\ this \notin ToSet(ready)
    BY <1>2 DEF Preempt, Holder, Holding, ReadyList
  <2>2. Once(ready') /\ ToSet(ready') = ToSet(ready) \cup {this}
    BY <1>2, <2>1, AppendOnce DEF Preempt, ReadyList
  <2>3. \A t \in Task : state'[t] = IF t = this THEN "ready" ELSE state[t]
    BY <1>2 DEF Preempt
  <2> QED
    BY <2>2, <2>3 DEF ReadyList
<1>3. CASE Commit
  <2>1. state[this] = "run"
    BY <1>3 DEF Commit, Holder, Holding
  <2>2. \A t \in Task : state'[t] = IF t = this THEN "wait" ELSE state[t]
    BY <1>3 DEF Commit
  <2>3. ready' = ready
    BY <1>3 DEF Commit
  <2> QED
    BY <2>1, <2>2, <2>3 DEF ReadyList, Once
<1>4. CASE Dispatch
  <2>1. /\ ToSet(ready') = ToSet(ready) \ {Head(ready)}
        /\ Once(ready') /\ Head(ready) \in Task
    BY <1>4, TailOnce DEF Dispatch, ReadyList
  <2>2. \A t \in Task : state'[t] = IF t = Head(ready) THEN "run" ELSE state[t]
    BY <1>4 DEF Dispatch
  <2> QED
    BY <2>1, <2>2 DEF ReadyList
<1>5. CASE SignalStep
  BY <1>5, Posted DEF SignalStep, Handler, Send
<1> QED
  BY <1>1, <1>2, <1>3, <1>4, <1>5
     DEF Next, Cpu, SignalStep, Disable, Enable, Take, Wait, Recheck, Insert,
         Close, Empty, Stop, Tick

LEMMA SleepStep ==
  ASSUME IInv, Next
  PROVE  Sleep'
<1> USE DEF IInv, TypeOK, Sleep
<1>1. CASE TaskStep
  BY <1>1 DEF TaskStep, Disable, Enable, Take, Wait, Preempt
<1>2. CASE Recheck \/ Commit \/ Insert \/ Close \/ Empty \/ Stop
  BY <1>2 DEF Recheck, Commit, Insert, Close, Mask, Empty, Stop
<1>3. CASE Dispatch
  BY <1>3 DEF Dispatch
<1>4. CASE SignalStep
  <2>1. PICK t \in Task : Handler(t) \/ Send(t)
    BY <1>4 DEF SignalStep
  <2>2. pc' \notin {"look", "stop", "idle"}
    BY <2>1 DEF Handler, Send
  <2> QED
    BY <2>2
<1>5. CASE Tick
  BY <1>5 DEF Tick
<1> QED
  BY <1>1, <1>2, <1>3, <1>4, <1>5 DEF Next, Cpu, SignalStep, TaskStep

LEMMA NestingStep ==
  ASSUME TaskAssumption, IInv, Next
  PROVE  Nesting'
<1> USE DEF IInv, TypeOK, Nesting, Holding
<1>1. CASE Disable \/ Enable
  BY <1>1 DEF Disable, Enable
<1>2. CASE Take \/ Wait \/ Close \/ Empty \/ Stop \/ Commit \/ Tick
  BY <1>2 DEF Take, Wait, Close, Empty, Stop, Commit, Tick
<1>3. CASE Preempt
  <2>1. \A t \in Task : saved'[t] = IF t = this THEN nest ELSE saved[t]
    BY <1>3 DEF Preempt
  <2> QED
    BY <1>3, <2>1 DEF Preempt
<1>4. CASE Recheck
  BY <1>4 DEF Recheck
<1>5. CASE Insert
  <2>1. \A t \in Task : saved'[t] = IF t = this THEN nest - 1 ELSE saved[t]
    BY <1>5 DEF Insert, KeepNest
  <2>2. nest - 1 = own[this]
    <3>1. nest = own[this] + 1 /\ own[this] \in -1..0
      BY <1>5 DEF Insert
    <3> QED
      BY <3>1
  <2> QED
    BY <1>5, <2>1, <2>2 DEF Insert
<1>6. CASE Dispatch
  <2>1. Head(ready) \in Task
    BY <1>6, TailOnce DEF Dispatch
  <2>2. \A t \in Task : saved[t] = own[t]
    BY <1>6 DEF Dispatch
  <2> QED
    BY <1>6, <2>1, <2>2 DEF Dispatch
<1>7. CASE SignalStep
  <2>1. PICK t \in Task : Handler(t) \/ Send(t)
    BY <1>7 DEF SignalStep
  <2>2. /\ UNCHANGED <<this, nest, saved, own>>
        /\ pc' = pc \/ (pc = "idle" /\ pc' = "dispatch")
    BY <2>1 DEF Handler, Send
  <2> QED
    BY <2>2
<1> QED
  BY <1>1, <1>2, <1>3, <1>4, <1>5, <1>6, <1>7 DEF Next, Cpu, SignalStep

LEMMA ChargeStep ==
  ASSUME TaskAssumption, IInv, Next
  PROVE  NoneUndercharged'
<1> USE DEF IInv, TypeOK, NoneUndercharged, Unbilled
<1>1. ASSUME UNCHANGED usage PROVE NoneUndercharged'
  BY <1>1
<1>2. CASE Dispatch
  <2>1. /\ Head(ready) \in Task /\ charged' = Head(ready)
        /\ now' = now /\ stamp' = now /\ ran' = ran
    BY <1>2, TailOnce DEF Dispatch
  <2>2. \A t \in Task : busy'[t] = busy[t] + Unbilled(t)
    BY <1>2 DEF Dispatch, Account
  <2>3. \A t \in Task : Unbilled(t)' = 0
    BY <2>1
  <2> QED
    <3> SUFFICES ASSUME NEW t \in Task PROVE busy'[t] + Unbilled(t)' >= ran'[t]
      OBVIOUS
    <3>1. busy[t] \in Int /\ Unbilled(t) \in Int /\ ran[t] \in Int /\ busy[t] + Unbilled(t) >= ran[t]
      OBVIOUS
    <3>2. busy'[t] = busy[t] + Unbilled(t) /\ Unbilled(t)' = 0 /\ ran'[t] = ran[t]
      BY <2>1, <2>2, <2>3
    <3> HIDE DEF Unbilled
    <3> QED
      BY <3>1, <3>2
<1>3. CASE Tick
  <2>1. /\ now' = now + 1 /\ UNCHANGED <<stamp, charged, busy>> /\ charged = this
        /\ \A t \in Task : ran'[t] = ran[t] \/ (t = this /\ ran'[t] = ran[t] + 1)
    BY <1>3 DEF Tick, Holder
  <2> QED
    <3> SUFFICES ASSUME NEW t \in Task PROVE busy'[t] + Unbilled(t)' >= ran'[t]
      OBVIOUS
    <3>1. busy[t] \in Int /\ ran[t] \in Int /\ busy[t] + Unbilled(t) >= ran[t]
      OBVIOUS
    <3>2. busy'[t] = busy[t] /\ now \in Int /\ stamp \in Int
      BY <2>1
    <3>3. CASE t = charged
      <4>1. Unbilled(t) = now - stamp /\ Unbilled(t)' = (now + 1) - stamp /\ ran'[t] <= ran[t] + 1 /\ ran'[t] \in Int
        BY <2>1, <3>1, <3>3
      <4> HIDE DEF Unbilled
      <4> QED
        BY <3>1, <3>2, <4>1
    <3>4. CASE t # charged
      <4>1. Unbilled(t) = 0 /\ Unbilled(t)' = 0 /\ ran'[t] = ran[t]
        BY <2>1, <3>4
      <4> HIDE DEF Unbilled
      <4> QED
        BY <3>1, <3>2, <4>1
    <3> QED
      BY <3>3, <3>4
<1> QED
  BY <1>1, <1>2, <1>3
     DEF Next, Cpu, Disable, Enable, Take, Wait, Preempt, Recheck, Commit, Insert,
         Close, Empty, Stop, Handler, Send

LEMMA InvStep ==
  ASSUME TaskAssumption, IInv, [Next]_vars
  PROVE  IInv'
<1>1. CASE Next
  BY <1>1, TypeStep, HolderStep, ReadyStep, SleepStep, NestingStep, ChargeStep DEF IInv
<1>2. CASE UNCHANGED vars
  BY <1>2 DEF IInv, TypeOK, Holder, Holding, ReadyList, Once, Sleep, Nesting,
              NoneUndercharged, Unbilled
<1> QED
  BY <1>1, <1>2

-----------------------------------------------------------------------------
(* TaskWait, while no handler runs in the voluntary switch.                *)

LEMMA WaitStep ==
  ASSUME TaskAssumption, Windows = {}, IInv, WaitList, Next
  PROVE  WaitList'
<1> USE DEF IInv, TypeOK, WaitList
<1>1. CASE Disable \/ Enable \/ Wait \/ Recheck \/ Close \/ Empty \/ Stop \/ Tick
  BY <1>1 DEF Disable, Enable, Wait, Recheck, Pending, Close, Empty, Stop, Tick, Once
<1>2. CASE Take
  BY <1>2 DEF Take, Once
<1>3. CASE Preempt
  <2>1. \A t \in Task : state'[t] = IF t = this THEN "ready" ELSE state[t]
    BY <1>3 DEF Preempt
  <2>2. state[this] = "run"
    BY <1>3 DEF Preempt, Holder, Holding
  <2> QED
    BY <1>3, <2>1, <2>2 DEF Preempt, Once
<1>4. CASE Commit
  <2>1. \A t \in Task : state'[t] = IF t = this THEN "wait" ELSE state[t]
    BY <1>4 DEF Commit
  <2>2. state[this] = "run"
    BY <1>4 DEF Commit, Holder, Holding
  <2> QED
    BY <1>4, <2>1, <2>2 DEF Commit, Once
<1>5. CASE Insert
  <2>1. /\ this \notin ToSet(waiting) /\ this \notin recvd /\ state[this] = "wait"
        /\ waiting' = Append(waiting, this) /\ UNCHANGED <<this, state, recvd>>
        /\ pc = "listed" /\ pc' = "dispatch"
    BY <1>5 DEF Insert
  <2>2. Once(waiting') /\ ToSet(waiting') = ToSet(waiting) \cup {this}
    BY <2>1, AppendOnce
  <2> QED
    BY <2>1, <2>2
<1>6. CASE Dispatch
  <2>1. Head(ready) \in Task /\ Head(ready) \in ToSet(ready)
    BY <1>6, TailOnce DEF Dispatch
  <2>2. state[Head(ready)] = "ready"
    BY <2>1 DEF ReadyList
  <2>3. \A t \in Task : state'[t] = IF t = Head(ready) THEN "run" ELSE state[t]
    BY <1>6 DEF Dispatch
  <2> QED
    BY <1>6, <2>1, <2>2, <2>3 DEF Dispatch, Once
<1>7. CASE SignalStep
  <2>1. PICK t \in Task : Handler(t) \/ Send(t)
    BY <1>7 DEF SignalStep
  <2>2. /\ Post(t) /\ this' = this /\ pc \notin {"checked", "listed"}
        /\ pc' \notin {"checked", "listed"}
    BY <2>1 DEF Handler, Send
  <2>3. CASE state[t] = "wait"
    <3>1. t \in ToSet(waiting)
      BY <2>2, <2>3
    <3>2. waiting' = Unlink(waiting, t) /\ recvd' = recvd \cup {t}
          /\ state' = [state EXCEPT ![t] = "ready"]
      BY <2>2, <2>3, <3>1 DEF Post
    <3>3. Once(waiting') /\ ToSet(waiting') = ToSet(waiting) \ {t}
      BY <3>1, <3>2, UnlinkOnce
    <3>4. \A u \in Task : state'[u] = IF u = t THEN "ready" ELSE state[u]
      BY <3>2
    <3> QED
      BY <2>2, <3>2, <3>3, <3>4
  <2>4. CASE state[t] # "wait"
    <3>1. t \notin ToSet(waiting) /\ recvd' = recvd \cup {t} /\ UNCHANGED <<state, waiting>>
      BY <2>2, <2>4 DEF Post
    <3> QED
      BY <2>2, <3>1 DEF Once
  <2> QED
    BY <2>3, <2>4
<1> QED
  BY <1>1, <1>2, <1>3, <1>4, <1>5, <1>6, <1>7 DEF Next, Cpu, SignalStep

-----------------------------------------------------------------------------
(* The theorems.                                                           *)

\* The invariant holds in every state, wherever in the voluntary switch handlers run.
THEOREM Inductive == ASSUME TaskAssumption PROVE Spec => []IInv
<1>1. Init => IInv
  BY InitInv
<1>2. IInv /\ [Next]_vars => IInv'
  BY InvStep
<1> QED
  BY <1>1, <1>2, PTL DEF Spec

\* Every variable stays within its type: the nesting kept for a task is one it can
\* have had (KeepNest), and no task is charged more than has passed.
THEOREM TypeCorrect == ASSUME TaskAssumption PROVE Spec => []TypeOK
<1>1. IInv => TypeOK
  BY DEF IInv
<1> QED
  BY <1>1, Inductive, PTL

\* The CPU never sleeps on STOP over a ready task.
THEOREM SleepsOnNothing == ASSUME TaskAssumption PROVE Spec => []NoSleepOverReady
<1>1. IInv => NoSleepOverReady
  BY DEF IInv, Sleep, NoSleepOverReady
<1> QED
  BY <1>1, Inductive, PTL

\* Every task runs with the interrupt nesting it left with.
THEOREM NestingIsKept == ASSUME TaskAssumption PROVE Spec => []NestIsOwn
<1>1. IInv => NestIsOwn
  BY DEF IInv, Nesting, NestIsOwn
<1> QED
  BY <1>1, Inductive, PTL

\* No task is charged less than it ran (emu68_CpuUsageDispatch).
THEOREM TicksAreCharged == ASSUME TaskAssumption PROVE Spec => []NoneUndercharged
<1>1. IInv => NoneUndercharged
  BY DEF IInv
<1> QED
  BY <1>1, Inductive, PTL

\* Where no handler runs in the voluntary switch, every task is on the list that its
\* state names, once, and none waits with its signal pending.
THEOREM NoSignalIsLost ==
  ASSUME TaskAssumption, Windows = {}
  PROVE  Spec => [](OnItsList /\ NoLostWakeup)
<1>1. Init => IInv /\ WaitList
  BY InitInv
<1>2. IInv /\ WaitList /\ [Next]_vars => IInv' /\ WaitList'
  <2>1. CASE Next
    BY <2>1, InvStep, WaitStep
  <2>2. CASE UNCHANGED vars
    BY <2>2, InvStep DEF WaitList, Once
  <2> QED
    BY <2>1, <2>2
<1>3. IInv /\ WaitList => OnItsList /\ NoLostWakeup
  BY DEF IInv, ReadyList, WaitList, OnItsList, NoLostWakeup
<1> QED
  BY <1>1, <1>2, <1>3, PTL DEF Spec
-----------------------------------------------------------------------------
(* The sum of what all tasks were charged.  Induction is over a set of     *)
(* numbers: a theorem about every predicate is out of the provers' reach,  *)
(* one about every set is not.                                             *)

\* A set of numbers that holds 0 and the successor of each of its members has them all.
LEMMA Counting ==
  ASSUME NEW G, 0 \in G, \A n \in Nat : n \in G => n + 1 \in G
  PROVE  Nat \subseteq G
<1> DEFINE T == Nat \ G
<1>1. ASSUME T # {} PROVE FALSE
  <2>1. PICK x \in T : \A y \in T : ~ (<<y, x>> \in OpToRel(<, Nat))
    <3> HIDE DEF T
    <3>1. T \subseteq Nat
      BY DEF T
    <3> QED
      BY <1>1, <3>1, NatLessThanWellFounded, WFMin
  <2>2. \A y \in T : ~(y < x)
    BY <2>1 DEF OpToRel
  <2>3. x # 0 /\ x - 1 \in Nat
    OBVIOUS
  <2>4. x - 1 \in G /\ (x - 1) + 1 = x
    BY <2>2, <2>3
  <2> QED
    BY <2>3, <2>4
<1> QED
  BY <1>1

Adds(f, g) == g = [S \in SUBSET Task |->
                     IF S = {} THEN 0 ELSE f[Some(S)] + g[S \ {Some(S)}]]
Summed(f, g, S) == g[S] = IF S = {} THEN 0 ELSE f[Some(S)] + g[S \ {Some(S)}]

LEMMA SumIs ==
  ASSUME NEW f, NEW g, Adds(f, g)
  PROVE  \E h : Adds(f, h) /\ Sum(f) = h[Task]
<1> DEFINE c == CHOOSE h : Adds(f, h)
<1>1. Adds(f, c)
  BY Zenon
<1>2. Sum(f) = c[Task]
  BY DEF Sum, Adds
<1> QED
  BY <1>1, <1>2

\* One task fewer.
LEMMA OneLess ==
  ASSUME IsFiniteSet(Task), NEW S \in SUBSET Task
  PROVE  /\ Cardinality(S) \in Nat /\ (Cardinality(S) = 0 <=> S = {})
         /\ S # {} => /\ Some(S) \in S /\ S \ {Some(S)} \in SUBSET Task
                      /\ Cardinality(S \ {Some(S)}) = Cardinality(S) - 1
<1>1. IsFiniteSet(S) /\ Cardinality(S) \in Nat
  BY FS_Subset, FS_CardinalityType
<1>2. S # {} => Some(S) \in S
  BY DEF Some
<1> QED
  BY <1>1, <1>2, FS_EmptySet, FS_RemoveElement

LEMMA Sizes ==
  ASSUME IsFiniteSet(Task)
  PROVE  \A S \in SUBSET Task : Cardinality(S) \in Nat /\ (Cardinality(S) <= 0 => S = {})
<1> SUFFICES ASSUME NEW S \in SUBSET Task
             PROVE  Cardinality(S) \in Nat /\ (Cardinality(S) <= 0 => S = {})
  OBVIOUS
<1>1. Cardinality(S) \in Nat /\ (Cardinality(S) = 0 <=> S = {})
  BY OneLess
<1> QED
  BY <1>1

\* A sum exists over all sets.
LEMMA SumExists ==
  ASSUME IsFiniteSet(Task), NEW f \in [Task -> Int]
  PROVE  \E g \in [SUBSET Task -> Int] : Adds(f, g)
<1> DEFINE Good(n, g) == \A S \in SUBSET Task : Cardinality(S) <= n => Summed(f, g, S)
           G == {n \in Nat : \E g \in [SUBSET Task -> Int] : Good(n, g)}
<1>1. 0 \in G
  <2> DEFINE g == [S \in SUBSET Task |-> 0]
  <2>1. g \in [SUBSET Task -> Int]
    OBVIOUS
  <2>2. Good(0, g)
    BY Sizes DEF Summed
  <2> QED
    BY <2>1, <2>2
<1>2. ASSUME NEW n \in Nat, n \in G PROVE n + 1 \in G
  <2>1. PICK g \in [SUBSET Task -> Int] : Good(n, g)
    BY <1>2
  <2> DEFINE h == [S \in SUBSET Task |->
                     IF S = {} THEN 0 ELSE f[Some(S)] + g[S \ {Some(S)}]]
  <2>2. ASSUME NEW S \in SUBSET Task
        PROVE  /\ h[S] \in Int
               /\ Cardinality(S) <= n => h[S] = g[S]
    <3>1. CASE S = {}
      BY <2>1, <3>1, Sizes DEF Summed
    <3>2. CASE S # {}
      <4>1. g[S \ {Some(S)}] \in Int /\ f[Some(S)] \in Int
        BY <2>1, <3>2, OneLess
      <4> QED
        BY <2>1, <3>2, <4>1 DEF Summed
    <3> QED
      BY <3>1, <3>2
  <2>3. h \in [SUBSET Task -> Int]
    BY <2>2
  <2>4. ASSUME NEW S \in SUBSET Task, Cardinality(S) <= n + 1 PROVE Summed(f, h, S)
    <3>1. CASE S = {}
      BY <3>1 DEF Summed
    <3>2. CASE S # {}
      <4>1. /\ S \ {Some(S)} \in SUBSET Task
            /\ Cardinality(S \ {Some(S)}) <= n
        BY <2>4, <3>2, OneLess
      <4>2. h[S \ {Some(S)}] = g[S \ {Some(S)}]
        BY <2>2, <4>1
      <4>3. h[S] = f[Some(S)] + g[S \ {Some(S)}]
        BY <3>2
      <4> HIDE DEF h
      <4> QED
        BY <3>2, <4>2, <4>3 DEF Summed
    <3> QED
      BY <3>1, <3>2
  <2> HIDE DEF h
  <2>5. Good(n + 1, h)
    BY <2>4
  <2> QED
    BY <2>3, <2>5
<1>3. Cardinality(Task) \in G
  <2> HIDE DEF G
  <2>1. Cardinality(Task) \in Nat
    BY FS_CardinalityType
  <2> QED
    BY <1>1, <1>2, <2>1, Counting
<1>4. PICK g \in [SUBSET Task -> Int] : Good(Cardinality(Task), g)
  BY <1>3
<1>5. \A S \in SUBSET Task : Cardinality(S) <= Cardinality(Task)
  BY FS_Subset
<1>6. \A S \in SUBSET Task : Summed(f, g, S)
  BY <1>4, <1>5
<1> QED
  BY <1>6 DEF Adds, Summed

\* Sums that differ in one place, or nowhere.
LEMMA SumOf ==
  ASSUME IsFiniteSet(Task), NEW f \in [Task -> Int]
  PROVE  \E g \in [SUBSET Task -> Int] :
            Sum(f) = g[Task] /\ \A S \in SUBSET Task : Summed(f, g, S)
<1>1. PICK g : Adds(f, g)
  BY SumExists
<1>2. PICK h : Adds(f, h) /\ Sum(f) = h[Task]
  BY <1>1, SumIs
<1>3. \A S \in SUBSET Task : Summed(f, h, S)
  BY <1>2 DEF Adds, Summed
<1> DEFINE G == {n \in Nat : \A S \in SUBSET Task : Cardinality(S) <= n => h[S] \in Int}
<1>4. 0 \in G
  <2>1. ASSUME NEW S \in SUBSET Task, Cardinality(S) <= 0 PROVE h[S] \in Int
    <3>1. S = {}
      BY <2>1, Sizes
    <3>2. Summed(f, h, S)
      BY <1>3
    <3>3. h[S] = 0
      BY <3>1, <3>2 DEF Summed
    <3> QED
      BY <3>3
  <2> QED
    BY <2>1
<1>5. ASSUME NEW n \in Nat, n \in G PROVE n + 1 \in G
  <2>1. ASSUME NEW S \in SUBSET Task, Cardinality(S) <= n + 1 PROVE h[S] \in Int
    <3>1. CASE S = {}
      BY <1>3, <3>1 DEF Summed
    <3>2. CASE S # {}
      <4>1. h[S \ {Some(S)}] \in Int /\ f[Some(S)] \in Int
        BY <1>5, <2>1, <3>2, OneLess
      <4> QED
        BY <1>3, <3>2, <4>1 DEF Summed
    <3> QED
      BY <3>1, <3>2
  <2> QED
    BY <2>1
<1>6. \A S \in SUBSET Task : h[S] \in Int
  <2>1. Nat \subseteq G
    <3> HIDE DEF G
    <3> QED
      BY <1>4, <1>5, Counting
  <2> QED
    BY <2>1, Sizes
<1>7. h \in [SUBSET Task -> Int]
  BY <1>2, <1>6 DEF Adds
<1> QED
  BY <1>2, <1>3, <1>7

LEMMA SumOfNothing ==
  ASSUME IsFiniteSet(Task)
  PROVE  Sum([t \in Task |-> 0]) = 0
<1> DEFINE f == [t \in Task |-> 0]
<1>0. f \in [Task -> Int]
  OBVIOUS
<1>1. PICK g \in [SUBSET Task -> Int] :
         Sum(f) = g[Task] /\ \A S \in SUBSET Task : Summed(f, g, S)
  BY <1>0, SumOf
<1> DEFINE G == {n \in Nat : \A S \in SUBSET Task : Cardinality(S) <= n => g[S] = 0}
<1>2. 0 \in G
  BY <1>1, Sizes DEF Summed
<1>3. ASSUME NEW n \in Nat, n \in G PROVE n + 1 \in G
  <2>1. ASSUME NEW S \in SUBSET Task, Cardinality(S) <= n + 1 PROVE g[S] = 0
    <3>1. CASE S = {}
      BY <1>1, <3>1 DEF Summed
    <3>2. CASE S # {}
      <4>1. g[S \ {Some(S)}] = 0 /\ f[Some(S)] = 0
        BY <1>3, <2>1, <3>2, OneLess
      <4> QED
        BY <1>1, <3>2, <4>1 DEF Summed
    <3> QED
      BY <3>1, <3>2
  <2> QED
    BY <2>1
<1>4. \A S \in SUBSET Task : g[S] = 0
  <2>1. Nat \subseteq G
    <3> HIDE DEF G
    <3> QED
      BY <1>2, <1>3, Counting
  <2> QED
    BY <2>1, Sizes
<1> QED
  BY <1>1, <1>4

LEMMA SumGrows ==
  ASSUME IsFiniteSet(Task), NEW f \in [Task -> Int], NEW t \in Task, NEW d \in Int
  PROVE  Sum([f EXCEPT ![t] = @ + d]) = Sum(f) + d
<1> DEFINE e == [f EXCEPT ![t] = @ + d]
<1>0. e \in [Task -> Int] /\ \A u \in Task : e[u] = IF u = t THEN f[u] + d ELSE f[u]
  OBVIOUS
<1> HIDE DEF e
<1>1. PICK g \in [SUBSET Task -> Int] :
         Sum(f) = g[Task] /\ \A S \in SUBSET Task : Summed(f, g, S)
  BY SumOf
<1>2. PICK h \in [SUBSET Task -> Int] :
         Sum(e) = h[Task] /\ \A S \in SUBSET Task : Summed(e, h, S)
  BY <1>0, SumOf
<1> DEFINE More(S) == h[S] = IF t \in S THEN g[S] + d ELSE g[S]
           G == {n \in Nat : \A S \in SUBSET Task : Cardinality(S) <= n => More(S)}
<1>3. 0 \in G
  BY <1>1, <1>2, Sizes DEF Summed
<1>4. ASSUME NEW n \in Nat, n \in G PROVE n + 1 \in G
  <2>1. ASSUME NEW S \in SUBSET Task, Cardinality(S) <= n + 1 PROVE More(S)
    <3>1. CASE S = {}
      BY <1>1, <1>2, <3>1 DEF Summed
    <3>2. CASE S # {}
      <4> DEFINE R == S \ {Some(S)}
      <4>1. /\ Some(S) \in S /\ Some(S) \in Task /\ R \in SUBSET Task
            /\ Cardinality(R) <= n
        BY <2>1, <3>2, OneLess
      <4>2. More(R)
        BY <1>4, <4>1
      <4>3. /\ g[S] = f[Some(S)] + g[R] /\ h[S] = e[Some(S)] + h[R]
            /\ g[R] \in Int /\ f[Some(S)] \in Int
        BY <1>1, <1>2, <3>2, <4>1 DEF Summed
      <4>4. CASE Some(S) = t
        BY <1>0, <4>1, <4>2, <4>3, <4>4
      <4>5. CASE Some(S) # t
        BY <1>0, <4>1, <4>2, <4>3, <4>5
      <4> QED
        BY <4>4, <4>5
    <3> QED
      BY <3>1, <3>2
  <2> QED
    BY <2>1
<1>5. \A S \in SUBSET Task : More(S)
  <2>1. Nat \subseteq G
    <3> HIDE DEF G
    <3> QED
      BY <1>3, <1>4, Counting
  <2> QED
    BY <2>1, Sizes
<1> QED
  BY <1>1, <1>2, <1>5 DEF e

LEMMA BillStep ==
  ASSUME TaskAssumption, IInv, [Next]_vars, Sum(busy) = stamp
  PROVE  Sum(busy') = stamp'
<1>1. CASE UNCHANGED <<busy, stamp>>
  BY <1>1
<1>2. CASE Dispatch
  <2>1. /\ busy' = [busy EXCEPT ![charged] = @ + (now - stamp)] /\ stamp' = now
        /\ busy \in [Task -> Int] /\ charged \in Task
        /\ now \in Int /\ stamp \in Int /\ now - stamp \in Int
    BY <1>2 DEF Dispatch, Account, IInv, TypeOK
  <2>2. Sum(busy') = stamp + (now - stamp)
    BY <2>1, SumGrows DEF TaskAssumption
  <2> QED
    BY <2>1, <2>2
<1>3. CASE UNCHANGED vars
  BY <1>1, <1>3 DEF vars, usage
<1> QED
  BY <1>1, <1>2, <1>3
     DEF Next, Cpu, Handler, Send, Disable, Enable, Take, Wait, Preempt, Recheck, Commit,
         Insert, Close, Empty, Stop, Tick, usage, switch

\* No tick is lost or charged twice, however many tasks there are: what all have been
\* charged adds up to the time of the last dispatch, and none was charged less than
\* it ran.
THEOREM NoTickIsLost == ASSUME TaskAssumption PROVE Spec => []EveryTickCharged
<1>1. Init => IInv /\ Sum(busy) = stamp
  <2> SUFFICES ASSUME Init PROVE IInv /\ Sum(busy) = stamp
    OBVIOUS
  <2>1. IInv
    BY InitInv
  <2>2. busy = [t \in Task |-> 0] /\ stamp = 0
    BY DEF Init
  <2> QED
    BY <2>1, <2>2, SumOfNothing DEF TaskAssumption
<1>2. IInv /\ Sum(busy) = stamp /\ [Next]_vars => IInv' /\ (Sum(busy) = stamp)'
  BY InvStep, BillStep
<1>3. IInv /\ Sum(busy) = stamp => EveryTickCharged
  BY DEF IInv, EveryTickCharged
<1> QED
  BY <1>1, <1>2, <1>3, PTL DEF Spec

\* All that the switch promises, where no handler runs in it.
THEOREM TasksAreKept ==
  ASSUME TaskAssumption, Windows = {}
  PROVE  Spec => []TasksKept
BY TypeCorrect, SleepsOnNothing, NestingIsKept, NoSignalIsLost, NoTickIsLost, PTL
   DEF TasksKept
=============================================================================
