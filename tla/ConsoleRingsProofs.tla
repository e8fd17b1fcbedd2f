------------------------- MODULE ConsoleRingsProofs -------------------------
(***************************************************************************)
(* The rings of the console keep ConsoleLog's promise, for any number of   *)
(* cores, any ring and any length of a line: each of their steps is a step *)
(* of ConsoleLog or none, where the queue of a core is what stands between *)
(* tail and head of its ring.                                              *)
(***************************************************************************)
EXTENDS ConsoleRings, SequenceTheorems, TLAPS

Assumptions == CoresAssumption /\ CharAssumption /\ SizeAssumption

-----------------------------------------------------------------------------
(* Places of a ring of n.                                                  *)

\* How far h is ahead of t.
LEMMA Distance ==
  ASSUME NEW n \in Nat \ {0}, NEW h \in Nat, h < n, NEW t \in Nat, t < n
  PROVE  /\ (h - t) % n = IF t <= h THEN h - t ELSE h - t + n
         /\ (h - t) % n \in Nat /\ (h - t) % n < n
         /\ (h - t) % n = 0 <=> h = t
OBVIOUS

\* The place k beyond t.
LEMMA Place ==
  ASSUME NEW n \in Nat \ {0}, NEW t \in Nat, t < n, NEW k \in Nat, k < n
  PROVE  /\ (t + k) % n = IF t + k < n THEN t + k ELSE t + k - n
         /\ (t + k) % n \in Nat /\ (t + k) % n < n
OBVIOUS

\* Less than one turn apart, different distances are different places.
LEMMA PlacesDiffer ==
  ASSUME NEW n \in Nat \ {0}, NEW t \in Nat, t < n,
         NEW i \in Nat, i < n, NEW j \in Nat, j < n, i # j
  PROVE  (t + i) % n # (t + j) % n
OBVIOUS

\* Distances add up while they stay short of one turn.
LEMMA Sum ==
  ASSUME NEW n \in Nat \ {0}, NEW h \in Nat, h < n, NEW t \in Nat, t < n,
         NEW q \in Nat, q < n,
         NEW u \in Nat, u = (h - t) % n, NEW k \in Nat, k = (q - h) % n, u + k < n
  PROVE  /\ (q - t) % n = u + k
         /\ q = (h + k) % n
         /\ q = (t + (u + k)) % n
<1>1. u = IF t <= h THEN h - t ELSE h - t + n
  BY Distance
<1>2. k = IF h <= q THEN q - h ELSE q - h + n
  BY Distance
<1>3. (q - t) % n = IF t <= q THEN q - t ELSE q - t + n
  BY Distance
<1>4. (h + k) % n = IF h + k < n THEN h + k ELSE h + k - n
  OBVIOUS
<1>5. (t + (u + k)) % n = IF t + (u + k) < n THEN t + (u + k) ELSE t + (u + k) - n
  OBVIOUS
<1> QED
  BY <1>1, <1>2, <1>3, <1>4, <1>5

\* The writer's step: one more is copied.
LEMMA Longer ==
  ASSUME NEW n \in Nat \ {0}, NEW h \in Nat, h < n, NEW q \in Nat, q < n,
         NEW k \in Nat, k = (q - h) % n, k + 1 < n
  PROVE  /\ (q + 1) % n \in Nat /\ (q + 1) % n < n
         /\ (((q + 1) % n) - h) % n = k + 1
<1>1. k = IF h <= q THEN q - h ELSE q - h + n
  BY Distance
<1>2. PICK w : w = (q + 1) % n
  OBVIOUS
<1>3. w = IF q + 1 < n THEN q + 1 ELSE q + 1 - n
  BY <1>2
<1>4. w \in Nat /\ w < n
  BY <1>3
<1>5. (w - h) % n = IF h <= w THEN w - h ELSE w - h + n
  BY <1>4, Distance
<1>6. (w - h) % n = k + 1
  BY <1>1, <1>3, <1>5
<1> QED
  BY <1>2, <1>4, <1>6

\* The reader's step: one less between, and what was second is first.
LEMMA Nearer ==
  ASSUME NEW n \in Nat \ {0}, NEW h \in Nat, h < n, NEW t \in Nat, t < n,
         NEW u \in Nat, u = (h - t) % n, u # 0,
         NEW w \in Nat, w = (t + 1) % n
  PROVE  /\ w < n
         /\ (h - w) % n = u - 1
         /\ \A i \in Nat : i + 1 < n => (w + i) % n = (t + (i + 1)) % n
<1>1. u = IF t <= h THEN h - t ELSE h - t + n
  BY Distance
<1>3. w = IF t + 1 < n THEN t + 1 ELSE t + 1 - n
  OBVIOUS
<1>4. w \in Nat /\ w < n
  BY <1>3
<1>5. (h - w) % n = IF w <= h THEN h - w ELSE h - w + n
  BY <1>4, Distance
<1>6. (h - w) % n = u - 1
  BY <1>1, <1>3, <1>5
<1>7. ASSUME NEW i \in Nat, i + 1 < n PROVE (w + i) % n = (t + (i + 1)) % n
  <2>1. (w + i) % n = IF w + i < n THEN w + i ELSE w + i - n
    BY <1>4, <1>7
  <2>2. (t + (i + 1)) % n = IF t + (i + 1) < n THEN t + (i + 1) ELSE t + (i + 1) - n
    BY <1>7
  <2> QED
    BY <1>3, <2>1, <2>2
<1> QED
  BY <1>4, <1>6, <1>7

-----------------------------------------------------------------------------
(* The rings' invariant.                                                   *)

\* The numbers of the slots.
LEMMA SlotIs ==
  ASSUME Assumptions
  PROVE  /\ RingSize \in Nat \ {0} /\ LineMax \in Nat \ {0}
         /\ \A s \in Slot : s \in Nat /\ s < RingSize
         /\ \A s \in Nat : s < RingSize => s \in Slot
         /\ 0 \in Slot /\ NoPos \notin Slot /\ NL \in Char
BY DEF Assumptions, SizeAssumption, CharAssumption, Slot, NoPos

\* What the types say of one core's ring.
LEMMA OneRing ==
  ASSUME Assumptions, TypeOK, NEW c \in Core
  PROVE  /\ RingSize \in Nat \ {0}
         /\ head[c] \in Nat /\ head[c] < RingSize /\ head[c] \in Slot
         /\ tail[c] \in Nat /\ tail[c] < RingSize /\ tail[c] \in Slot
         /\ Used(c) \in Nat /\ Used(c) < RingSize
         /\ pos[c] # NoPos => /\ pos[c] \in Nat /\ pos[c] < RingSize /\ pos[c] \in Slot
                              /\ Copied(c) \in Nat /\ Copied(c) < RingSize
         /\ line[c] \in Seq(Char) /\ Len(line[c]) \in Nat
<1>1. /\ RingSize \in Nat \ {0}
      /\ head[c] \in Nat /\ head[c] < RingSize /\ head[c] \in Slot
      /\ tail[c] \in Nat /\ tail[c] < RingSize /\ tail[c] \in Slot
      /\ line[c] \in Seq(Char) /\ Len(line[c]) \in Nat
  BY SlotIs DEF TypeOK
<1>2. Used(c) \in Nat /\ Used(c) < RingSize
  BY <1>1, Distance DEF Used
<1>3. ASSUME pos[c] # NoPos
      PROVE  /\ pos[c] \in Nat /\ pos[c] < RingSize /\ pos[c] \in Slot
             /\ Copied(c) \in Nat /\ Copied(c) < RingSize
  <2>1. pos[c] \in Nat /\ pos[c] < RingSize /\ pos[c] \in Slot
    BY <1>3, SlotIs DEF TypeOK
  <2> QED
    BY <1>1, <2>1, Distance DEF Copied
<1> QED
  BY <1>1, <1>2, <1>3

\* The ring the drainer looks at is a core's.
LEMMA LookedIsCore ==
  ASSUME Assumptions, TypeOK
  PROVE  Looked \in Core /\ (scanned + 1) % Cores \in Core
<1>1. /\ Cores \in Nat \ {0}
      /\ next_core \in Nat /\ scanned \in Nat
  BY DEF Assumptions, CoresAssumption, TypeOK, Core
<1>2. (next_core + scanned) % Cores \in Core /\ (scanned + 1) % Cores \in Core
  BY <1>1 DEF Core
<1> QED
  BY <1>2 DEF Looked

LEMMA InitInv ==
  ASSUME Assumptions, Init
  PROVE  IInv
<1>1. 0 \in Core /\ 0 \in Slot /\ NL \in Char /\ LineMax \in Nat
  BY SlotIs DEF Assumptions, CoresAssumption, Core
<1>2. TypeOK
  <2>1. /\ line \in [Core -> Seq(Char)] /\ \A c \in Core : Len(line[c]) = 0
    BY DEF Init
  <2>2. data \in [Core -> [Slot -> Char]]
    BY <1>1 DEF Init
  <2> QED
    BY <1>1, <2>1, <2>2 DEF Init, TypeOK
<1>3. Copying
  BY DEF Init, Copying
<1> QED
  BY <1>2, <1>3 DEF IInv

LEMMA TypeStep ==
  ASSUME Assumptions, IInv, Next
  PROVE  TypeOK'
<1> USE DEF IInv, TypeOK
<1>1. CASE ConsoleInit
  BY <1>1 DEF ConsoleInit, ringVars, drainVars
<1>2. ASSUME NEW c \in Core, NEW ch \in Char, Putc(c, ch) PROVE TypeOK'
  <2>1. /\ Append(line[c], ch) \in Seq(Char)
        /\ Len(Append(line[c], ch)) = Len(line[c]) + 1
    BY AppendProperties
  <2>2. Len(line[c]) # LineMax
    <3>1. CASE line[c] = <<>>
      BY <3>1, SlotIs
    <3>2. CASE line[c] # <<>>
      BY <1>2, <3>2 DEF Putc, Complete
    <3> QED
      BY <3>1, <3>2
  <2>3. Len(line[c]) + 1 <= LineMax
    BY <2>2, SlotIs
  <2>4. line' \in [Core -> Seq(Char)]
    BY <1>2, <2>1 DEF Putc
  <2>5. \A d \in Core : line'[d] = IF d = c THEN Append(line[c], ch) ELSE line[d]
    BY <1>2 DEF Putc
  <2>6. \A d \in Core : Len(line'[d]) <= LineMax
    BY <2>1, <2>3, <2>5
  <2> QED
    BY <1>2, <2>4, <2>6 DEF Putc, ringVars, drainVars
<1>3. ASSUME NEW c \in Core, Room(c) PROVE TypeOK'
  BY <1>3 DEF Room, ringVars, drainVars
<1>4. ASSUME NEW c \in Core, line' = [line EXCEPT ![c] = <<>>]
      PROVE  line' \in [Core -> Seq(Char)] /\ \A d \in Core : Len(line'[d]) <= LineMax
  <2>1. \A d \in Core : line'[d] = line[d] \/ (line'[d] = <<>> /\ Len(line'[d]) = 0)
    BY <1>4
  <2>2. \A d \in Core : Len(line'[d]) <= LineMax
    BY <2>1, SlotIs
  <2> QED
    BY <1>4, <2>2
<1>5. ASSUME NEW c \in Core, Drop(c) PROVE TypeOK'
  BY <1>4, <1>5 DEF Drop, ringVars, drainVars
<1>6. ASSUME NEW c \in Core, Copy(c) PROVE TypeOK'
  <2>1. /\ pos[c] \in Slot /\ Copied(c) \in Nat
        /\ line[c][Copied(c) + 1] \in Char
    <3>1. pos[c] # NoPos /\ Copied(c) < Len(line[c])
      BY <1>6 DEF Copy
    <3>2. pos[c] \in Slot /\ Copied(c) \in Nat /\ line[c] \in Seq(Char) /\ Len(line[c]) \in Nat
      BY <3>1, OneRing
    <3>3. Copied(c) + 1 \in 1..Len(line[c])
      BY <3>1, <3>2
    <3> QED
      BY <3>2, <3>3
  <2>2. data' \in [Core -> [Slot -> Char]]
    BY <1>6, <2>1 DEF Copy
  <2>3. (pos[c] + 1) % RingSize \in Slot
    BY <2>1, SlotIs
  <2>4. pos' \in [Core -> Slot \cup {NoPos}]
    BY <1>6, <2>3 DEF Copy
  <2> QED
    BY <1>6, <2>2, <2>4 DEF Copy, drainVars
<1>7. ASSUME NEW c \in Core, Publish(c) PROVE TypeOK'
  <2>1. pos[c] \in Slot
    BY <1>7 DEF Publish
  <2>2. head' \in [Core -> Slot] /\ pos' \in [Core -> Slot \cup {NoPos}]
    BY <1>7, <2>1 DEF Publish
  <2> QED
    BY <1>4, <1>7, <2>2 DEF Publish, drainVars
<1>8. CASE Pass
  BY <1>8, LookedIsCore DEF Pass, ringVars
<1>9. CASE Send
  <2> DEFINE l == Looked
  <2>1. l \in Core /\ 0 \in Core /\ tail[l] \in Slot /\ data[l][tail[l]] \in Char
    BY LookedIsCore DEF Assumptions, CoresAssumption, Core
  <2>2. (tail[l] + 1) % RingSize \in Slot
    BY <2>1, SlotIs
  <2>3. tail' \in [Core -> Slot]
    BY <1>9, <2>1, <2>2 DEF Send
  <2>4. Turn(l, data[l][tail[l]]) \in Core
    <3>1. (l + 1) % Cores \in Core
      BY <2>1 DEF Assumptions, CoresAssumption, Core
    <3> QED
      BY <3>1 DEF Turn
  <2>5. wire' \in Core \X Char /\ next_core' \in Core /\ scanned' \in Core
    BY <1>9, <2>1, <2>4 DEF Send
  <2> QED
    BY <1>9, <2>3, <2>5 DEF Send
<1> QED
  BY <1>1, <1>2, <1>3, <1>5, <1>6, <1>7, <1>8, <1>9 DEF Next, Drain

LEMMA CopyingStep ==
  ASSUME Assumptions, IInv, Next
  PROVE  Copying'
<1> USE DEF IInv
<1> SUFFICES ASSUME NEW c \in Core, pos'[c] # NoPos
             PROVE  /\ Complete(line'[c])
                    /\ Copied(c)' <= Len(line'[c])
                    /\ Used(c)' + Len(line'[c]) <= RingSize - 1
                    /\ \A i \in 1..Copied(c)' :
                         data'[c][(head'[c] + (i - 1)) % RingSize] = line'[c][i]
  BY DEF Copying
<1> DEFINE Goal == /\ Complete(line'[c])
                   /\ Copied(c)' <= Len(line'[c])
                   /\ Used(c)' + Len(line'[c]) <= RingSize - 1
                   /\ \A i \in 1..Copied(c)' :
                        data'[c][(head'[c] + (i - 1)) % RingSize] = line'[c][i]
<1>h. ASSUME pos[c] # NoPos
      PROVE  /\ Complete(line[c])
             /\ Copied(c) <= Len(line[c]) /\ Used(c) + Len(line[c]) <= RingSize - 1
             /\ \A i \in 1..Copied(c) :
                  data[c][(head[c] + (i - 1)) % RingSize] = line[c][i]
  BY <1>h DEF Copying
\* Nothing of this core's ring or piece moved.
<1>s. ASSUME pos'[c] = pos[c], line'[c] = line[c], head'[c] = head[c],
             tail'[c] = tail[c], data'[c] = data[c]
      PROVE  Goal
  BY <1>h, <1>s DEF Copied, Used
<1>1. CASE ConsoleInit \/ Pass
  BY <1>1, <1>s DEF ConsoleInit, Pass, ringVars
<1>2. ASSUME NEW d \in Core, NEW ch \in Char, Putc(d, ch) PROVE Goal
  <2>1. pos[c] # NoPos /\ c # d
    BY <1>2, <1>h DEF Putc
  <2> QED
    BY <1>2, <1>s, <2>1 DEF Putc, ringVars, TypeOK
<1>3. ASSUME NEW d \in Core, Room(d) PROVE Goal
  <2>1. CASE c = d
    <3>1. /\ pos'[c] = head[c] /\ Complete(line[c]) /\ ~NoRoom(c)
          /\ UNCHANGED <<line, head, tail, data>>
      BY <1>3, <2>1 DEF Room, ringVars, TypeOK
    <3>2. Copied(c)' = 0
      BY <3>1, OneRing, Distance DEF Copied
    <3>3. Used(c)' = Used(c) /\ Used(c) + Len(line[c]) <= RingSize - 1
      BY <3>1, OneRing DEF NoRoom, Used
    <3>4. Len(line[c]) \in Nat
      BY OneRing
    <3> QED
      BY <3>1, <3>2, <3>3, <3>4
  <2>2. CASE c # d
    BY <1>3, <1>s, <2>2 DEF Room, ringVars, TypeOK
  <2> QED
    BY <2>1, <2>2
<1>4. ASSUME NEW d \in Core, Drop(d) PROVE Goal
  <2>1. c # d
    BY <1>4 DEF Drop
  <2> QED
    BY <1>4, <1>s, <2>1 DEF Drop, ringVars, TypeOK
<1>5. ASSUME NEW d \in Core, Copy(d) PROVE Goal
  <2>1. CASE c = d
    <3> DEFINE n == RingSize
               k == Copied(c)
               p == pos[c]
               h == head[c]
    <3>1. /\ p # NoPos /\ k < Len(line[c])
          /\ data' = [data EXCEPT ![c][p] = line[c][k + 1]]
          /\ pos'[c] = (p + 1) % n
          /\ UNCHANGED <<line, head, tail>>
      BY <1>5, <2>1 DEF Copy, TypeOK
    <3>2. /\ n \in Nat \ {0} /\ h \in Nat /\ h < n /\ p \in Nat /\ p < n /\ p \in Slot
          /\ k \in Nat /\ k < n /\ k = (p - h) % n
          /\ Used(c) \in Nat /\ Len(line[c]) \in Nat
      BY <3>1, OneRing DEF Copied
    <3>3. Used(c)' = Used(c) /\ Used(c) + Len(line[c]) <= n - 1
      BY <1>h, <3>1 DEF Used
    <3>4. k + 1 < n
      <4> HIDE DEF k, p, n, h
      <4> QED
        BY <3>1, <3>2, <3>3
    <3>5. Copied(c)' = k + 1
      <4>1. (((p + 1) % n) - h) % n = k + 1
        <5> HIDE DEF k, p, n, h
        <5> QED
          BY <3>2, <3>4, Longer
      <4> QED
        BY <3>1, <4>1 DEF Copied
    <3>6. p = (h + k) % n
      <4> HIDE DEF k, p, n, h
      <4>1. (h - h) % n = 0
        BY <3>2
      <4> QED
        BY <3>2, <4>1, Sum
    <3>7. \A s \in Slot : data'[c][s] = IF s = p THEN line[c][k + 1] ELSE data[c][s]
      <4>1. data[c] \in [Slot -> Char] /\ data \in [Core -> [Slot -> Char]]
        BY DEF TypeOK
      <4> QED
        BY <3>1, <3>2, <4>1
    <3>8. ASSUME NEW i \in 1..(k + 1)
          PROVE  data'[c][(h + (i - 1)) % n] = line[c][i]
      <4> DEFINE s == (h + (i - 1)) % n
      <4>1. i - 1 \in Nat /\ i - 1 <= k /\ i - 1 < n
        BY <3>2, <3>4
      <4>2. s \in Nat /\ s < n
        BY <3>2, <4>1
      <4>3. s \in Slot
        BY <4>2, SlotIs
      <4>4. CASE i = k + 1
        <5>1. i - 1 = k
          BY <3>2, <4>4
        <5>2. s = p
          BY <3>6, <5>1
        <5> QED
          BY <3>7, <4>3, <4>4, <5>2
      <4>5. CASE i # k + 1
        <5>1. i - 1 # k /\ i \in 1..k
          BY <3>2, <4>5
        <5>2. s # p
          <6> DEFINE j == i - 1
          <6>1. j \in Nat /\ j < n /\ j # k
            BY <4>1, <5>1
          <6> HIDE DEF j, k, p, n, h
          <6>2. (h + j) % n # (h + k) % n
            BY <3>2, <6>1, PlacesDiffer
          <6> QED
            BY <3>6, <6>2 DEF j
        <5> HIDE DEF s
        <5>3. data'[c][s] = data[c][s]
          BY <3>7, <4>3, <5>2
        <5>4. data[c][s] = line[c][i]
          BY <1>h, <3>1, <5>1 DEF s
        <5> QED
          BY <5>3, <5>4 DEF s
      <4> QED
        BY <4>4, <4>5
    <3>9. k + 1 <= Len(line[c]) /\ Complete(line[c])
      BY <1>h, <3>1, <3>2
    <3> HIDE DEF n, k, h
    <3>10. \A i \in 1..(k + 1) : data'[c][(h + (i - 1)) % n] = line[c][i]
      BY <3>8
    <3> QED
      BY <3>1, <3>3, <3>5, <3>9, <3>10 DEF n, h
  <2>2. CASE c # d
    <3>1. data'[c] = data[c]
      BY <1>5, <2>2 DEF Copy, TypeOK
    <3> QED
      BY <1>5, <1>s, <2>2, <3>1 DEF Copy, TypeOK
  <2> QED
    BY <2>1, <2>2
<1>6. ASSUME NEW d \in Core, Publish(d) PROVE Goal
  <2>1. c # d
    BY <1>6 DEF Publish, TypeOK
  <2> QED
    BY <1>6, <1>s, <2>1 DEF Publish, TypeOK
<1>7. CASE Send
  <2>1. /\ tail' = [tail EXCEPT ![Looked] = (tail[Looked] + 1) % RingSize]
        /\ tail[Looked] # head[Looked]
        /\ UNCHANGED <<line, head, data, pos>>
    BY <1>7 DEF Send
  <2>2. CASE c # Looked
    BY <1>s, <2>1, <2>2 DEF TypeOK
  <2>3. CASE c = Looked
    <3>1. tail'[c] = (tail[c] + 1) % RingSize
      BY <2>1, <2>3 DEF TypeOK
    <3>2. /\ RingSize \in Nat \ {0}
          /\ head[c] \in Nat /\ head[c] < RingSize
          /\ tail[c] \in Nat /\ tail[c] < RingSize
          /\ Used(c) \in Nat /\ Used(c) = (head[c] - tail[c]) % RingSize
      BY OneRing DEF Used
    <3>3. Used(c) # 0
      BY <2>1, <2>3, <3>2, Distance
    <3>4. Used(c)' = Used(c) - 1
      <4> DEFINE w == tail'[c]
                 t == tail[c]
                 h == head[c]
                 u == Used(c)
                 n == RingSize
      <4>0. /\ w \in Nat /\ w = (t + 1) % n
            /\ n \in Nat \ {0} /\ h \in Nat /\ h < n /\ t \in Nat /\ t < n
            /\ u \in Nat /\ u = (h - t) % n /\ u # 0
        BY <3>1, <3>2, <3>3
      <4>1. (h - w) % n = u - 1
        <5> HIDE DEF w, t, h, u, n
        <5> QED
          BY <4>0, Nearer
      <4> QED
        BY <2>1, <4>1 DEF Used
    <3>5. Copied(c)' = Copied(c)
      BY <2>1 DEF Copied
    <3>6. Len(line[c]) \in Nat
      BY OneRing
    <3> QED
      BY <1>h, <2>1, <3>2, <3>4, <3>5, <3>6
  <2> QED
    BY <2>2, <2>3
<1> QED
  BY <1>1, <1>2, <1>3, <1>4, <1>5, <1>6, <1>7 DEF Next, Drain

-----------------------------------------------------------------------------
(* Each step is a step of ConsoleLog.                                      *)

\* What a ring holds.
LEMMA HeldIs ==
  ASSUME Assumptions, NEW f \in [Slot -> Char], NEW t \in Nat, t < RingSize,
         NEW u \in Nat
  PROVE  \A i \in 1..u : f[(t + (i - 1)) % RingSize] \in Char
<1> SUFFICES ASSUME NEW i \in 1..u PROVE f[(t + (i - 1)) % RingSize] \in Char
  OBVIOUS
<1>1. RingSize \in Nat \ {0}
  BY SlotIs
<1>2. (t + (i - 1)) % RingSize \in Nat /\ (t + (i - 1)) % RingSize < RingSize
  BY <1>1
<1>3. (t + (i - 1)) % RingSize \in Slot
  BY <1>2, SlotIs
<1> QED
  BY <1>3

\* The queue of a core, before a step and after it.
LEMMA QueueIs ==
  ASSUME Assumptions, TypeOK, NEW c \in Core
  PROVE  /\ Queue(c) \in Seq(Char) /\ Len(Queue(c)) = Used(c)
         /\ \A i \in 1..Used(c) :
              Queue(c)[i] = data[c][(tail[c] + (i - 1)) % RingSize]
<1> DEFINE q == Queue(c)
           u == Used(c)
           t == tail[c]
           f == data[c]
<1>1. /\ f \in [Slot -> Char] /\ t \in Nat /\ t < RingSize /\ u \in Nat /\ u < RingSize
      /\ q = [i \in 1..u |-> f[(t + (i - 1)) % RingSize]]
  BY OneRing DEF TypeOK, Queue
<1>2. /\ q \in Seq(Char) /\ Len(q) = u
      /\ \A i \in 1..u : q[i] = f[(t + (i - 1)) % RingSize]
  <2> HIDE DEF q, u, t, f
  <2>1. \A i \in 1..u : f[(t + (i - 1)) % RingSize] \in Char
    BY <1>1, HeldIs
  <2>2. q \in [1..u -> Char]
    BY <1>1, <2>1
  <2>3. q \in Seq(Char) /\ Len(q) = u
    BY <1>1, <2>2
  <2> QED
    BY <1>1, <2>3
<1> QED
  BY <1>2

LEMMA QueueNext ==
  ASSUME Assumptions, TypeOK', NEW c \in Core
  PROVE  /\ Queue(c)' \in Seq(Char) /\ Len(Queue(c)') = Used(c)'
         /\ \A i \in 1..Used(c)' :
              Queue(c)'[i] = data'[c][(tail'[c] + (i - 1)) % RingSize]
<1> DEFINE q == Queue(c)'
           u == Used(c)'
           t == tail'[c]
           h == head'[c]
           f == data'[c]
<1>1. /\ f \in [Slot -> Char] /\ t \in Slot /\ h \in Slot
      /\ u = (h - t) % RingSize
      /\ q = [i \in 1..u |-> f[(t + (i - 1)) % RingSize]]
  BY DEF TypeOK, Queue, Used
<1>2. /\ q \in Seq(Char) /\ Len(q) = u
      /\ \A i \in 1..u : q[i] = f[(t + (i - 1)) % RingSize]
  <2> HIDE DEF q, u, t, h, f
  <2>1. /\ t \in Nat /\ t < RingSize /\ h \in Nat /\ h < RingSize
        /\ RingSize \in Nat \ {0}
    BY <1>1, SlotIs
  <2>2. u \in Nat /\ u < RingSize
    BY <1>1, <2>1, Distance
  <2>3. \A i \in 1..u : f[(t + (i - 1)) % RingSize] \in Char
    BY <1>1, <2>1, <2>2, HeldIs
  <2>4. q \in [1..u -> Char]
    BY <1>1, <2>3
  <2>5. q \in Seq(Char) /\ Len(q) = u
    BY <2>2, <2>4
  <2> QED
    BY <1>1, <2>5
<1> QED
  BY <1>2

\* A core whose ring is left alone keeps its queue.
LEMMA SameQueue ==
  ASSUME NEW c \in Core, head'[c] = head[c], tail'[c] = tail[c], data'[c] = data[c]
  PROVE  Queue(c)' = Queue(c)
BY DEF Queue, Used

\* A byte that is copied lands outside the queue.
LEMMA CopyKeepsQueue ==
  ASSUME Assumptions, IInv, NEW c \in Core, Copy(c)
  PROVE  Queue(c)' = Queue(c)
<1> DEFINE n == RingSize
           k == Copied(c)
           p == pos[c]
           h == head[c]
           t == tail[c]
           u == Used(c)
           l == Len(line[c])
<1>1. /\ n \in Nat \ {0} /\ h \in Nat /\ h < n /\ t \in Nat /\ t < n
      /\ p \in Nat /\ p < n /\ p \in Slot
      /\ k \in Nat /\ k = (p - h) % n /\ u \in Nat /\ u = (h - t) % n
      /\ k < l /\ u + l <= n - 1 /\ l \in Nat
  BY OneRing DEF Copy, IInv, Copying, Copied, Used
<1>2. /\ data' = [data EXCEPT ![c][p] = line[c][k + 1]]
      /\ UNCHANGED <<head, tail>>
  BY DEF Copy
<1>3. p = (t + (u + k)) % n /\ u + k < n
  <2> HIDE DEF n, k, p, h, t, u, l
  <2>1. u + k < n
    BY <1>1
  <2>2. /\ n \in Nat \ {0} /\ h \in Nat /\ h < n /\ t \in Nat /\ t < n
        /\ p \in Nat /\ p < n
        /\ k \in Nat /\ k = (p - h) % n /\ u \in Nat /\ u = (h - t) % n
    BY <1>1
  <2> QED
    BY <2>1, <2>2, Sum
<1>4. ASSUME NEW i \in 1..u
      PROVE  data'[c][(t + (i - 1)) % n] = data[c][(t + (i - 1)) % n]
  <2> DEFINE j == i - 1
             s == (t + j) % n
  <2>1. j \in Nat /\ j < u
    BY <1>1
  <2>2. s # p /\ s \in Nat /\ s < n
    <3> HIDE DEF n, k, p, h, t, u, l, j
    <3>1. j < n /\ u + k \in Nat /\ j # u + k
      BY <1>1, <1>3, <2>1
    <3>2. s # (t + (u + k)) % n
      BY <1>1, <1>3, <2>1, <3>1, PlacesDiffer
    <3>3. s \in Nat /\ s < n
      BY <1>1, <2>1, <3>1, Place
    <3> QED
      BY <1>3, <3>2, <3>3
  <2>3. s \in Slot
    BY <2>2, SlotIs
  <2>4. data[c] \in [Slot -> Char] /\ data \in [Core -> [Slot -> Char]]
    BY DEF IInv, TypeOK
  <2> HIDE DEF s, p
  <2>5. data'[c][s] = data[c][s]
    BY <1>2, <2>2, <2>3, <2>4
  <2> QED
    BY <2>5 DEF s
<1>5. Used(c)' = u /\ tail'[c] = t
  BY <1>2 DEF Used
<1> HIDE DEF n, k, p, h, l
<1>6. [i \in 1..u |-> data'[c][(t + (i - 1)) % n]] = [i \in 1..u |-> data[c][(t + (i - 1)) % n]]
  BY <1>4
<1> QED
  BY <1>5, <1>6 DEF Queue, n

\* What is published joins the end of the queue.
LEMMA PublishJoins ==
  ASSUME Assumptions, IInv, TypeOK', NEW c \in Core, Publish(c)
  PROVE  Queue(c)' = Queue(c) \o line[c]
<1> DEFINE n == RingSize
           k == Copied(c)
           p == pos[c]
           h == head[c]
           t == tail[c]
           u == Used(c)
           f == data[c]
           l == line[c]
           q == Queue(c)
           r == Queue(c)'
<1>1. /\ p # NoPos /\ k = Len(l) /\ head'[c] = p
      /\ tail' = tail /\ data' = data
  BY DEF Publish, IInv, TypeOK
<1>2. /\ n \in Nat \ {0} /\ h \in Nat /\ h < n /\ t \in Nat /\ t < n
      /\ p \in Nat /\ p < n
      /\ k \in Nat /\ k = (p - h) % n /\ u \in Nat /\ u = (h - t) % n
      /\ l \in Seq(Char) /\ Len(l) \in Nat
  BY <1>1, OneRing DEF IInv, Copied, Used
<1>3. /\ u + k < n
      /\ \A i \in 1..k : f[(h + (i - 1)) % n] = l[i]
  <2>1. /\ u + Len(l) <= n - 1
        /\ \A i \in 1..k : f[(h + (i - 1)) % n] = l[i]
    BY <1>1 DEF IInv, Copying
  <2> HIDE DEF n, k, p, h, t, u, f, l, q, r
  <2>2. u + k <= n - 1
    BY <1>1, <2>1
  <2>3. u + k < n
    BY <1>2, <2>2
  <2> QED
    BY <2>1, <2>3
<1>4. (p - t) % n = u + k
  <2> HIDE DEF n, k, p, h, t, u, f, l, q, r
  <2>1. /\ n \in Nat \ {0} /\ h \in Nat /\ h < n /\ t \in Nat /\ t < n
        /\ p \in Nat /\ p < n
        /\ k \in Nat /\ k = (p - h) % n /\ u \in Nat /\ u = (h - t) % n
    BY <1>2
  <2>2. u + k < n
    BY <1>3
  <2> QED
    BY <2>1, <2>2, Sum
<1>5. Used(c)' = u + k
  BY <1>1, <1>4 DEF Used
<1>6. /\ q \in Seq(Char) /\ Len(q) = u
      /\ \A i \in 1..u : q[i] = f[(t + (i - 1)) % n]
  BY QueueIs DEF IInv
<1>7. /\ r \in Seq(Char) /\ Len(r) = u + k
      /\ \A i \in 1..(u + k) : r[i] = f[(t + (i - 1)) % n]
  BY <1>1, <1>5, QueueNext
<1> HIDE DEF n, k, p, h, t, u, f, l, q, r
<1>8. /\ q \o l \in Seq(Char) /\ Len(q \o l) = u + k
      /\ \A i \in 1..(u + k) :
           (q \o l)[i] = IF i <= u THEN q[i] ELSE l[i - u]
  <2>1. /\ l \in Seq(Char) /\ Len(l) = k /\ q \in Seq(Char) /\ Len(q) = u
    BY <1>1, <1>2, <1>6
  <2>2. /\ q \o l \in Seq(Char) /\ Len(q \o l) = Len(q) + Len(l)
        /\ \A i \in 1..(Len(q) + Len(l)) :
             (q \o l)[i] = IF i <= Len(q) THEN q[i] ELSE l[i - Len(q)]
    BY <2>1, ConcatProperties
  <2> QED
    BY <2>1, <2>2
<1>9. ASSUME NEW m \in Nat, NEW w \in Nat, w = u + m, w < n
      PROVE  (h + m) % n = (t + w) % n
  <2>1. /\ n \in Nat \ {0} /\ h \in Nat /\ h < n /\ t \in Nat /\ t < n
        /\ u \in Nat /\ u = (h - t) % n
    BY <1>2
  <2>2. u = IF t <= h THEN h - t ELSE h - t + n
    BY <2>1, Distance
  <2>3. (h + m) % n = IF h + m < n THEN h + m ELSE h + m - n
    BY <1>9, <2>1
  <2>4. (t + w) % n = IF t + w < n THEN t + w ELSE t + w - n
    BY <1>9, <2>1
  <2> QED
    BY <1>9, <2>1, <2>2, <2>3, <2>4
<1>10. ASSUME NEW i \in 1..(u + k) PROVE r[i] = (q \o l)[i]
  <2>1. CASE i <= u
    <3>1. i \in 1..u
      BY <1>2, <2>1
    <3> QED
      BY <1>6, <1>7, <1>8, <2>1, <3>1
  <2>2. CASE ~(i <= u)
    <3> DEFINE j == i - u
               m == j - 1
    <3>1. j \in 1..k /\ m \in Nat /\ i - 1 \in Nat /\ i - 1 < n /\ i - 1 = u + m
      BY <1>2, <1>3, <2>2
    <3>2. l[j] = f[(h + m) % n]
      BY <1>3, <3>1
    <3>3. r[i] = f[(t + (i - 1)) % n]
      BY <1>7
    <3> HIDE DEF m
    <3>4. (h + m) % n = (t + (i - 1)) % n
      BY <1>9, <3>1
    <3> QED
      BY <1>8, <2>2, <3>2, <3>3, <3>4
  <2> QED
    BY <2>1, <2>2
<1>11. r = q \o l
  BY <1>7, <1>8, <1>10, SeqEqual
<1> QED
  BY <1>11 DEF r, q, l

\* What is sent leaves the front of the queue.
LEMMA SendLeaves ==
  ASSUME Assumptions, IInv, TypeOK', NEW c \in Core, c = Looked, Send
  PROVE  /\ Queue(c) # <<>>
         /\ Queue(c)' = Tail(Queue(c))
         /\ wire' = <<c, Head(Queue(c))>>
<1> DEFINE n == RingSize
           h == head[c]
           t == tail[c]
           w == tail'[c]
           u == Used(c)
           f == data[c]
           q == Queue(c)
           r == Queue(c)'
<1>1. /\ t # h /\ w = (t + 1) % n /\ head' = head /\ data' = data
      /\ wire' = <<c, f[t]>>
  BY DEF Send, IInv, TypeOK
<1>2. /\ n \in Nat \ {0} /\ h \in Nat /\ h < n /\ t \in Nat /\ t < n
      /\ u \in Nat /\ u < n /\ u = (h - t) % n
  BY OneRing DEF IInv, Used
<1>3. w \in Nat
  BY <1>1, <1>2
<1>4. u # 0
  <2> HIDE DEF n, h, t, w, u, f, q, r
  <2> QED
    BY <1>1, <1>2, Distance
<1>5. /\ (h - w) % n = u - 1
      /\ \A i \in Nat : i + 1 < n => (w + i) % n = (t + (i + 1)) % n
  <2> HIDE DEF n, h, t, w, u, f, q, r
  <2>1. /\ n \in Nat \ {0} /\ h \in Nat /\ h < n /\ t \in Nat /\ t < n
        /\ u \in Nat /\ u = (h - t) % n /\ u # 0
        /\ w \in Nat /\ w = (t + 1) % n
    BY <1>1, <1>2, <1>3, <1>4
  <2> QED
    BY <2>1, Nearer
<1>6. Used(c)' = u - 1
  BY <1>1, <1>5 DEF Used
<1>7. /\ q \in Seq(Char) /\ Len(q) = u
      /\ \A i \in 1..u : q[i] = f[(t + (i - 1)) % n]
  BY QueueIs DEF IInv
<1>8. /\ r \in Seq(Char) /\ Len(r) = u - 1
      /\ \A i \in 1..(u - 1) : r[i] = f[(w + (i - 1)) % n]
  BY <1>1, <1>6, QueueNext
<1> HIDE DEF n, h, t, w, u, f, q, r
<1>9. q # <<>>
  BY <1>4, <1>7
<1>10. Head(q) = f[t]
  <2>1. 1 \in 1..u /\ (t + (1 - 1)) % n = t
    BY <1>2, <1>4
  <2> QED
    BY <1>7, <1>9, <2>1
<1>11. /\ Tail(q) \in Seq(Char) /\ Len(Tail(q)) = u - 1
       /\ \A i \in 1..(u - 1) : Tail(q)[i] = q[i + 1]
  BY <1>7, <1>9, HeadTailProperties
<1>12. ASSUME NEW i \in 1..(u - 1) PROVE r[i] = Tail(q)[i]
  <2> DEFINE j == i - 1
  <2>1. /\ j \in Nat /\ j + 1 < n /\ i + 1 \in 1..u /\ (i + 1) - 1 = j + 1
    BY <1>2
  <2>2. r[i] = f[(w + j) % n] /\ Tail(q)[i] = q[i + 1]
    BY <1>8, <1>11
  <2>3. q[i + 1] = f[(t + (j + 1)) % n]
    BY <1>7, <2>1
  <2> HIDE DEF j
  <2> QED
    BY <1>5, <2>1, <2>2, <2>3
<1>13. r = Tail(q)
  BY <1>8, <1>11, <1>12, SeqEqual
<1> QED
  BY <1>1, <1>9, <1>10, <1>13 DEF q, r, f, t

\* The queues of the other cores stay.
LEMMA OthersKeep ==
  ASSUME NEW c \in Core, \A d \in Core \ {c} : Queue(d)' = Queue(d)
  PROVE  [d \in Core |-> Queue(d)]' = [[d \in Core |-> Queue(d)] EXCEPT ![c] = Queue(c)']
OBVIOUS

\* In the beginning nothing is published.
LEMMA LogInit ==
  ASSUME Assumptions, Init
  PROVE  Log!Init
<1>1. 0 \in Core
  BY DEF Assumptions, CoresAssumption, Core
<1>2. ASSUME NEW c \in Core PROVE Queue(c) = <<>>
  <2>1. TypeOK
    BY InitInv DEF IInv
  <2>2. Used(c) = 0
    <3>1. head[c] = tail[c]
      BY DEF Init
    <3> QED
      BY <2>1, <3>1, OneRing, Distance DEF Used
  <2> QED
    BY <2>1, <2>2, QueueIs
<1> QED
  BY <1>1, <1>2 DEF Init, Log!Init

\* Steps ConsoleLog does not see.
LEMMA LogStutters ==
  ASSUME line' = line, wire' = wire, \A c \in Core : Queue(c)' = Queue(c)
  PROVE  UNCHANGED Log!vars
BY DEF Log!vars

LEMMA LogStep ==
  ASSUME Assumptions, IInv, TypeOK', [Next]_vars
  PROVE  [Log!Next]_Log!vars
<1> DEFINE Queues == [d \in Core |-> Queue(d)]
<1>1. CASE UNCHANGED vars \/ ConsoleInit \/ Pass
  <2>1. UNCHANGED <<line, ringVars, wire>>
    BY <1>1 DEF vars, ConsoleInit, Pass, drainVars
  <2>2. \A c \in Core : Queue(c)' = Queue(c)
    BY <2>1, SameQueue DEF ringVars
  <2> QED
    BY <2>1, <2>2, LogStutters
<1>2. ASSUME NEW c \in Core, NEW ch \in Char, Putc(c, ch) PROVE Log!Next
  <2>1. \A d \in Core : Queue(d)' = Queue(d)
    BY <1>2, SameQueue DEF Putc, ringVars
  <2>2. Log!Type(c, ch)
    BY <1>2, <2>1 DEF Putc, drainVars, Complete, Log!Type, Log!Complete
  <2> QED
    BY <2>2 DEF Log!Next
<1>3. ASSUME NEW c \in Core, Room(c) PROVE UNCHANGED Log!vars
  <2>1. UNCHANGED <<line, ringVars, wire>>
    BY <1>3 DEF Room, drainVars
  <2>2. \A d \in Core : Queue(d)' = Queue(d)
    BY <2>1, SameQueue DEF ringVars
  <2> QED
    BY <2>1, <2>2, LogStutters
\* What fits one fits the other.
<1>4. ASSUME NEW c \in Core
      PROVE  /\ Log!Fits(c) <=> Used(c) + Len(line[c]) <= RingSize - 1
             /\ Log!Complete(line[c]) <=> Complete(line[c])
  <2>1. Queues[c] = Queue(c) /\ Len(Queue(c)) = Used(c)
    BY QueueIs DEF IInv
  <2> QED
    BY <2>1 DEF Log!Fits, Log!Complete, Complete
<1>5. ASSUME NEW c \in Core, Drop(c) PROVE Log!Next
  <2>1. \A d \in Core : Queue(d)' = Queue(d)
    BY <1>5, SameQueue DEF Drop, ringVars
  <2>2. ~(Used(c) + Len(line[c]) <= RingSize - 1)
    <3>1. /\ RingSize \in Nat /\ Used(c) \in Nat /\ Len(line[c]) \in Nat
          /\ Len(line[c]) > RingSize - 1 - Used(c)
      BY <1>5, OneRing DEF Drop, NoRoom, IInv
    <3> QED
      BY <3>1
  <2>3. Log!Drop(c)
    BY <1>4, <1>5, <2>1, <2>2 DEF Drop, drainVars, Log!Drop
  <2> QED
    BY <2>3 DEF Log!Next
<1>6. ASSUME NEW c \in Core, Copy(c) PROVE UNCHANGED Log!vars
  <2>1. ASSUME NEW d \in Core, d # c PROVE Queue(d)' = Queue(d)
    <3>1. data'[d] = data[d]
      BY <1>6, <2>1 DEF Copy, IInv, TypeOK
    <3> QED
      BY <1>6, <3>1, SameQueue DEF Copy
  <2>2. \A d \in Core : Queue(d)' = Queue(d)
    BY <1>6, <2>1, CopyKeepsQueue
  <2> QED
    BY <1>6, <2>2, LogStutters DEF Copy, drainVars
<1>7. ASSUME NEW c \in Core, Publish(c) PROVE Log!Next
  <2>1. ASSUME NEW d \in Core \ {c} PROVE Queue(d)' = Queue(d)
    BY <1>7, SameQueue DEF Publish, IInv, TypeOK
  <2>2. Queue(c)' = Queues[c] \o line[c]
    BY <1>7, PublishJoins
  <2>3. Queues' = [Queues EXCEPT ![c] = Queues[c] \o line[c]]
    BY <2>1, <2>2, OthersKeep
  <2>4. Complete(line[c]) /\ Used(c) + Len(line[c]) <= RingSize - 1
    BY <1>7 DEF Publish, IInv, Copying
  <2>5. Log!Publish(c)
    BY <1>4, <1>7, <2>3, <2>4 DEF Publish, drainVars, Log!Publish
  <2> QED
    BY <2>5 DEF Log!Next
<1>8. CASE Send
  <2>1. PICK c \in Core : c = Looked
    BY LookedIsCore DEF IInv
  <2>2. /\ Queue(c) # <<>> /\ Queue(c)' = Tail(Queue(c))
        /\ wire' = <<c, Head(Queue(c))>>
    BY <1>8, <2>1, SendLeaves
  <2>3. ASSUME NEW d \in Core \ {c} PROVE Queue(d)' = Queue(d)
    BY <1>8, <2>1, <2>3, SameQueue DEF Send, IInv, TypeOK
  <2>4. line' = line
    BY <1>8 DEF Send
  <2>5. Queues' = [Queues EXCEPT ![c] = Tail(Queues[c])]
    BY <2>1, <2>2, <2>3, OthersKeep
  <2>6. Log!Send(c)
    BY <2>1, <2>2, <2>4, <2>5 DEF Log!Send
  <2> QED
    BY <2>1, <2>6 DEF Log!Next
<1> QED
  BY <1>1, <1>2, <1>3, <1>5, <1>6, <1>7, <1>8 DEF Next, Drain

-----------------------------------------------------------------------------
(* The theorems.                                                           *)

\* A piece on its way into a ring is complete, was given room by a reader that can
\* only have made more since, and lies in its slots as far as it was copied.
THEOREM Inductive == ASSUME Assumptions PROVE Spec => []IInv
<1>1. Init => IInv
  BY InitInv
<1>2. IInv /\ [Next]_vars => IInv'
  <2> SUFFICES ASSUME IInv, [Next]_vars PROVE IInv'
    OBVIOUS
  <2>1. CASE Next
    BY <2>1, TypeStep, CopyingStep DEF IInv
  <2>2. CASE UNCHANGED vars
    BY <2>2 DEF vars, ringVars, drainVars, IInv, TypeOK, Copying, Copied, Used
  <2> QED
    BY <2>1, <2>2
<1> QED
  BY <1>1, <1>2, PTL DEF Spec

\* Every index stays inside its ring and every line inside its buffer
\* (console_putc, ring_push, amiga_console_drain).
THEOREM TypeCorrect == ASSUME Assumptions PROVE Spec => []TypeOK
<1>1. IInv => TypeOK
  BY DEF IInv
<1> QED
  BY <1>1, Inductive, PTL

\* The rings implement the log: what a core publishes reaches the wire whole, in
\* order and once, and is dropped only for want of room, whatever the other cores
\* and the drainer do between any two loads and stores of ring_push.
THEOREM KeepsThePromise == ASSUME Assumptions PROVE Spec => Implements
<1>1. Init => Log!Init
  BY LogInit
<1>2. IInv /\ IInv' /\ [Next]_vars => [Log!Next]_Log!vars
  BY LogStep DEF IInv
<1> QED
  BY <1>1, <1>2, Inductive, PTL DEF Spec, Implements, Log!Spec
=============================================================================
