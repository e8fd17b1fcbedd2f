-------------------------- MODULE SystemTimerProofs --------------------------
(***************************************************************************)
(* The heartbeat is never lost and timer.device's clock is exact, for any  *)
(* word of the counter, interval, margin and number of attempts.           *)
(***************************************************************************)
EXTENDS SystemTimer, TLAPS

Assumptions == WordAssumption /\ PeriodAssumption /\ RoomAssumption

Half == Word \div 2

-----------------------------------------------------------------------------
(* The constants.                                                          *)

\* The word is even.
LEMMA Even ==
  ASSUME Assumptions
  PROVE  Word \in Nat \ {0} /\ Half \in Nat \ {0} /\ Word = 2 * Half
<1>1. Word \in Nat \ {0} /\ Word % 2 = 0
  BY DEF Assumptions, WordAssumption
<1> QED
  BY <1>1 DEF Half

\* Multiples of a period, and of a delay.
LEMMA PeriodsAre ==
  ASSUME Assumptions, NEW n \in Nat
  PROVE  /\ Periods(n) \in Nat /\ Periods(n + 1) = Periods(n) + Interval
         /\ Spells(n) \in Nat /\ Spells(n + 1) = Spells(n) + MaxLate
<1>1. Interval \in Nat /\ MaxLate \in Nat
  BY DEF Assumptions, PeriodAssumption
<1> QED
  BY <1>1 DEF Periods, Spells

LEMMA PeriodsGrow ==
  ASSUME Assumptions, NEW n \in Nat, NEW m \in Nat, n <= m
  PROVE  Periods(n) <= Periods(m) /\ Spells(n) <= Spells(m)
<1>1. Interval \in Nat /\ MaxLate \in Nat
  BY DEF Assumptions, PeriodAssumption
<1>2. m - n \in Nat /\ m = n + (m - n)
  OBVIOUS
<1>3. m * Interval = n * Interval + (m - n) * Interval
  BY <1>1, <1>2
<1>4. m * MaxLate = n * MaxLate + (m - n) * MaxLate
  BY <1>1, <1>2
<1>5. (m - n) * Interval \in Nat /\ (m - n) * MaxLate \in Nat
  BY <1>1, <1>2
<1>6. n * Interval \in Nat /\ n * MaxLate \in Nat
  BY <1>1
<1> QED
  BY <1>3, <1>4, <1>5, <1>6 DEF Periods, Spells

-----------------------------------------------------------------------------
(* Distances on the counter.                                               *)

LEMMA StampIs ==
  ASSUME Assumptions
  PROVE  /\ \A t \in Stamp : t \in Nat /\ t < Word
         /\ \A t \in Nat : t < Word => t \in Stamp
<1>1. Word \in Nat \ {0}
  BY Even
<1> QED
  BY <1>1 DEF Stamp

LEMMA DistanceIs ==
  ASSUME Assumptions, NEW t \in Stamp, NEW c \in Stamp
  PROVE  /\ Distance(t, c) \in Int /\ -Half <= Distance(t, c) /\ Distance(t, c) < Half
         /\ Distance(t, c) = IF t - c < -Half THEN t - c + Word
                             ELSE IF t - c < Half THEN t - c ELSE t - c - Word
<1>1. /\ Half \in Nat \ {0} /\ Word = 2 * Half
      /\ t \in Nat /\ t < Word /\ c \in Nat /\ c < Word
  BY Even, StampIs
<1>2. Distance(t, c) = ((t - c + Half) % Word) - Half
  BY DEF Distance, Half
<1>3. (t - c + Half) % Word = IF t - c + Half < 0 THEN t - c + Half + Word
                              ELSE IF t - c + Half < Word THEN t - c + Half
                              ELSE t - c + Half - Word
  <2> HIDE DEF Half
  <2>1. CASE t - c + Half < 0
    BY <1>1, <2>1
  <2>2. CASE t - c + Half >= 0 /\ t - c + Half < Word
    BY <1>1, <2>2
  <2>3. CASE t - c + Half >= Word
    BY <1>1, <2>3
  <2> QED
    BY <1>1, <2>1, <2>2, <2>3
<1> HIDE DEF Half
<1> QED
  BY <1>1, <1>2, <1>3

\* One tick brings everything nearer by one, if nothing is half a word old.
LEMMA Nearer ==
  ASSUME Assumptions, NEW t \in Stamp, NEW c \in Stamp
  PROVE  /\ (c + 1) % Word \in Stamp
         /\ Distance(t, c) > -Half => Distance(t, (c + 1) % Word) = Distance(t, c) - 1
<1>1. /\ Half \in Nat \ {0} /\ Word = 2 * Half
      /\ t \in Nat /\ t < Word /\ c \in Nat /\ c < Word
  BY Even, StampIs
<1>2. PICK d : d = (c + 1) % Word
  OBVIOUS
<1> HIDE DEF Half
<1>3. d = IF c + 1 < Word THEN c + 1 ELSE 0
  BY <1>1, <1>2
<1>4. d \in Stamp
  BY <1>1, <1>3, StampIs
<1>5. Distance(t, d) = IF t - d < -Half THEN t - d + Word
                       ELSE IF t - d < Half THEN t - d ELSE t - d - Word
  BY <1>4, DistanceIs
<1>6. Distance(t, c) = IF t - c < -Half THEN t - c + Word
                       ELSE IF t - c < Half THEN t - c ELSE t - c - Word
  BY DistanceIs
<1>7. Distance(t, c) > -Half => Distance(t, d) = Distance(t, c) - 1
  BY <1>1, <1>3, <1>5, <1>6
<1> QED
  BY <1>2, <1>4, <1>7

\* A target that is set d later than another.
LEMMA Later ==
  ASSUME Assumptions, NEW t \in Stamp, NEW c \in Stamp, NEW d \in Nat, d < Half
  PROVE  /\ (t + d) % Word \in Stamp
         /\ Distance(t, c) + d < Half => Distance((t + d) % Word, c) = Distance(t, c) + d
<1>1. /\ Half \in Nat \ {0} /\ Word = 2 * Half
      /\ t \in Nat /\ t < Word /\ c \in Nat /\ c < Word
  BY Even, StampIs
<1>2. PICK s : s = (t + d) % Word
  OBVIOUS
<1> HIDE DEF Half
<1>3. s = IF t + d < Word THEN t + d ELSE t + d - Word
  BY <1>1, <1>2
<1>4. s \in Stamp
  BY <1>1, <1>3, StampIs
<1>5. Distance(s, c) = IF s - c < -Half THEN s - c + Word
                       ELSE IF s - c < Half THEN s - c ELSE s - c - Word
  BY <1>4, DistanceIs
<1>6. Distance(t, c) = IF t - c < -Half THEN t - c + Word
                       ELSE IF t - c < Half THEN t - c ELSE t - c - Word
  BY DistanceIs
<1>7. Distance(t, c) + d < Half => Distance(s, c) = Distance(t, c) + d
  BY <1>1, <1>3, <1>5, <1>6
<1> QED
  BY <1>2, <1>4, <1>7

\* What the code's signed difference says, and where the counter matches.
LEMMA AheadIs ==
  ASSUME Assumptions, NEW t \in Stamp, NEW c \in Stamp
  PROVE  /\ (t - c) % Word \in 1 .. Half - 1 <=> Distance(t, c) >= 1
         /\ Distance(t, c) >= 1 => (t - c) % Word = Distance(t, c)
         /\ Distance(t, c) = 0 <=> t = c
<1>1. /\ Half \in Nat \ {0} /\ Word = 2 * Half
      /\ t \in Nat /\ t < Word /\ c \in Nat /\ c < Word
  BY Even, StampIs
<1> HIDE DEF Half
<1>2. Distance(t, c) = IF t - c < -Half THEN t - c + Word
                       ELSE IF t - c < Half THEN t - c ELSE t - c - Word
  BY DistanceIs
<1>3. (t - c) % Word = IF t < c THEN t - c + Word ELSE t - c
  BY <1>1
<1> QED
  BY <1>1, <1>2, <1>3

-----------------------------------------------------------------------------
(* One step of the heart.                                                  *)

\* What the constants are, in one place.
LEMMA Constants ==
  ASSUME Assumptions
  PROVE  /\ Interval \in Nat \ {0} /\ Margin \in Nat \ {0} /\ Margin <= Interval
         /\ MaxLate \in Nat \ {0} /\ Retries \in Nat \ {0} /\ Retries > 1
         /\ Half \in Nat \ {0}
         /\ Deep \in Nat /\ Deep + Interval + 3 * MaxLate < Half
         /\ Deep = Periods(Retries) + 2 * Interval + Spells(Retries)
         /\ Periods(Retries) \in Nat /\ Spells(Retries) \in Nat
         /\ Periods(Retries + 1) = Periods(Retries) + Interval
         /\ Periods(0) = 0 /\ Spells(0) = 0
<1>1. /\ Interval \in Nat \ {0} /\ Margin \in Nat \ {0} /\ Margin <= Interval
      /\ MaxLate \in Nat \ {0} /\ Retries \in Nat \ {0} /\ Retries > 1
  BY DEF Assumptions, PeriodAssumption, RoomAssumption
<1>2. /\ Periods(Retries) \in Nat /\ Spells(Retries) \in Nat
      /\ Periods(Retries + 1) = Periods(Retries) + Interval
  BY <1>1, PeriodsAre
<1>3. Periods(Retries + 2) = Periods(Retries) + 2 * Interval
  <2>1. Retries + 1 \in Nat /\ Retries + 2 = (Retries + 1) + 1
    BY <1>1
  <2>2. Periods((Retries + 1) + 1) = Periods(Retries + 1) + Interval
    BY <2>1, PeriodsAre
  <2> QED
    BY <1>1, <1>2, <2>1, <2>2
<1>4. Deep = Periods(Retries) + 2 * Interval + Spells(Retries)
  BY <1>3 DEF Deep
<1>5. Periods(0) = 0 /\ Spells(0) = 0
  BY <1>1 DEF Periods, Spells
<1>6. Half \in Nat \ {0} /\ Deep + Interval + 3 * MaxLate < Half
  BY Even DEF Half, Assumptions, RoomAssumption
<1> QED
  BY <1>1, <1>2, <1>4, <1>5, <1>6

\* What an attempt of the task stands for.
LEMMA Attempt ==
  ASSUME Assumptions, NEW r \in Nat, r <= Retries - 1
  PROVE  /\ Periods(r) \in Nat /\ Spells(r) \in Nat
         /\ Periods(r) + Interval <= Periods(Retries)
         /\ Spells(r) + MaxLate <= Spells(Retries)
<1>1. /\ Periods(r) \in Nat /\ Periods(r + 1) = Periods(r) + Interval
      /\ Spells(r) \in Nat /\ Spells(r + 1) = Spells(r) + MaxLate
  BY PeriodsAre
<1>2. r + 1 \in Nat /\ r + 1 <= Retries
  BY Constants
<1>3. Periods(r + 1) <= Periods(Retries) /\ Spells(r + 1) <= Spells(Retries)
  BY <1>2, Constants, PeriodsGrow
<1> QED
  BY <1>1, <1>3

\* Every distance of the heart is a number.
LEMMA Numbers ==
  ASSUME Assumptions, TypeOK
  PROVE  /\ clo \in Stamp /\ compare \in Stamp /\ systimer_next \in Stamp /\ cs \in BOOLEAN
         /\ Due \in Stamp
         /\ \A t \in Stamp : Gap(t) \in Int /\ -Half <= Gap(t) /\ Gap(t) < Half
         /\ \A c \in Ctx : /\ target[c] \in Stamp /\ wait[c] \in Nat
                           /\ retries[c] \in Nat /\ retries[c] <= Retries - 1
                           /\ at[c] \in {"off", "write", "check", "retarget", "cause"}
         /\ "task" \in Ctx /\ "irq" \in Ctx
<1>1. /\ clo \in Stamp /\ compare \in Stamp /\ systimer_next \in Stamp /\ cs \in BOOLEAN
      /\ "task" \in Ctx /\ "irq" \in Ctx
      /\ \A c \in Ctx : /\ target[c] \in Stamp /\ wait[c] \in Nat
                        /\ retries[c] \in 0..Retries - 1
                        /\ at[c] \in {"off", "write", "check", "retarget", "cause"}
  BY DEF TypeOK, Ctx
<1>2. \A c \in Ctx : retries[c] \in Nat /\ retries[c] <= Retries - 1
  BY <1>1, Constants
<1>3. Due \in Stamp
  BY <1>1 DEF Due
<1>4. \A t \in Stamp : Gap(t) \in Int /\ -Half <= Gap(t) /\ Gap(t) < Half
  BY <1>1, DistanceIs DEF Gap
<1> QED
  BY <1>1, <1>2, <1>3, <1>4

\* Nothing is as old as half a word.
LEMMA NotSoOld ==
  ASSUME Assumptions, TypeOK, Walk
  PROVE  Past \in Nat /\ Past < Half
<1>1. /\ wait["task"] \in Nat /\ wait["irq"] \in Nat
      /\ retries["task"] \in Nat /\ retries["task"] <= Retries - 1
      /\ wait["task"] <= Patience("task") /\ wait["irq"] <= Patience("irq")
  BY Numbers DEF Walk
<1>2. /\ wait["task"] <= MaxLate \/ wait["task"] <= Interval
      /\ wait["irq"] <= MaxLate \/ wait["irq"] <= Interval
  BY <1>1, Constants DEF Patience
<1>3. /\ Spells(retries["task"]) \in Nat
      /\ Spells(retries["task"]) + MaxLate <= Spells(Retries)
  BY <1>1, Attempt
<1> QED
  BY <1>1, <1>2, <1>3, Constants DEF Past
-----------------------------------------------------------------------------
(* Time passes.                                                            *)

\* Everything that is due, or was, is one nearer.
LEMMA TickMoves ==
  ASSUME Assumptions, TypeOK, Heart, Tick
  PROVE  /\ clo' \in Stamp
         /\ \A t \in Stamp : Gap(t) >= -Past => Distance(t, clo') = Gap(t) - 1
         /\ cs' = (cs \/ Gap(compare) = 1)
<1>1. clo \in Stamp /\ clo' = (clo + 1) % Word /\ compare \in Stamp
  BY Numbers DEF Tick
<1>2. clo' \in Stamp
  BY <1>1, Nearer
<1>3. Past \in Nat /\ Past < Half /\ Half \in Nat
  BY NotSoOld, Constants DEF Heart
<1>4. ASSUME NEW t \in Stamp, Gap(t) >= -Past
      PROVE  Distance(t, clo') = Gap(t) - 1
  <2>1. Distance(t, clo) \in Int /\ Distance(t, clo) > -Half
    BY <1>1, <1>3, <1>4, DistanceIs DEF Gap
  <2> QED
    BY <1>1, <2>1, Nearer DEF Gap
<1>5. Distance(compare, clo') = Gap(compare) - 1 /\ Gap(compare) \in Int
  BY <1>1, <1>4, Numbers DEF Heart, Lower
<1>6. clo' = compare <=> Gap(compare) = 1
  BY <1>1, <1>2, <1>5, AheadIs
<1>7. cs' = (cs \/ clo' = compare)
  BY DEF Tick
<1> QED
  BY <1>2, <1>4, <1>6, <1>7

LEMMA TickKeepsHeart ==
  ASSUME Assumptions, TypeOK, Heart, Tick
  PROVE  Heart'
<1>1. /\ at' = at /\ target' = target /\ retries' = retries /\ compare' = compare
      /\ systimer_next' = systimer_next
      /\ cs' = (cs \/ Gap(compare) = 1) /\ cs \in BOOLEAN
      /\ wait' = [c \in Ctx |-> IF Waiting(c) THEN wait[c] + 1 ELSE 0]
      /\ \A c \in Ctx : Waiting(c) => wait[c] < Patience(c)
  BY TickMoves, Numbers DEF Tick, armVars, Patient
<1>2. Due' = Due /\ (\A c \in Ctx : Arming(c)' <=> Arming(c))
  BY <1>1 DEF Due, Arming
<1>3. /\ Gap(compare) \in Int /\ Gap(Due) \in Int
      /\ \A c \in Ctx : Gap(target[c]) \in Int
  BY Numbers
<1>4. /\ Distance(compare, clo') = Gap(compare) - 1
      /\ Distance(Due, clo') = Gap(Due) - 1
      /\ Arming("task") => Distance(target["task"], clo') = Gap(target["task"]) - 1
      /\ Arming("irq") => Distance(target["irq"], clo') = Gap(target["irq"]) - 1
  BY TickMoves, Numbers DEF Heart, Lower, Due
<1>5. /\ "task" \in Ctx /\ "irq" \in Ctx
      /\ \A c \in Ctx : /\ wait[c] \in Nat /\ retries[c] \in Nat
                        /\ at[c] \in {"off", "write", "check", "retarget", "cause"}
  BY Numbers
<1>6. /\ Gap(compare)' = Gap(compare) - 1 /\ Gap(Due)' = Gap(Due) - 1
      /\ Arming("task") => Gap(target["task"])' = Gap(target["task"]) - 1
      /\ cs' \in BOOLEAN /\ (cs' <=> cs \/ Gap(compare) = 1)
  BY <1>1, <1>2, <1>4 DEF Gap
<1>7. Walk'
  <2>1. ASSUME NEW c \in Ctx
        PROVE  /\ wait'[c] <= Patience(c)' /\ (~Waiting(c)' => wait'[c] = 0)
               /\ ~Arming(c)' => retries'[c] = 0
               /\ Arming(c)' /\ retries'[c] > 0 => Gap(target[c])' = Margin - wait'[c]
               /\ at'[c] = "retarget" => retries'[c] < Retries - 1
    <3>1. /\ wait[c] \in Nat /\ retries[c] \in Nat /\ Patience(c) \in Nat
          /\ wait'[c] = IF Waiting(c) THEN wait[c] + 1 ELSE 0
          /\ Waiting(c) => wait[c] < Patience(c)
      BY <1>1, <1>5, Constants DEF Patience
    <3>2. Patience(c)' = Patience(c)
      BY <1>1 DEF Patience
    <3>3. wait'[c] <= Patience(c)'
      BY <3>1, <3>2
    <3>4. ~Waiting(c)' => wait'[c] = 0
      BY <1>1, <3>1 DEF Waiting
    <3>5. ~Arming(c)' => retries'[c] = 0
      BY <1>1, <1>2 DEF Heart, Walk
    <3>6. Arming(c)' /\ retries'[c] > 0 => Gap(target[c])' = Margin - wait'[c]
      <4>1. Arming(c) => Waiting(c)
        BY DEF Arming, Waiting
      <4>2. Arming(c) /\ retries[c] > 0 => Gap(target[c]) = Margin - wait[c]
        BY DEF Heart, Walk
      <4>3. Arming(c) => Distance(target[c], clo') = Gap(target[c]) - 1
        BY <1>4 DEF Ctx
      <4>4. Gap(target[c]) \in Int /\ Margin \in Int
        BY <1>3, Constants
      <4>5. Gap(target[c])' = Distance(target[c], clo')
        BY <1>1 DEF Gap
      <4> QED
        BY <1>1, <1>2, <3>1, <4>1, <4>2, <4>3, <4>4, <4>5
    <3>7. at'[c] = "retarget" => retries'[c] < Retries - 1
      BY <1>1 DEF Heart, Walk
    <3> QED
      BY <3>3, <3>4, <3>5, <3>6, <3>7
  <2>2. /\ at'["irq"] \in {"check", "retarget"} => compare' = target'["irq"]
        /\ at'["irq"] = "cause" => compare' = systimer_next'
        /\ at'["task"] # "cause"
    BY <1>1 DEF Heart, Walk
  <2>5. at'["irq"] = "cause" => Gap(compare)' >= 1 - wait'["irq"]
    <3>1. at["irq"] = "cause" => wait'["irq"] = wait["irq"] + 1
      BY <1>1, <1>5 DEF Waiting
    <3> QED
      BY <1>1, <1>3, <1>5, <1>6, <3>1 DEF Heart, Walk
  <2>3. at'["task"] = "retarget" => Gap(target["task"])' <= 0
    BY <1>1, <1>3, <1>4, <1>5 DEF Heart, Walk, Arming, Gap
  <2>4. Arming("task")' /\ Arming("irq")' /\ retries'["irq"] > 0
        => wait'["irq"] <= wait'["task"]
    BY <1>1, <1>2, <1>5 DEF Heart, Walk, Arming, Waiting
  <2> QED
    BY <2>1, <2>2, <2>3, <2>4, <2>5 DEF Walk
<1>8. FirstPeriod'
  BY <1>1, <1>3, <1>4, <1>5, Constants DEF Heart, FirstPeriod, Gap, Arming, Waiting
<1>9. Alive'
  BY <1>1, <1>2, <1>3, <1>5, <1>6 DEF Heart, Alive, Arming
<1>10. Upper'
  <2>1. /\ retries["task"] \in Nat /\ Periods(retries["task"]) \in Nat
        /\ Periods(Retries + 1) \in Nat
    BY <1>5, Constants, PeriodsAre
  <2>2. Reach \in Int /\ Reach' \in Int /\ Reach <= Reach'
    <3>1. Periods(retries["task"])' = Periods(retries["task"])
      BY <1>1
    <3>2. CASE ~Arming("task")
      BY <1>2, <1>5, <3>2, Constants DEF Reach
    <3>3. CASE Arming("task")
      <4>1. Gap(target["task"])' = Gap(target["task"]) - 1 /\ Gap(target["task"]) \in Int
        BY <1>3, <1>5, <1>6, <3>3
      <4> QED
        BY <1>1, <1>2, <1>5, <2>1, <3>1, <3>3, <4>1, Constants DEF Reach
    <3> QED
      BY <3>2, <3>3
  <2>3. Top \in Int /\ Top' \in Int /\ Top <= Top'
    BY <1>2, <1>5, <2>1, <2>2, Constants DEF Top
  <2>4. Own' <=> Own
    BY <1>1 DEF Own
  <2>5. Coming' <= Reach'
    <3>1. CASE cs' <=> cs
      BY <1>1, <1>3, <1>6, <2>2, <3>1, Constants DEF Heart, Upper, Coming
    <3>2. CASE ~cs /\ cs' /\ ~Own
      <4>1. Gap(Due) <= Interval + 1
        BY <1>3, <1>6, <3>2, Constants DEF Heart, Upper
      <4>2. Reach' >= 2 * Interval
        BY <1>1, <1>2, <2>1, Constants DEF Reach
      <4> QED
        BY <1>3, <1>6, <2>2, <3>2, <4>1, <4>2, Constants DEF Coming
    <3>3. CASE ~cs /\ cs' /\ Own
      <4>1. Gap(target["task"]) = 1 /\ Gap(target["task"])' = 0
        BY <1>3, <1>6, <3>3 DEF Own, Arming
      <4>2. Reach' = Reach + Interval
        BY <1>1, <1>2, <2>1, <3>3, <4>1, Constants DEF Reach, Own, Arming
      <4> QED
        BY <1>3, <1>6, <2>2, <3>3, <4>2, Constants DEF Heart, Upper, Coming
    <3> QED
      BY <1>6, <3>1, <3>2, <3>3
  <2>6. Gap(compare)' <= Top'
    BY <1>3, <1>6, <2>3 DEF Heart, Upper
  <2>7. Gap(compare)' >= 1 /\ ~Own' =>
          /\ Gap(Due)' - Gap(compare)' <= Interval
          /\ cs' /\ ~Arming("irq")' => Gap(Due)' <= Gap(compare)'
    BY <1>2, <1>3, <1>5, <1>6, <2>4, Constants DEF Heart, Upper
  <2> QED
    BY <2>5, <2>6, <2>7 DEF Upper
<1>11. Lower'
  <2>1. Past \in Nat /\ Deep \in Nat /\ Periods(Retries + 1) \in Nat
        /\ Deep >= Periods(Retries + 1)
    BY NotSoOld, Constants, PeriodsAre DEF Heart
  <2>2. Arming("task") \/ Waiting("irq") => Past' = Past + 1
    <3>1. /\ Spells(retries["task"]) \in Nat
          /\ Spells(retries["task"])' = Spells(retries["task"])
      BY <1>1, <1>5, PeriodsAre
    <3>2. CASE Arming("task")
      <4>1. wait'["task"] = wait["task"] + 1
        BY <1>1, <1>5, <3>2 DEF Arming, Waiting
      <4> QED
        BY <1>2, <1>5, <3>1, <3>2, <4>1, Constants DEF Past
    <3>3. CASE ~Arming("task") /\ Waiting("irq")
      <4>1. wait'["irq"] = wait["irq"] + 1
        BY <1>1, <1>5, <3>3
      <4>2. retries'["irq"] = retries["irq"]
        BY <1>1
      <4> QED
        BY <1>2, <1>5, <2>1, <3>3, <4>1, <4>2, Constants DEF Past
    <3> QED
      BY <3>2, <3>3
  <2>3. ~Arming("task") /\ ~Waiting("irq") => Past' = Deep /\ Past = Deep
    BY <1>1, <1>2, <1>5, <2>1, Constants DEF Past, Arming, Waiting, Heart, Walk
  <2>4. ~Arming("task") /\ ~Waiting("irq") =>
          /\ ~cs /\ ~Arming("irq") /\ Gap(compare) >= 1
          /\ Gap(Due) >= Gap(compare) - Periods(Retries + 1)
    BY <1>5 DEF Waiting, Arming, Heart, Alive, Lower
  <2>5. Gap(compare)' >= -Past' /\ Gap(Due)' >= -Past'
    BY <1>3, <1>6, <2>1, <2>2, <2>3, <2>4 DEF Heart, Lower
  <2>6. Arming("task")' => Gap(target["task"])' >= -Past'
    BY <1>2, <1>3, <1>5, <1>6, <2>1, <2>2 DEF Heart, Lower
  <2>7. ~Arming("irq")' /\ ~Arming("task")' /\ ~cs'
          => Gap(Due)' >= Gap(compare)' - Periods(Retries + 1)
    BY <1>2, <1>3, <1>5, <1>6, <2>1 DEF Heart, Lower
  <2> QED
    BY <2>5, <2>6, <2>7 DEF Lower
<1>12. Overtaken'
  BY <1>1, <1>2, <1>3, <1>5, <1>6 DEF Heart, Overtaken, Arming
<1> QED
  BY <1>7, <1>8, <1>9, <1>10, <1>11, <1>12 DEF Heart

-----------------------------------------------------------------------------
(* The code's steps: the counter stands still.                             *)

\* The signed difference that systimer_arm looks at.
LEMMA InTimeIs ==
  ASSUME Assumptions, TypeOK, NEW c \in Ctx
  PROVE  InTime(c) <=> Gap(target[c]) >= 1
<1>1. target[c] \in Stamp /\ clo \in Stamp
  BY Numbers
<1>2. (target[c] - clo) % Word \in 1 .. Half - 1 <=> Distance(target[c], clo) >= 1
  BY <1>1, AheadIs
<1> QED
  BY <1>2 DEF InTime, Ahead, Gap, Half

\* The last attempt's target has not passed when it is checked.
LEMMA LastIsInTime ==
  ASSUME Assumptions, TypeOK, Heart, NEW c \in Ctx, Arming(c), Gap(target[c]) <= 0
  PROVE  retries[c] < Retries - 1
<1>1. /\ wait[c] <= Patience(c)
      /\ retries[c] > 0 => Gap(target[c]) = Margin - wait[c]
  BY DEF Heart, Walk
<1>2. wait[c] \in Nat /\ retries[c] \in Nat /\ retries[c] <= Retries - 1
  BY Numbers
<1>3. retries[c] = Retries - 1 => retries[c] > 0 /\ wait[c] <= Margin - 1
  BY <1>1, <1>2, Constants DEF Patience
<1> QED
  BY <1>1, <1>2, <1>3, Constants

\* A target is never further than a period.
LEMMA TargetNear ==
  ASSUME Assumptions, TypeOK, Heart, Arming("task")
  PROVE  Gap(target["task"]) <= Interval
<1>1. /\ retries["task"] > 0 => Gap(target["task"]) = Margin - wait["task"]
      /\ retries["task"] = 0 => Gap(target["task"]) = Interval - wait["task"]
  BY Numbers DEF Heart, Walk, FirstPeriod
<1> QED
  BY <1>1, Numbers, Constants

LEMMA WriteTaskKeepsHeart ==
  ASSUME Assumptions, TypeOK, Heart, Write("task")
  PROVE  Heart'
<1>1. /\ at["task"] = "write" /\ at["irq"] = "off"
      /\ at'["task"] = "check" /\ at'["irq"] = "off"
      /\ compare' = target["task"] /\ clo' = clo /\ cs' = cs /\ target' = target
      /\ retries' = retries /\ wait' = wait /\ systimer_next' = systimer_next
  BY DEF Write, Preempted, TypeOK, Ctx
<1>2. /\ Arming("task") /\ Arming("task")' /\ ~Arming("irq") /\ ~Arming("irq")'
      /\ Due = systimer_next /\ Due' = systimer_next
  BY <1>1 DEF Arming, Due
<1>3. /\ Gap(compare)' = Gap(target["task"]) /\ Gap(Due)' = Gap(Due)
      /\ \A c \in Ctx : Gap(target[c])' = Gap(target[c])
  BY <1>1, <1>2 DEF Gap
<1>4. /\ Gap(compare) \in Int /\ Gap(Due) \in Int /\ cs \in BOOLEAN
      /\ \A c \in Ctx : /\ Gap(target[c]) \in Int
                        /\ wait[c] \in Nat /\ retries[c] \in Nat
      /\ "task" \in Ctx /\ "irq" \in Ctx
      /\ Periods(retries["task"]) \in Nat
  BY Numbers, PeriodsAre
<1>5. Walk'
  <2>1. ASSUME NEW c \in Ctx
        PROVE  /\ wait'[c] <= Patience(c)' /\ (~Waiting(c)' => wait'[c] = 0)
               /\ ~Arming(c)' => retries'[c] = 0
               /\ Arming(c)' /\ retries'[c] > 0 => Gap(target[c])' = Margin - wait'[c]
               /\ at'[c] = "retarget" => retries'[c] < Retries - 1
    BY <1>1, <1>2, <1>3 DEF Heart, Walk, Ctx, Patience, Waiting
  <2> QED
    BY <1>1, <1>2, <2>1 DEF Walk
<1>6. FirstPeriod'
  BY <1>1, <1>2, <1>3, <1>4 DEF Heart, FirstPeriod
<1>7. Alive'
  BY <1>1, <1>2 DEF Alive
<1>8. Upper'
  <2>1. Periods(retries["task"])' = Periods(retries["task"])
    BY <1>1
  <2>2. Reach \in Int /\ Reach' \in Int /\ Reach <= Reach' /\ Top' = Reach'
        /\ Reach' >= 2 * Interval
    BY <1>1, <1>2, <1>3, <1>4, <2>1, Constants DEF Reach, Top
  <2>3. Coming' = Coming /\ Coming \in Int
    BY <1>1, <1>3, <1>4, Constants DEF Coming
  <2>4. Own'
    BY <1>1 DEF Own
  <2> QED
    BY <1>2, <1>3, <1>4, <2>2, <2>3, <2>4, TargetNear, Constants DEF Heart, Upper
<1>9. Lower'
  <2>1. Past' = Past
    BY <1>1, <1>2 DEF Past
  <2> QED
    BY <1>2, <1>3, <1>4, <2>1 DEF Heart, Lower
<1>10. Overtaken'
  BY <1>1, <1>2, <1>3, <1>4 DEF Overtaken
<1> QED
  BY <1>5, <1>6, <1>7, <1>8, <1>9, <1>10 DEF Heart

LEMMA WriteIrqKeepsHeart ==
  ASSUME Assumptions, TypeOK, Heart, Write("irq")
  PROVE  Heart'
<1>1. /\ at["irq"] = "write" /\ at'["irq"] = "check" /\ at'["task"] = at["task"]
      /\ compare' = target["irq"] /\ clo' = clo /\ cs' = cs /\ target' = target
      /\ retries' = retries /\ wait' = wait /\ systimer_next' = systimer_next
  BY DEF Write, TypeOK, Ctx
<1>2. /\ Arming("task")' <=> Arming("task")
      /\ Arming("irq") /\ Arming("irq")'
      /\ Due = target["irq"] /\ Due' = target["irq"]
  BY <1>1 DEF Arming, Due
<1>3. /\ Gap(compare)' = Gap(Due) /\ Gap(Due)' = Gap(Due)
      /\ \A c \in Ctx : Gap(target[c])' = Gap(target[c])
  BY <1>1, <1>2 DEF Gap
<1>4. /\ Gap(compare) \in Int /\ Gap(Due) \in Int /\ cs \in BOOLEAN
      /\ \A c \in Ctx : /\ Gap(target[c]) \in Int
                        /\ wait[c] \in Nat /\ retries[c] \in Nat
      /\ "task" \in Ctx /\ "irq" \in Ctx
      /\ Periods(retries["task"]) \in Nat
  BY Numbers, PeriodsAre
<1>5. Walk'
  <2>1. ASSUME NEW c \in Ctx
        PROVE  /\ wait'[c] <= Patience(c)' /\ (~Waiting(c)' => wait'[c] = 0)
               /\ ~Arming(c)' => retries'[c] = 0
               /\ Arming(c)' /\ retries'[c] > 0 => Gap(target[c])' = Margin - wait'[c]
               /\ at'[c] = "retarget" => retries'[c] < Retries - 1
    BY <1>1, <1>2, <1>3 DEF Heart, Walk, Ctx, Patience, Waiting
  <2> QED
    BY <1>1, <1>2, <1>3, <1>4, <2>1 DEF Heart, Walk
<1>6. FirstPeriod'
  BY <1>1, <1>2, <1>3, <1>4 DEF Heart, FirstPeriod
<1>7. Alive'
  BY <1>1, <1>2 DEF Alive
<1>8. Upper'
  <2>1. Periods(retries["task"])' = Periods(retries["task"])
    BY <1>1
  <2>2. Reach \in Int /\ Reach' = Reach /\ Top' = Top /\ Top \in Int /\ Reach <= Top
    <3>1. Reach \in Int /\ Reach' = Reach
      BY <1>1, <1>2, <1>3, <1>4, <2>1, Constants DEF Reach
    <3>2. ~Arming("task") => Reach = 2 * Interval
      BY DEF Reach
    <3>3. Periods(Retries + 1) \in Nat /\ 2 * Interval <= Periods(Retries + 1)
      <4>1. 0 \in Nat /\ 0 <= Retries - 1
        BY Constants
      <4>2. Periods(0) + Interval <= Periods(Retries)
        BY <4>1, Attempt
      <4> QED
        BY <4>2, Constants
    <3> QED
      BY <1>2, <3>1, <3>2, <3>3 DEF Top
  <2>3. Coming' = Coming /\ Coming \in Int /\ Gap(Due) <= Coming
    BY <1>1, <1>3, <1>4, Constants DEF Coming
  <2> QED
    BY <1>2, <1>3, <1>4, <2>2, <2>3, Constants DEF Heart, Upper
<1>9. Lower'
  <2>1. Past' = Past
    BY <1>1, <1>2 DEF Past
  <2> QED
    BY <1>2, <1>3, <1>4, <2>1 DEF Heart, Lower
<1>10. Overtaken'
  BY <1>1, <1>2, <1>3, <1>4 DEF Heart, Overtaken
<1> QED
  BY <1>5, <1>6, <1>7, <1>8, <1>9, <1>10 DEF Heart

\* The task's target is ahead: it becomes the one on record, and the compare
\* may be that of a heartbeat that came in between.
LEMMA TaskArmedKeepsHeart ==
  ASSUME Assumptions, TypeOK, Heart, Check("task"), InTime("task")
  PROVE  Heart'
<1>1. /\ at["task"] = "check" /\ at["irq"] = "off"
      /\ at'["task"] = "off" /\ at'["irq"] = "off"
      /\ compare' = compare /\ clo' = clo /\ cs' = cs
      /\ target'["irq"] = target["irq"] /\ systimer_next' = target["task"]
      /\ retries'["irq"] = retries["irq"] /\ retries'["task"] = 0
      /\ wait'["irq"] = wait["irq"] /\ wait'["task"] = 0
  BY DEF Check, Armed, Preempted, TypeOK, Ctx
<1>2. /\ Arming("task") /\ ~Arming("task")' /\ ~Arming("irq") /\ ~Arming("irq")'
      /\ Due' = target["task"]
  BY <1>1 DEF Arming, Due
<1>3. /\ Gap(compare)' = Gap(compare) /\ Gap(Due)' = Gap(target["task"])
  BY <1>1, <1>2 DEF Gap
<1>4. /\ Gap(compare) \in Int /\ Gap(Due) \in Int /\ cs \in BOOLEAN
      /\ Gap(target["task"]) \in Int
      /\ \A c \in Ctx : wait[c] \in Nat /\ retries[c] \in Nat
      /\ "task" \in Ctx /\ "irq" \in Ctx
  BY Numbers
<1>5. Gap(target["task"]) >= 1 /\ Gap(target["task"]) <= Interval
  BY <1>2, <1>4, InTimeIs, TargetNear
<1>6. Walk'
  <2>1. /\ wait["irq"] <= Patience("irq") /\ Patience("irq")' = Patience("irq")
        /\ Patience("task")' >= 0
        /\ ~Waiting("irq") => wait["irq"] = 0
        /\ retries["irq"] = 0
    BY <1>1, <1>2, <1>4, Constants DEF Heart, Walk, Patience
  <2>2. Waiting("irq")' <=> Waiting("irq")
    BY <1>1 DEF Waiting
  <2> QED
    BY <1>1, <1>2, <2>1, <2>2 DEF Walk, Ctx
<1>7. FirstPeriod' /\ Overtaken'
  BY <1>1, <1>2 DEF FirstPeriod, Overtaken
<1>8. Alive'
  BY <1>1, <1>2, <1>3, <1>5 DEF Heart, Alive
<1>9. /\ Periods(retries["task"]) \in Nat /\ Spells(retries["task"]) \in Nat
      /\ Periods(retries["task"]) + Interval <= Periods(Retries)
      /\ Spells(retries["task"]) + MaxLate <= Spells(Retries)
      /\ wait["task"] <= MaxLate \/ wait["task"] <= Interval
      /\ Periods(Retries + 1) = Periods(Retries) + Interval
  BY <1>4, Numbers, Attempt, Constants DEF Heart, Walk, Patience
<1>10. Gap(compare) <= Periods(Retries + 1)
  <2>1. Top = Periods(retries["task"]) + 2 * Interval
    BY <1>1, <1>2, <1>5 DEF Top, Reach
  <2> QED
    BY <1>4, <1>9, <2>1, Constants DEF Heart, Upper
<1>11. Upper'
  <2>1. Reach' = 2 * Interval /\ Top' = Periods(Retries + 1)
    BY <1>2 DEF Reach, Top
  <2>2. Coming' <= 2 * Interval
    BY <1>1, <1>3, <1>4, <1>5, Constants DEF Coming
  <2>3. cs /\ Gap(compare) >= 1 => Gap(target["task"]) <= Gap(compare)
    BY <1>1, <1>2, <1>5 DEF Heart, Overtaken
  <2> QED
    BY <1>1, <1>2, <1>3, <1>4, <1>5, <1>10, <2>1, <2>2, <2>3, Constants DEF Upper
<1>12. Lower'
  <2>1. Past <= Deep /\ Past \in Int
    BY <1>2, <1>4, <1>9, Constants DEF Past
  <2>2. Past' = Deep + wait["irq"]
    BY <1>1, <1>2, <1>4, Constants DEF Past
  <2>3. Gap(compare) >= -Past
    BY DEF Heart, Lower
  <2> QED
    BY <1>2, <1>3, <1>4, <1>5, <1>9, <1>10, <2>1, <2>2, <2>3, Constants DEF Lower
<1> QED
  BY <1>6, <1>7, <1>8, <1>11, <1>12 DEF Heart

\* The task's target has passed.
LEMMA TaskMissedKeepsHeart ==
  ASSUME Assumptions, TypeOK, Heart, Check("task"), ~InTime("task")
  PROVE  Heart'
<1>1. /\ at["task"] = "check" /\ at["irq"] = "off"
      /\ at'["task"] = "retarget" /\ at'["irq"] = "off"
      /\ compare' = compare /\ clo' = clo /\ cs' = cs /\ target' = target
      /\ retries' = retries /\ wait' = wait /\ systimer_next' = systimer_next
  BY DEF Check, Preempted, TypeOK, Ctx
<1>2. /\ Arming("task") /\ Arming("task")' /\ ~Arming("irq") /\ ~Arming("irq")'
      /\ Due = systimer_next /\ Due' = systimer_next
  BY <1>1 DEF Arming, Due
<1>3. /\ Gap(compare)' = Gap(compare) /\ Gap(Due)' = Gap(Due)
      /\ \A c \in Ctx : Gap(target[c])' = Gap(target[c])
  BY <1>1, <1>2 DEF Gap
<1>4. /\ Gap(compare) \in Int /\ Gap(Due) \in Int /\ cs \in BOOLEAN
      /\ \A c \in Ctx : Gap(target[c]) \in Int
      /\ "task" \in Ctx /\ "irq" \in Ctx
  BY Numbers
<1>5. Gap(target["task"]) <= 0
  BY <1>4, InTimeIs
<1>6. Walk'
  <2>1. ASSUME NEW c \in Ctx
        PROVE  /\ wait'[c] <= Patience(c)' /\ (~Waiting(c)' => wait'[c] = 0)
               /\ ~Arming(c)' => retries'[c] = 0
               /\ Arming(c)' /\ retries'[c] > 0 => Gap(target[c])' = Margin - wait'[c]
    BY <1>1, <1>2, <1>3 DEF Heart, Walk, Ctx, Patience, Waiting
  <2>2. retries["task"] < Retries - 1
    BY <1>2, <1>4, <1>5, LastIsInTime
  <2>3. \A c \in Ctx : at'[c] = "retarget" => retries'[c] < Retries - 1
    BY <1>1, <2>2 DEF Ctx
  <2> QED
    BY <1>1, <1>2, <1>3, <1>4, <1>5, <2>1, <2>3 DEF Walk
<1>7. FirstPeriod'
  BY <1>1, <1>2, <1>3, <1>4, <1>5 DEF Heart, FirstPeriod
<1>8. Alive' /\ Overtaken'
  BY <1>1, <1>2 DEF Alive, Overtaken
<1>9. Upper'
  <2>1. Periods(retries["task"])' = Periods(retries["task"])
    BY <1>1
  <2>2. Reach' = Reach /\ Top' = Top /\ Coming' = Coming
    BY <1>1, <1>2, <1>3, <1>4, <1>5, <2>1 DEF Reach, Top, Coming
  <2>3. ~(Gap(compare) >= 1 /\ Own)
    BY <1>4, <1>5 DEF Own
  <2> QED
    BY <1>1, <1>2, <1>3, <2>2, <2>3 DEF Heart, Upper
<1>10. Lower'
  <2>1. Past' = Past
    BY <1>1, <1>2 DEF Past
  <2> QED
    BY <1>2, <1>3, <1>4, <2>1 DEF Heart, Lower
<1> QED
  BY <1>6, <1>7, <1>8, <1>9, <1>10 DEF Heart

\* A new target, Margin from now.
LEMMA MarginIs ==
  ASSUME Assumptions, TypeOK, NEW t, t = (clo + Margin) % Word
  PROVE  t \in Stamp /\ Gap(t) = Margin
<1>1. clo \in Stamp /\ Margin \in Nat /\ Margin < Half /\ Half \in Nat
  BY Numbers, Constants
<1>2. Distance(clo, clo) = 0
  BY <1>1, AheadIs
<1>3. (clo + Margin) % Word \in Stamp
  BY <1>1, Later
<1>4. Distance(clo, clo) + Margin < Half
  BY <1>1, <1>2
<1>5. Distance((clo + Margin) % Word, clo) = Distance(clo, clo) + Margin
  BY <1>1, <1>4, Later
<1> QED
  BY <1>1, <1>2, <1>3, <1>5 DEF Gap

LEMMA RetargetTaskKeepsHeart ==
  ASSUME Assumptions, TypeOK, Heart, Retarget("task")
  PROVE  Heart'
<1>1. at["task"] = "retarget" /\ at["irq"] = "off" /\ retries["task"] < Retries - 1
  BY DEF Retarget, Preempted, TypeOK, Ctx, Heart, Walk
<1>2. retries["task"] + 1 # Retries
  BY <1>1, Numbers, Constants
<1>3. PICK t : t = (clo + Margin) % Word
  OBVIOUS
<1>4. /\ at'["task"] = "write" /\ at'["irq"] = "off"
      /\ compare' = compare /\ clo' = clo /\ cs' = cs /\ systimer_next' = systimer_next
      /\ target'["task"] = t /\ target'["irq"] = target["irq"]
      /\ retries'["task"] = retries["task"] + 1 /\ retries'["irq"] = retries["irq"]
      /\ wait'["task"] = 0 /\ wait'["irq"] = wait["irq"]
  BY <1>1, <1>2, <1>3 DEF Retarget, TypeOK, Ctx
<1>5. /\ Arming("task") /\ Arming("task")' /\ ~Arming("irq") /\ ~Arming("irq")'
      /\ Due = systimer_next /\ Due' = systimer_next
  BY <1>1, <1>4 DEF Arming, Due
<1>6. /\ Gap(compare)' = Gap(compare) /\ Gap(Due)' = Gap(Due)
      /\ Gap(target["task"])' = Margin
  BY <1>3, <1>4, <1>5, MarginIs DEF Gap
<1>7. /\ Gap(compare) \in Int /\ Gap(Due) \in Int /\ cs \in BOOLEAN
      /\ \A c \in Ctx : wait[c] \in Nat /\ retries[c] \in Nat
      /\ "task" \in Ctx /\ "irq" \in Ctx
      /\ Gap(target["task"]) <= 0
  BY <1>1, Numbers DEF Heart, Walk
<1>8. Walk'
  <2>1. /\ wait["irq"] <= Patience("irq") /\ Patience("irq")' = Patience("irq")
        /\ Patience("task")' >= 0
        /\ ~Waiting("irq") => wait["irq"] = 0
        /\ retries["irq"] = 0
    BY <1>4, <1>5, <1>7, Constants DEF Heart, Walk, Patience
  <2>2. Waiting("irq")' <=> Waiting("irq")
    BY <1>1, <1>4 DEF Waiting
  <2>3. Waiting("task")' /\ Margin - 0 = Margin
    BY <1>4, Constants DEF Waiting
  <2> QED
    BY <1>4, <1>5, <1>6, <2>1, <2>2, <2>3 DEF Walk, Ctx
<1>9. FirstPeriod' /\ Alive' /\ Overtaken'
  BY <1>4, <1>5, <1>7 DEF FirstPeriod, Alive, Overtaken
<1>10. /\ Periods(retries["task"]) \in Nat /\ Spells(retries["task"]) \in Nat
       /\ Periods(retries["task"])' = Periods(retries["task"]) + Interval
       /\ Spells(retries["task"])' = Spells(retries["task"]) + MaxLate
  BY <1>4, <1>7, PeriodsAre
<1>11. Upper'
  <2>1. Reach' = Reach /\ Top' = Top /\ Coming' = Coming
    <3>1. Reach = Periods(retries["task"]) + 3 * Interval
      BY <1>1, <1>5, <1>7, Numbers, Constants DEF Reach
    <3>2. Reach' = Periods(retries["task"])' + 2 * Interval
      BY <1>4, <1>5, <1>10, Constants DEF Reach
    <3> QED
      BY <1>4, <1>5, <1>6, <1>10, <3>1, <3>2, Constants DEF Top, Coming
  <2>2. ~Own /\ ~Own'
    BY <1>1, <1>4 DEF Own
  <2> QED
    BY <1>4, <1>5, <1>6, <2>1, <2>2 DEF Heart, Upper
<1>12. Lower'
  <2>1. Past' >= Past /\ Past' \in Nat /\ Past \in Nat
    <3>1. wait["task"] <= MaxLate
      BY <1>1, <1>7, Constants DEF Heart, Walk, Patience
    <3> QED
      BY <1>4, <1>5, <1>7, <1>10, <3>1, Constants DEF Past
  <2> QED
    BY <1>5, <1>6, <1>7, <2>1, Constants DEF Heart, Lower
<1> QED
  BY <1>8, <1>9, <1>11, <1>12 DEF Heart

\* The heartbeat's target is ahead: it is in the compare and on record.
LEMMA IrqArmedKeepsHeart ==
  ASSUME Assumptions, TypeOK, Heart, Check("irq"), InTime("irq")
  PROVE  Heart'
<1>1. /\ at["irq"] = "check" /\ compare = target["irq"]
      /\ at'["irq"] = "cause" /\ at'["task"] = at["task"]
      /\ compare' = compare /\ clo' = clo /\ cs' = cs /\ systimer_next' = compare
      /\ target'["task"] = target["task"]
      /\ retries'["task"] = retries["task"] /\ retries'["irq"] = 0
      /\ wait'["task"] = wait["task"] /\ wait'["irq"] = 0
  BY DEF Check, Armed, TypeOK, Ctx, Heart, Walk
<1>2. /\ Arming("task")' <=> Arming("task")
      /\ Arming("irq") /\ ~Arming("irq")'
      /\ Due = compare /\ Due' = compare
  BY <1>1 DEF Arming, Due
<1>3. /\ Gap(compare)' = Gap(compare) /\ Gap(Due)' = Gap(compare) /\ Gap(Due) = Gap(compare)
      /\ Gap(target["task"])' = Gap(target["task"])
  BY <1>1, <1>2 DEF Gap
<1>4. /\ Gap(compare) \in Int /\ cs \in BOOLEAN /\ Gap(target["task"]) \in Int
      /\ \A c \in Ctx : wait[c] \in Nat /\ retries[c] \in Nat
      /\ "task" \in Ctx /\ "irq" \in Ctx
      /\ Periods(retries["task"]) \in Nat
  BY Numbers, PeriodsAre
<1>5. Gap(compare) >= 1
  BY <1>1, <1>4, InTimeIs
<1>6. Walk'
  <2>1. /\ wait["task"] <= Patience("task") /\ Patience("task")' = Patience("task")
        /\ Patience("irq")' >= 0
        /\ ~Waiting("task") => wait["task"] = 0
        /\ ~Arming("task") => retries["task"] = 0
        /\ Arming("task") /\ retries["task"] > 0
             => Gap(target["task"]) = Margin - wait["task"]
        /\ at["task"] = "retarget" => retries["task"] < Retries - 1
        /\ at["task"] = "retarget" => Gap(target["task"]) <= 0
        /\ at["task"] # "cause"
    BY <1>1, <1>4, Constants DEF Heart, Walk, Patience
  <2>2. Waiting("task")' <=> Waiting("task")
    BY <1>1 DEF Waiting
  <2> QED
    BY <1>1, <1>2, <1>3, <1>4, <1>5, <2>1, <2>2 DEF Walk, Ctx
<1>7. FirstPeriod'
  BY <1>1, <1>2, <1>3, <1>4 DEF Heart, FirstPeriod
<1>8. Alive'
  BY <1>3, <1>5 DEF Alive
<1>9. Upper'
  <2>1. Periods(retries["task"])' = Periods(retries["task"])
    BY <1>1
  <2>2. Reach' = Reach /\ Top' = Top
    BY <1>1, <1>2, <1>3, <1>4, <2>1 DEF Reach, Top
  <2>3. Coming' = Coming
    BY <1>1, <1>3 DEF Coming
  <2> QED
    BY <1>3, <1>4, <2>2, <2>3, Constants DEF Heart, Upper
<1>10. Lower'
  <2>1. Past' \in Nat /\ (Arming("task") => Past' = Past)
    <3>1. Spells(retries["task"]) \in Nat /\ Spells(retries["task"])' = Spells(retries["task"])
      BY <1>1, <1>4, PeriodsAre
    <3> QED
      BY <1>1, <1>2, <1>4, <3>1, Constants DEF Past
  <2>2. Periods(Retries + 1) \in Nat
    BY Constants, PeriodsAre
  <2> QED
    BY <1>2, <1>3, <1>4, <1>5, <2>1, <2>2 DEF Heart, Lower
<1>11. Overtaken'
  <2>1. ASSUME at["task"] = "check", Gap(target["task"]) >= 1
        PROVE  cs => Gap(target["task"]) <= Gap(compare)
    <3>1. Arming("task") /\ retries["task"] > 0
      <4>1. ~(Gap(target["task"]) <= 0)
        BY <1>4, <2>1
      <4>2. retries["task"] # 0
        BY <1>1, <2>1, <4>1 DEF Heart, FirstPeriod, Arming
      <4> QED
        BY <1>4, <2>1, <4>2 DEF Arming
    <3>2. CASE retries["irq"] = 0
      <4>1. cs => Gap(compare) <= 0
        BY <1>2, <2>1, <3>2 DEF Heart, Overtaken
      <4> QED
        BY <1>4, <1>5, <4>1
    <3>3. CASE retries["irq"] > 0
      <4>1. /\ Gap(target["irq"]) = Margin - wait["irq"]
            /\ Gap(target["task"]) = Margin - wait["task"]
            /\ wait["irq"] <= wait["task"]
        BY <1>2, <1>4, <3>1, <3>3 DEF Heart, Walk
      <4> QED
        BY <1>1, <1>4, <4>1, Constants
    <3> QED
      BY <1>4, <3>2, <3>3
  <2> QED
    BY <1>1, <1>2, <1>3, <1>4, <2>1 DEF Overtaken
<1> QED
  BY <1>6, <1>7, <1>8, <1>9, <1>10, <1>11 DEF Heart

\* The heartbeat's target has passed.
LEMMA IrqMissedKeepsHeart ==
  ASSUME Assumptions, TypeOK, Heart, Check("irq"), ~InTime("irq")
  PROVE  Heart'
<1>1. /\ at["irq"] = "check" /\ compare = target["irq"]
      /\ at'["irq"] = "retarget" /\ at'["task"] = at["task"]
      /\ compare' = compare /\ clo' = clo /\ cs' = cs /\ target' = target
      /\ retries' = retries /\ wait' = wait /\ systimer_next' = systimer_next
  BY DEF Check, TypeOK, Ctx, Heart, Walk
<1>2. /\ Arming("task")' <=> Arming("task")
      /\ Arming("irq") /\ Arming("irq")'
      /\ Due = compare /\ Due' = compare
  BY <1>1 DEF Arming, Due
<1>3. /\ Gap(compare)' = Gap(compare) /\ Gap(Due)' = Gap(compare) /\ Gap(Due) = Gap(compare)
      /\ \A c \in Ctx : Gap(target[c])' = Gap(target[c])
  BY <1>1, <1>2 DEF Gap
<1>4. /\ Gap(compare) \in Int /\ cs \in BOOLEAN
      /\ \A c \in Ctx : Gap(target[c]) \in Int
      /\ "task" \in Ctx /\ "irq" \in Ctx
  BY Numbers
<1>5. Gap(compare) <= 0
  BY <1>1, <1>4, InTimeIs
<1>6. Walk'
  <2>1. ASSUME NEW c \in Ctx
        PROVE  /\ wait'[c] <= Patience(c)' /\ (~Waiting(c)' => wait'[c] = 0)
               /\ ~Arming(c)' => retries'[c] = 0
               /\ Arming(c)' /\ retries'[c] > 0 => Gap(target[c])' = Margin - wait'[c]
    BY <1>1, <1>2, <1>3 DEF Heart, Walk, Ctx, Patience, Waiting
  <2>2. retries["irq"] < Retries - 1
    BY <1>1, <1>2, <1>4, <1>5, LastIsInTime
  <2>3. \A c \in Ctx : at'[c] = "retarget" => retries'[c] < Retries - 1
    BY <1>1, <2>2 DEF Ctx, Heart, Walk
  <2> QED
    BY <1>1, <1>2, <1>3, <1>4, <2>1, <2>3 DEF Heart, Walk
<1>7. FirstPeriod'
  BY <1>1, <1>2, <1>3, <1>4 DEF Heart, FirstPeriod
<1>8. Alive'
  BY <1>2 DEF Alive
<1>9. Upper'
  <2>1. Periods(retries["task"])' = Periods(retries["task"])
    BY <1>1
  <2>2. Reach' = Reach /\ Top' = Top /\ Coming' = Coming
    BY <1>1, <1>2, <1>3, <1>4, <2>1 DEF Reach, Top, Coming
  <2> QED
    BY <1>3, <1>4, <1>5, <2>2 DEF Heart, Upper
<1>10. Lower'
  <2>1. Past' = Past
    BY <1>1, <1>2 DEF Past
  <2> QED
    BY <1>2, <1>3, <1>4, <2>1 DEF Heart, Lower
<1>11. Overtaken'
  BY <1>1, <1>2, <1>3, <1>4, <1>5 DEF Overtaken
<1> QED
  BY <1>6, <1>7, <1>8, <1>9, <1>10, <1>11 DEF Heart

LEMMA RetargetIrqKeepsHeart ==
  ASSUME Assumptions, TypeOK, Heart, Retarget("irq")
  PROVE  Heart'
<1>1. /\ at["irq"] = "retarget" /\ compare = target["irq"]
      /\ retries["irq"] < Retries - 1
  BY Numbers DEF Retarget, Heart, Walk
<1>2. retries["irq"] + 1 # Retries
  BY <1>1, Numbers, Constants
<1>3. PICK t : t = (clo + Margin) % Word
  OBVIOUS
<1>4. /\ at'["irq"] = "write" /\ at'["task"] = at["task"]
      /\ compare' = compare /\ clo' = clo /\ cs' = cs /\ systimer_next' = systimer_next
      /\ target'["irq"] = t /\ target'["task"] = target["task"]
      /\ retries'["irq"] = retries["irq"] + 1 /\ retries'["task"] = retries["task"]
      /\ wait'["irq"] = 0 /\ wait'["task"] = wait["task"]
  BY <1>1, <1>2, <1>3 DEF Retarget, TypeOK, Ctx
<1>5. /\ Arming("task")' <=> Arming("task")
      /\ Arming("irq") /\ Arming("irq")'
      /\ Due = compare /\ Due' = t
  BY <1>1, <1>4 DEF Arming, Due
<1>6. /\ Gap(compare)' = Gap(compare) /\ Gap(Due)' = Margin /\ Gap(Due) = Gap(compare)
      /\ Gap(target["task"])' = Gap(target["task"])
      /\ Gap(target["irq"])' = Margin
  BY <1>3, <1>4, <1>5, MarginIs DEF Gap
<1>7. /\ Gap(compare) \in Int /\ cs \in BOOLEAN /\ Gap(target["task"]) \in Int
      /\ \A c \in Ctx : wait[c] \in Nat /\ retries[c] \in Nat
      /\ "task" \in Ctx /\ "irq" \in Ctx
      /\ Periods(retries["task"]) \in Nat
  BY Numbers, PeriodsAre
<1>8. Walk'
  <2>1. /\ wait["task"] <= Patience("task") /\ Patience("task")' = Patience("task")
        /\ Patience("irq")' >= 0
        /\ ~Waiting("task") => wait["task"] = 0
        /\ ~Arming("task") => retries["task"] = 0
        /\ Arming("task") /\ retries["task"] > 0
             => Gap(target["task"]) = Margin - wait["task"]
        /\ at["task"] = "retarget" => retries["task"] < Retries - 1
        /\ at["task"] = "retarget" => Gap(target["task"]) <= 0
        /\ at["task"] # "cause"
    BY <1>4, <1>7, Constants DEF Heart, Walk, Patience
  <2>2. Waiting("task")' <=> Waiting("task")
    BY <1>4 DEF Waiting
  <2>3. Waiting("irq")' /\ Margin - 0 = Margin
    BY <1>4, Constants DEF Waiting
  <2> QED
    BY <1>4, <1>5, <1>6, <1>7, <2>1, <2>2, <2>3 DEF Walk, Ctx
<1>9. FirstPeriod'
  BY <1>1, <1>4, <1>5, <1>6, <1>7 DEF Heart, FirstPeriod
<1>10. Alive' /\ Overtaken'
  BY <1>4, <1>5, <1>7 DEF Alive, Overtaken
<1>11. Upper'
  <2>1. Periods(retries["task"])' = Periods(retries["task"])
    BY <1>4
  <2>2. Reach' = Reach /\ Top' = Top /\ Reach \in Int /\ Reach >= 2 * Interval
    BY <1>4, <1>5, <1>6, <1>7, <2>1, Constants DEF Reach, Top
  <2>3. Coming' <= 2 * Interval /\ Coming' \in Int
    BY <1>4, <1>6, <1>7, Constants DEF Coming
  <2> QED
    BY <1>5, <1>6, <1>7, <2>2, <2>3, Constants DEF Heart, Upper
<1>12. Lower'
  <2>1. Arming("task") => Past' = Past
    BY <1>4, <1>5 DEF Past
  <2>2. ~Arming("task") =>
          /\ Past' = Deep + 2 * MaxLate
          /\ Past = Deep + wait["irq"] + IF retries["irq"] = 0 THEN MaxLate ELSE 2 * MaxLate
    BY <1>4, <1>5, <1>7, Constants DEF Past
  <2>3. /\ wait["irq"] <= MaxLate
        /\ retries["irq"] > 0 => Gap(compare) = Margin - wait["irq"]
    BY <1>1, <1>5, <1>7, Constants DEF Heart, Walk, Patience
  <2>4. Past' \in Nat
    <3>1. Spells(retries["task"]) \in Nat /\ Spells(retries["task"])' = Spells(retries["task"])
      BY <1>4, <1>7, PeriodsAre
    <3> QED
      BY <1>4, <1>5, <1>7, <3>1, Constants DEF Past
  <2>5. Gap(compare) >= -Past'
    <3>1. CASE Arming("task")
      BY <1>7, <2>1, <3>1 DEF Heart, Lower
    <3>2. CASE ~Arming("task") /\ retries["irq"] = 0
      BY <1>7, <2>2, <2>3, <2>4, <3>2, Constants DEF Heart, Lower
    <3>3. CASE ~Arming("task") /\ retries["irq"] > 0
      BY <1>7, <2>2, <2>3, <3>3, Constants
    <3> QED
      BY <1>7, <3>1, <3>2, <3>3
  <2> QED
    BY <1>5, <1>6, <1>7, <2>1, <2>4, <2>5, Constants DEF Heart, Lower
<1> QED
  BY <1>8, <1>9, <1>10, <1>11, <1>12 DEF Heart

\* The heartbeat takes the match: the next period is due.
LEMMA HeartbeatKeepsHeart ==
  ASSUME Assumptions, TypeOK, Heart, Heartbeat
  PROVE  Heart'
<1>1. /\ cs /\ at["irq"] = "off" /\ retries["irq"] = 0
      /\ at'["irq"] = "write" /\ at'["task"] = at["task"]
      /\ compare' = compare /\ clo' = clo /\ cs' = FALSE /\ systimer_next' = systimer_next
      /\ target'["irq"] = NextPeriod /\ target'["task"] = target["task"]
      /\ retries' = retries
      /\ wait'["irq"] = 0 /\ wait'["task"] = wait["task"]
  BY DEF Heartbeat, TypeOK, Ctx, Heart, Walk, Arming
<1>2. /\ Arming("task")' <=> Arming("task")
      /\ ~Arming("irq") /\ Arming("irq")'
      /\ Due = systimer_next /\ Due' = NextPeriod
  BY <1>1 DEF Arming, Due
<1>3. /\ Gap(compare) \in Int /\ Gap(Due) \in Int /\ Gap(target["task"]) \in Int
      /\ \A c \in Ctx : /\ wait[c] \in Nat
                        /\ retries[c] \in Nat /\ retries[c] <= Retries - 1
      /\ "task" \in Ctx /\ "irq" \in Ctx
      /\ clo \in Stamp /\ systimer_next \in Stamp
  BY Numbers
<1>4. /\ Periods(retries["task"]) \in Nat
      /\ Periods(retries["task"]) + Interval <= Periods(Retries)
  BY <1>3, Attempt
<1>5. Distance(NextPeriod, clo) = Gap(Due) + Interval
  <2>1. Reach \in Int /\ Reach <= Deep
    BY <1>3, <1>4, Constants DEF Reach
  <2>2. Gap(Due) + Interval < Half
    BY <1>1, <1>3, <2>1, Constants DEF Heart, Upper, Coming
  <2>3. Distance(systimer_next, clo) + Interval < Half /\ Interval \in Nat /\ Interval < Half
    BY <1>2, <2>2, Constants DEF Gap
  <2>4. Distance((systimer_next + Interval) % Word, clo)
          = Distance(systimer_next, clo) + Interval
    BY <1>3, <2>3, Later
  <2> QED
    BY <1>2, <2>4 DEF NextPeriod, Gap
<1>6. /\ Gap(compare)' = Gap(compare) /\ Gap(Due)' = Gap(Due) + Interval
      /\ Gap(target["task"])' = Gap(target["task"])
  BY <1>1, <1>2, <1>5 DEF Gap
<1>7. Walk'
  <2>1. /\ wait["task"] <= Patience("task") /\ Patience("task")' = Patience("task")
        /\ Patience("irq")' >= 0
        /\ ~Waiting("task") => wait["task"] = 0
        /\ ~Arming("task") => retries["task"] = 0
        /\ Arming("task") /\ retries["task"] > 0
             => Gap(target["task"]) = Margin - wait["task"]
        /\ at["task"] = "retarget" => retries["task"] < Retries - 1
        /\ at["task"] = "retarget" => Gap(target["task"]) <= 0
        /\ at["task"] # "cause"
    BY <1>1, <1>3, Constants DEF Heart, Walk, Patience
  <2>2. Waiting("task")' <=> Waiting("task")
    BY <1>1 DEF Waiting
  <2>3. Waiting("irq")'
    BY <1>1 DEF Waiting
  <2> QED
    BY <1>1, <1>2, <1>3, <1>6, <2>1, <2>2, <2>3 DEF Walk, Ctx
<1>8. FirstPeriod'
  BY <1>1, <1>2, <1>3, <1>6 DEF Heart, FirstPeriod
<1>9. Alive'
  BY <1>2 DEF Alive
<1>10. Upper'
  <2>1. Periods(retries["task"])' = Periods(retries["task"])
    BY <1>1
  <2>2. Reach' = Reach /\ Top' = Top
    BY <1>1, <1>2, <1>6, <2>1 DEF Reach, Top
  <2>3. Coming' = Coming
    BY <1>1, <1>3, <1>6, Constants DEF Coming
  <2>4. Own' <=> Own
    BY <1>1 DEF Own
  <2> QED
    BY <1>1, <1>2, <1>3, <1>6, <2>2, <2>3, <2>4, Constants DEF Heart, Upper
<1>11. Lower'
  <2>1. Past \in Nat /\ Past' \in Nat /\ Past <= Past'
    <3>1. /\ Spells(retries["task"]) \in Nat
          /\ Spells(retries["task"])' = Spells(retries["task"])
      BY <1>1, <1>3, PeriodsAre
    <3>2. wait["irq"] <= MaxLate
      BY <1>1, <1>3, Constants DEF Heart, Walk, Patience
    <3> QED
      BY <1>1, <1>2, <1>3, <3>1, <3>2, Constants DEF Past
  <2> QED
    BY <1>1, <1>2, <1>3, <1>6, <2>1, Constants DEF Heart, Lower
<1>12. Overtaken'
  BY <1>1, <1>2, <1>3, <1>6 DEF Heart, Overtaken
<1> QED
  BY <1>7, <1>8, <1>9, <1>10, <1>11, <1>12 DEF Heart

\* The heartbeat is over.
LEMMA CauseKeepsHeart ==
  ASSUME Assumptions, TypeOK, Heart, Cause
  PROVE  Heart'
<1>1. /\ at["irq"] = "cause" /\ compare = systimer_next
      /\ at'["irq"] = "off" /\ at'["task"] = at["task"]
      /\ compare' = compare /\ clo' = clo /\ cs' = cs /\ systimer_next' = systimer_next
      /\ target' = target /\ retries' = retries
      /\ wait'["irq"] = 0 /\ wait'["task"] = wait["task"]
  BY DEF Cause, TypeOK, Ctx, Heart, Walk
<1>2. /\ Arming("task")' <=> Arming("task")
      /\ ~Arming("irq") /\ ~Arming("irq")'
      /\ Due = compare /\ Due' = compare
  BY <1>1 DEF Arming, Due
<1>3. /\ Gap(compare)' = Gap(compare) /\ Gap(Due)' = Gap(compare) /\ Gap(Due) = Gap(compare)
      /\ Gap(target["task"])' = Gap(target["task"])
  BY <1>1, <1>2 DEF Gap
<1>4. /\ Gap(compare) \in Int /\ cs \in BOOLEAN /\ Gap(target["task"]) \in Int
      /\ \A c \in Ctx : /\ wait[c] \in Nat /\ retries[c] \in Nat
      /\ "task" \in Ctx /\ "irq" \in Ctx
  BY Numbers
<1>5. Walk'
  <2>1. /\ wait["task"] <= Patience("task") /\ Patience("task")' = Patience("task")
        /\ Patience("irq")' >= 0 /\ retries["irq"] = 0
        /\ ~Waiting("task") => wait["task"] = 0
        /\ ~Arming("task") => retries["task"] = 0
        /\ Arming("task") /\ retries["task"] > 0
             => Gap(target["task"]) = Margin - wait["task"]
        /\ at["task"] = "retarget" => retries["task"] < Retries - 1
        /\ at["task"] = "retarget" => Gap(target["task"]) <= 0
        /\ at["task"] # "cause"
    BY <1>1, <1>2, <1>4, Constants DEF Heart, Walk, Patience
  <2>2. Waiting("task")' <=> Waiting("task")
    BY <1>1 DEF Waiting
  <2> QED
    BY <1>1, <1>2, <1>3, <1>4, <2>1, <2>2 DEF Walk, Ctx
<1>6. FirstPeriod'
  BY <1>1, <1>2, <1>3, <1>4 DEF Heart, FirstPeriod
<1>7. Alive'
  BY <1>1, <1>2, <1>3 DEF Heart, Alive
<1>8. Upper'
  <2>1. Periods(retries["task"])' = Periods(retries["task"])
    BY <1>1
  <2>2. Reach' = Reach /\ Top' = Top
    BY <1>1, <1>2, <1>3, <2>1 DEF Reach, Top
  <2>3. Coming' = Coming
    BY <1>1, <1>3 DEF Coming
  <2> QED
    BY <1>1, <1>2, <1>3, <1>4, <2>2, <2>3, Constants DEF Heart, Upper
<1>9. Lower'
  <2>1. Arming("task") => Past' = Past
    BY <1>1, <1>2 DEF Past
  <2>2. ~Arming("task") => Past' = Deep
    BY <1>1, <1>2, Constants DEF Past
  <2>3. Gap(compare) >= -Deep
    <3>1. wait["irq"] <= MaxLate /\ Gap(compare) >= 1 - wait["irq"]
      BY <1>1, <1>2, <1>4, Constants DEF Heart, Walk, Patience
    <3>2. MaxLate <= Deep
      <4>1. 0 \in Nat /\ 0 <= Retries - 1
        BY Constants
      <4>2. Spells(0) + MaxLate <= Spells(Retries)
        BY <4>1, Attempt
      <4> QED
        BY <4>2, Constants
    <3> QED
      BY <1>4, <3>1, <3>2, Constants
  <2>4. Periods(Retries + 1) \in Nat
    BY Constants, PeriodsAre
  <2> QED
    BY <1>2, <1>3, <1>4, <2>1, <2>2, <2>3, <2>4 DEF Heart, Lower
<1>10. Overtaken'
  BY <1>1, <1>2, <1>3, <1>4 DEF Heart, Overtaken
<1> QED
  BY <1>5, <1>6, <1>7, <1>8, <1>9, <1>10 DEF Heart

\* The state at power-on, the first period computed.
LEMMA InitHeart ==
  ASSUME Assumptions, Init
  PROVE  TypeOK /\ Heart
<1>1. /\ Interval \in Nat \ {0} /\ Word \in Nat /\ Half \in Nat /\ Word = 2 * Half
      /\ 3 * Interval < Half /\ Retries \in Nat /\ Retries > 1
      /\ Periods(0) = 0 /\ Spells(0) = 0
      /\ Periods(Retries) \in Nat /\ Margin \in Nat \ {0} /\ MaxLate \in Nat \ {0}
      /\ Spells(Retries) \in Nat
  <2>1. Word \in Nat /\ Word = 2 * Half
    BY Even
  <2> QED
    BY <2>1, Constants
<1>2. /\ clo = Interval /\ compare = 0 /\ cs = FALSE /\ systimer_next = 0
      /\ at["task"] = "write" /\ at["irq"] = "off"
      /\ target["task"] = 2 * Interval /\ target["irq"] = 0
      /\ retries = [c \in Ctx |-> 0] /\ wait = [c \in Ctx |-> 0]
  BY <1>1 DEF Init, Ctx
<1>3. clo \in Stamp /\ compare \in Stamp /\ target["task"] \in Stamp
  BY <1>1, <1>2, StampIs
<1>4. TypeOK
  <2>1. target \in [Ctx -> Stamp]
    BY <1>1, <1>2, <1>3 DEF Init, Ctx
  <2>2. retries \in [Ctx -> 0..Retries - 1] /\ wait \in [Ctx -> Nat]
    BY <1>1, <1>2
  <2>3. tb_Elapsed \in 0..Wide - 1
    BY <1>1, <1>2 DEF Init, Wide
  <2>4. at \in [Ctx -> {"off", "write", "check", "retarget", "cause"}]
    BY DEF Init
  <2>5. /\ clo \in Stamp /\ compare \in Stamp /\ systimer_next \in Stamp
        /\ tbp_CLO \in Stamp
    BY <1>2, <1>3 DEF Init
  <2>6. chi \in 0..1 /\ cs \in BOOLEAN /\ late \in BOOLEAN /\ now \in Stamp \cup {NoStamp}
    <3>1. chi = 0 /\ cs = FALSE /\ late = FALSE /\ now = NoStamp
      BY DEF Init
    <3>2. chi \in 0..1
      BY <3>1
    <3>3. cs \in BOOLEAN /\ late \in BOOLEAN
      BY <3>1
    <3>4. now \in Stamp \cup {NoStamp}
      BY <3>1
    <3> QED
      BY <3>2, <3>3, <3>4
  <2> QED
    BY <2>1, <2>2, <2>3, <2>4, <2>5, <2>6 DEF TypeOK
<1>5. Arming("task") /\ ~Arming("irq") /\ Due = 0
  BY <1>2 DEF Arming, Due
<1>6. Gap(compare) = -Interval /\ Gap(Due) = -Interval /\ Gap(target["task"]) = Interval
  <2>1. Distance(compare, clo) = -Interval
    BY <1>1, <1>2, <1>3, DistanceIs
  <2>2. Distance(target["task"], clo) = Interval
    BY <1>1, <1>2, <1>3, DistanceIs
  <2> QED
    BY <1>2, <1>5, <2>1, <2>2 DEF Gap
<1>7. Walk
  BY <1>1, <1>2, <1>5 DEF Walk, Ctx, Patience
<1>8. FirstPeriod /\ Alive /\ Overtaken
  BY <1>1, <1>2, <1>5, <1>6 DEF FirstPeriod, Alive, Overtaken, Ctx
<1>9. Upper
  <2>1. Reach = 2 * Interval /\ Top = Reach
    BY <1>1, <1>2, <1>5 DEF Reach, Top, Ctx
  <2> QED
    BY <1>1, <1>2, <1>5, <1>6, <2>1 DEF Upper, Coming
<1>10. Lower
  <2>1. Past = Interval
    BY <1>1, <1>2, <1>5 DEF Past, Ctx
  <2> QED
    BY <1>1, <1>2, <1>5, <1>6, <2>1 DEF Lower
<1> QED
  BY <1>4, <1>7, <1>8, <1>9, <1>10 DEF Heart

\* Every step of the code and of the counter.
LEMMA HeartKept ==
  ASSUME Assumptions, TypeOK, Heart, [Next]_vars
  PROVE  Heart'
<1>1. CASE Tick
  BY <1>1, TickKeepsHeart
<1>2. ASSUME NEW c \in Ctx, Write(c)
      PROVE  Heart'
  BY <1>2, WriteTaskKeepsHeart, WriteIrqKeepsHeart DEF Ctx
<1>3. ASSUME NEW c \in Ctx, Check(c)
      PROVE  Heart'
  BY <1>3, TaskArmedKeepsHeart, TaskMissedKeepsHeart,
     IrqArmedKeepsHeart, IrqMissedKeepsHeart DEF Ctx
<1>4. ASSUME NEW c \in Ctx, Retarget(c)
      PROVE  Heart'
  BY <1>4, RetargetTaskKeepsHeart, RetargetIrqKeepsHeart DEF Ctx
<1>5. CASE Heartbeat
  BY <1>5, HeartbeatKeepsHeart
<1>6. CASE Cause
  BY <1>6, CauseKeepsHeart
<1>7. CASE ReadEClock \/ UpdateEClock \/ UNCHANGED vars
  <2>1. UNCHANGED <<clo, cs, compare, at, target, retries, systimer_next, wait>>
    BY <1>7 DEF ReadEClock, UpdateEClock, vars, armVars
  <2> QED
    BY <2>1 DEF Heart, Walk, FirstPeriod, Alive, Upper, Lower, Overtaken, Arming, Due,
                Coming, Own, Reach, Top, Past, Gap, Waiting, Patience
<1> QED
  BY <1>1, <1>2, <1>3, <1>4, <1>5, <1>6, <1>7 DEF Next

-----------------------------------------------------------------------------
(* The types.                                                              *)

LEMMA TypesKept ==
  ASSUME Assumptions, TypeOK, Heart, [Next]_vars
  PROVE  TypeOK'
<1> USE DEF TypeOK
<1>1. /\ clo \in Stamp /\ compare \in Stamp /\ systimer_next \in Stamp
      /\ \A c \in Ctx : target[c] \in Stamp /\ retries[c] \in Nat /\ wait[c] \in Nat
      /\ 0 \in Stamp /\ NextPeriod \in Stamp /\ (clo + Margin) % Word \in Stamp
      /\ 0 \in 0..Retries - 1
  <2>1. /\ clo \in Stamp /\ compare \in Stamp /\ systimer_next \in Stamp
        /\ \A c \in Ctx : target[c] \in Stamp /\ retries[c] \in Nat /\ wait[c] \in Nat
    BY Numbers
  <2>2. Word \in Nat \ {0} /\ Interval \in Nat /\ Margin \in Nat
        /\ Interval < Half /\ Margin < Half
    BY Even, Constants
  <2>3. NextPeriod \in Stamp /\ (clo + Margin) % Word \in Stamp
    BY <2>1, <2>2, Later DEF NextPeriod
  <2> QED
    BY <2>1, <2>2, <2>3, StampIs, Constants
<1>2. CASE Tick
  <2>1. clo' \in Stamp
    BY <1>2, TickMoves
  <2>2. wait' \in [Ctx -> Nat]
    BY <1>1, <1>2 DEF Tick
  <2>3. chi' \in 0..1 /\ cs' \in BOOLEAN
    BY <1>2 DEF Tick
  <2> QED
    BY <1>2, <2>1, <2>2, <2>3 DEF Tick, armVars, eclockVars
<1>3. ASSUME NEW c \in Ctx, Write(c)
      PROVE  TypeOK'
  BY <1>1, <1>3 DEF Write, eclockVars
<1>4. ASSUME NEW c \in Ctx, NEW t \in Stamp, Armed(c, t)
      PROVE  /\ at' \in [Ctx -> {"off", "write", "check", "retarget", "cause"}]
             /\ target' \in [Ctx -> Stamp] /\ retries' \in [Ctx -> 0..Retries - 1]
             /\ systimer_next' \in Stamp /\ wait' \in [Ctx -> Nat]
  BY <1>1, <1>4 DEF Armed
<1>5. ASSUME NEW c \in Ctx, Check(c)
      PROVE  TypeOK'
  <2>1. target[c] \in Stamp
    BY <1>1
  <2>2. /\ at' \in [Ctx -> {"off", "write", "check", "retarget", "cause"}]
        /\ target' \in [Ctx -> Stamp] /\ retries' \in [Ctx -> 0..Retries - 1]
        /\ systimer_next' \in Stamp /\ wait' \in [Ctx -> Nat]
    <3>1. CASE InTime(c)
      BY <1>4, <1>5, <2>1, <3>1 DEF Check
    <3>2. CASE ~InTime(c)
      BY <1>5, <3>2 DEF Check
    <3> QED
      BY <3>1, <3>2
  <2> QED
    BY <1>5, <2>2 DEF Check, eclockVars
<1>6. ASSUME NEW c \in Ctx, Retarget(c)
      PROVE  TypeOK'
  <2>1. PICK t \in Stamp : t = (clo + Margin) % Word
    BY <1>1
  <2>2. retries[c] < Retries - 1
    BY <1>6 DEF Retarget, Heart, Walk
  <2>3. retries[c] + 1 \in 0..Retries - 1 /\ retries[c] + 1 # Retries
    BY <1>1, <2>2, Constants
  <2>4. /\ target' = [target EXCEPT ![c] = t]
        /\ retries' = [retries EXCEPT ![c] = @ + 1]
        /\ at' = [at EXCEPT ![c] = "write"]
        /\ wait' = [wait EXCEPT ![c] = 0] /\ systimer_next' = systimer_next
    BY <1>6, <2>1, <2>3 DEF Retarget
  <2>5. /\ at' \in [Ctx -> {"off", "write", "check", "retarget", "cause"}]
        /\ target' \in [Ctx -> Stamp] /\ retries' \in [Ctx -> 0..Retries - 1]
        /\ systimer_next' \in Stamp /\ wait' \in [Ctx -> Nat]
    BY <2>1, <2>3, <2>4
  <2> QED
    BY <1>6, <2>5 DEF Retarget, eclockVars
<1>7. CASE Heartbeat
  BY <1>1, <1>7 DEF Heartbeat, Ctx, eclockVars
<1>8. ASSUME NEW t \in Stamp, EClockUpdate(t)
      PROVE  tbp_CLO' \in Stamp /\ tb_Elapsed' \in 0..Wide - 1
  <2>1. Word \in Nat \ {0} /\ t \in Nat /\ tbp_CLO \in Nat /\ tb_Elapsed \in Nat
    BY Even, StampIs DEF Wide
  <2>2. PICK d : d = tb_Elapsed + ((t - tbp_CLO) % Word)
    OBVIOUS
  <2>3. d \in Int /\ tb_Elapsed' = d % Wide /\ Wide \in Nat \ {0}
    BY <1>8, <2>1, <2>2 DEF EClockUpdate, Wide
  <2>4. d % Wide \in 0..Wide - 1
    <3> HIDE DEF Wide
    <3> QED
      BY <2>3
  <2> QED
    BY <1>8, <2>3, <2>4 DEF EClockUpdate
<1>9. CASE Cause
  <2>1. tbp_CLO' \in Stamp /\ tb_Elapsed' \in 0..Wide - 1
    BY <1>1, <1>8, <1>9 DEF Cause
  <2> QED
    BY <1>9, <2>1 DEF Cause, Ctx
<1>10. CASE ReadEClock
  BY <1>10 DEF ReadEClock, armVars
<1>11. CASE UpdateEClock
  <2>1. tbp_CLO' \in Stamp /\ tb_Elapsed' \in 0..Wide - 1
    BY <1>8, <1>11 DEF UpdateEClock
  <2> QED
    BY <1>11, <2>1 DEF UpdateEClock, armVars
<1>12. CASE UNCHANGED vars
  BY <1>12 DEF vars, armVars, eclockVars
<1> QED
  BY <1>2, <1>3, <1>5, <1>6, <1>7, <1>9, <1>10, <1>11, <1>12 DEF Next

-----------------------------------------------------------------------------
(* The grid of the first period.                                           *)

LEMMA DivIs ==
  ASSUME NEW n \in Nat \ {0}, NEW x \in Int
  PROVE  /\ x \div n \in Int /\ x % n \in Nat /\ x % n < n
         /\ x = n * (x \div n) + (x % n)
OBVIOUS

\* Whole words do not count.
LEMMA WholeWords ==
  ASSUME NEW n \in Nat \ {0}, NEW q \in Int, NEW x \in Int
  PROVE  (n * q + x) % n = x % n
<1>1. PICK r \in Nat, a \in Int : r = x % n /\ r < n /\ x = n * a + r
  BY DivIs
<1>2. PICK y \in Int : y = n * q + x
  OBVIOUS
<1>3. PICK s \in Nat, b \in Int : s = y % n /\ s < n /\ y = n * b + s
  BY DivIs
<1>4. PICK d \in Int : d = b - a - q
  OBVIOUS
<1>5. n * d = r - s
  <2>1. PICK i \in Int : i = n * a
    OBVIOUS
  <2>2. PICK j \in Int : j = n * b
    OBVIOUS
  <2>3. PICK k \in Int : k = n * q
    OBVIOUS
  <2>4. n * d = j - i - k
    BY <1>4, <2>1, <2>2, <2>3
  <2>5. x = i + r /\ y = k + x /\ y = j + s
    BY <1>1, <1>2, <1>3, <2>1, <2>2, <2>3
  <2> QED
    BY <2>4, <2>5
<1>6. d = 0
  <2>1. CASE d >= 1
    <3>1. n * d >= n
      BY <2>1
    <3> QED
      BY <1>1, <1>3, <1>5, <3>1
  <2>2. CASE d <= -1
    <3>1. n * d <= -n
      BY <2>2
    <3> QED
      BY <1>1, <1>3, <1>5, <3>1
  <2> QED
    BY <2>1, <2>2
<1>7. r = s
  BY <1>5, <1>6
<1> QED
  BY <1>1, <1>2, <1>3, <1>7

\* A period later is still on the grid, across a wrap of the counter.
LEMMA OnePeriodLater ==
  ASSUME Assumptions, NEW t \in Stamp, Periodic(t)
  PROVE  Periodic((t + Interval) % Word)
<1>1. Word \in Nat \ {0} /\ Interval \in Nat \ {0}
  BY Even, Constants
<1>2. PICK k \in Stamp : t = Periods(k) % Word
  BY DEF Periodic
<1>3. k \in Nat /\ k < Word
  BY StampIs
<1>4. PICK p \in Nat : p = Periods(k)
  BY <1>3, PeriodsAre
<1>5. PICK q \in Int : p = Word * q + t
  <2>1. p = Word * (p \div Word) + (p % Word) /\ p \div Word \in Int
    BY <1>1, DivIs
  <2> QED
    BY <1>2, <1>4, <2>1
<1>6. (p + Interval) % Word = (t + Interval) % Word
  <2>1. t \in Nat
    BY StampIs
  <2>2. p + Interval = Word * q + (t + Interval) /\ t + Interval \in Int
    BY <1>1, <1>5, <2>1
  <2> QED
    BY <1>1, <2>2, WholeWords
<1>7. Periods(k + 1) = p + Interval
  BY <1>3, <1>4, PeriodsAre
<1>8. CASE k + 1 < Word
  <2>1. k + 1 \in Stamp
    BY <1>1, <1>3, <1>8, StampIs
  <2> QED
    BY <1>6, <1>7, <2>1 DEF Periodic
<1>9. CASE k + 1 = Word
  <2>1. 0 \in Stamp /\ Periods(0) = 0
    BY <1>1, StampIs, Constants
  <2>2. Periods(Word) = Word * Interval + 0
    BY <1>1 DEF Periods
  <2>3. (Word * Interval + 0) % Word = 0 % Word
    BY <1>1, WholeWords
  <2>4. (t + Interval) % Word = Periods(0) % Word
    BY <1>6, <1>7, <1>9, <2>1, <2>2, <2>3
  <2> QED
    BY <2>1, <2>4 DEF Periodic
<1> QED
  BY <1>1, <1>3, <1>8, <1>9

LEMMA GridKept ==
  ASSUME Assumptions, TypeOK, Grid, [Next]_vars
  PROVE  Grid'
<1> SUFFICES ASSUME ~late'
             PROVE  /\ Periodic(systimer_next')
                    /\ \A c \in Ctx : Arming(c)' => Periodic(target'[c])
  BY DEF Grid
<1>1. at \in [Ctx -> {"off", "write", "check", "retarget", "cause"}]
      /\ target \in [Ctx -> Stamp] /\ systimer_next \in Stamp
  BY DEF TypeOK
<1>2. CASE \/ Tick \/ (\E c \in Ctx : Write(c)) \/ Cause \/ ReadEClock \/ UpdateEClock
           \/ UNCHANGED vars
  <2>1. late' = late /\ systimer_next' = systimer_next /\ target' = target
        /\ \A c \in Ctx : Arming(c)' => Arming(c)
    BY <1>1, <1>2 DEF Tick, Write, Cause, ReadEClock, UpdateEClock, armVars, vars, Arming
  <2> QED
    BY <2>1 DEF Grid
<1>3. ASSUME NEW c \in Ctx, Check(c)
      PROVE  /\ Periodic(systimer_next')
             /\ \A d \in Ctx : Arming(d)' => Periodic(target'[d])
  <2>1. late' = late /\ Arming(c)
    BY <1>3 DEF Check, Arming
  <2>2. Periodic(systimer_next) /\ \A d \in Ctx : Arming(d) => Periodic(target[d])
    BY <2>1 DEF Grid
  <2>3. CASE InTime(c)
    <3>1. systimer_next' = target[c] /\ target' = [target EXCEPT ![c] = 0]
          /\ at' = [at EXCEPT ![c] = IF c = "irq" THEN "cause" ELSE "off"]
      BY <1>3, <2>3 DEF Check, Armed
    <3> QED
      BY <1>1, <2>1, <2>2, <3>1 DEF Arming
  <2>4. CASE ~InTime(c)
    <3>1. systimer_next' = systimer_next /\ target' = target
          /\ at' = [at EXCEPT ![c] = "retarget"]
      BY <1>3, <2>4 DEF Check
    <3> QED
      BY <1>1, <2>1, <2>2, <3>1 DEF Arming
  <2> QED
    BY <2>3, <2>4
<1>4. ASSUME NEW c \in Ctx, Retarget(c)
      PROVE  FALSE
  BY <1>4 DEF Retarget
<1>5. CASE Heartbeat
  <2>1. late' = late /\ systimer_next' = systimer_next
        /\ at' = [at EXCEPT !["irq"] = "write"]
        /\ target' = [target EXCEPT !["irq"] = NextPeriod]
    BY <1>5 DEF Heartbeat
  <2>2. Periodic(systimer_next) /\ \A d \in Ctx : Arming(d) => Periodic(target[d])
    BY <2>1 DEF Grid
  <2>3. Periodic(NextPeriod)
    BY <1>1, <2>2, OnePeriodLater DEF NextPeriod
  <2> QED
    BY <1>1, <2>1, <2>2, <2>3 DEF Arming
<1> QED
  BY <1>2, <1>3, <1>4, <1>5 DEF Next

-----------------------------------------------------------------------------
(* The clock of timer.device.                                              *)

\* The counter against the last update, and a reading in between.
EClock == EClockExact /\ Unread <= MaxUnread /\ Reading

LEMMA ModIs ==
  ASSUME NEW n \in Nat \ {0}, NEW x \in Int, -n <= x, x < 2 * n
  PROVE  /\ x % n = IF x < 0 THEN x + n ELSE IF x < n THEN x ELSE x - n
         /\ x % n \in Nat /\ x % n < n
<1>1. CASE x < 0
  BY <1>1
<1>2. CASE 0 <= x /\ x < n
  BY <1>2
<1>3. CASE n <= x
  BY <1>3
<1> QED
  BY <1>1, <1>2, <1>3

LEMMA WrapIs ==
  ASSUME NEW n \in Nat \ {0}
  PROVE  \A x \in Nat : x < 2 * n => x % n = IF x < n THEN x ELSE x - n
<1> SUFFICES ASSUME NEW x \in Nat, x < 2 * n
             PROVE  x % n = IF x < n THEN x ELSE x - n
  OBVIOUS
<1>1. CASE x < n
  BY <1>1
<1>2. CASE n <= x
  BY <1>2
<1> QED
  BY <1>1, <1>2

\* How long after u the counter shows t.
LEMMA AfterIs ==
  ASSUME Assumptions, NEW t \in Stamp, NEW u \in Stamp
  PROVE  /\ (t - u) % Word \in Nat /\ (t - u) % Word < Word
         /\ (t - u) % Word = IF t < u THEN t - u + Word ELSE t - u
<1>1. /\ Word \in Nat \ {0} /\ t \in Nat /\ t < Word /\ u \in Nat /\ u < Word
  BY Even, StampIs
<1>2. t - u \in Int /\ -Word <= t - u /\ t - u < 2 * Word /\ t - u < Word
  BY <1>1
<1>3. (t - u) % Word = IF t - u < 0 THEN t - u + Word ELSE IF t - u < Word THEN t - u
                       ELSE t - u - Word
  BY <1>1, <1>2, ModIs
<1> QED
  BY <1>1, <1>2, <1>3

LEMMA EClockKept ==
  ASSUME Assumptions, TypeOK, Heart, EClock, [Next]_vars
  PROVE  EClock'
<1>1. /\ Word \in Nat \ {0} /\ Wide = 2 * Word
      /\ MaxUnread \in Nat /\ MaxUnread < Word
      /\ clo \in Stamp /\ tbp_CLO \in Stamp /\ now \in Stamp \cup {NoStamp}
      /\ \A t \in Stamp : t \in Nat /\ t < Word /\ t # NoStamp
      /\ chi \in {0, 1} /\ tb_Elapsed \in Nat /\ tb_Elapsed < 2 * Word
  <2>1. MaxUnread \in Nat /\ MaxUnread < Word
    BY Even DEF Assumptions, PeriodAssumption
  <2>2. /\ clo \in Stamp /\ tbp_CLO \in Stamp /\ now \in Stamp \cup {NoStamp}
        /\ chi \in 0..1 /\ tb_Elapsed \in 0..Wide - 1
    BY DEF TypeOK
  <2> QED
    BY <2>1, <2>2, Even, StampIs DEF Wide, NoStamp
<1>2. /\ Unread \in Nat /\ Unread <= MaxUnread
      /\ Unread = IF clo < tbp_CLO THEN clo - tbp_CLO + Word ELSE clo - tbp_CLO
      /\ (tb_Elapsed + Unread) % Wide = Counter
  BY <1>1, AfterIs DEF EClock, EClockExact, Unread
<1>3. CASE Tick
  <2>1. /\ clo' = (clo + 1) % Word /\ clo' \in Stamp
        /\ chi' = IF clo' = 0 THEN (chi + 1) % 2 ELSE chi
        /\ tbp_CLO' = tbp_CLO /\ tb_Elapsed' = tb_Elapsed /\ now' = now
        /\ Unread < MaxUnread
    BY <1>3, TickMoves DEF Tick, eclockVars
  <2>2. clo' = IF clo + 1 < Word THEN clo + 1 ELSE 0
    BY <1>1, <2>1
  <2>3. Unread' = IF clo' < tbp_CLO THEN clo' - tbp_CLO + Word ELSE clo' - tbp_CLO
    BY <1>1, <2>1, AfterIs DEF Unread
  <2>4. Unread' = Unread + 1
    BY <1>1, <1>2, <2>1, <2>2, <2>3
  <2>5. Counter' = IF Counter + 1 < Wide THEN Counter + 1 ELSE 0
    <3>1. CASE chi = 0
      <4>1. Counter = clo /\ chi' = IF clo' = 0 THEN 1 ELSE 0
        BY <1>1, <2>1, <3>1 DEF Counter
      <4>2. Counter' = IF clo' = 0 THEN Word + clo' ELSE clo'
        BY <1>1, <2>1, <4>1 DEF Counter
      <4> QED
        BY <1>1, <2>2, <4>1, <4>2
    <3>2. CASE chi = 1
      <4>1. Counter = Word + clo /\ chi' = IF clo' = 0 THEN 0 ELSE 1
        BY <1>1, <2>1, <3>2 DEF Counter
      <4>2. Counter' = IF clo' = 0 THEN clo' ELSE Word + clo'
        BY <1>1, <2>1, <4>1 DEF Counter
      <4> QED
        BY <1>1, <2>2, <4>1, <4>2
    <3> QED
      BY <1>1, <3>1, <3>2
  <2>6. (tb_Elapsed + (Unread + 1)) % Wide = IF Counter + 1 < Wide THEN Counter + 1 ELSE 0
    <3>1. PICK e : e = tb_Elapsed + Unread
      OBVIOUS
    <3>2. e \in Nat /\ e + 1 < 2 * Wide /\ Wide \in Nat \ {0}
      BY <1>1, <1>2, <2>1, <3>1
    <3>3. PICK f : f = e + 1
      OBVIOUS
    <3>4. f \in Nat /\ f < 2 * Wide /\ e < 2 * Wide
      BY <3>2, <3>3
    <3>5. /\ e % Wide = IF e < Wide THEN e ELSE e - Wide
          /\ f % Wide = IF f < Wide THEN f ELSE f - Wide
      <4>1. \A x \in Nat : x < 2 * Wide => x % Wide = IF x < Wide THEN x ELSE x - Wide
        BY <3>2, WrapIs
      <4> QED
        BY <3>2, <3>4, <4>1
    <3>6. tb_Elapsed + (Unread + 1) = f
      BY <1>1, <1>2, <3>1, <3>3
    <3> QED
      BY <1>2, <3>1, <3>2, <3>3, <3>5, <3>6
  <2>7. EClockExact'
    BY <2>1, <2>4, <2>5, <2>6 DEF EClockExact
  <2>8. Unread' <= MaxUnread
    BY <1>1, <1>2, <2>1, <2>4
  <2>9. Reading'
    <3> SUFFICES ASSUME now # NoStamp
                 PROVE  Unread' = ((now - tbp_CLO) % Word) + ((clo' - now) % Word)
      BY <2>1 DEF Reading
    <3>1. now \in Stamp
      BY <1>1
    <3>2. /\ (now - tbp_CLO) % Word \in Nat /\ (clo - now) % Word \in Nat
          /\ Unread = ((now - tbp_CLO) % Word) + ((clo - now) % Word)
      BY <1>1, <3>1, AfterIs DEF EClock, Reading
    <3>3. (clo - now) % Word = IF clo < now THEN clo - now + Word ELSE clo - now
      BY <1>1, <3>1, AfterIs
    <3>4. (clo' - now) % Word = IF clo' < now THEN clo' - now + Word ELSE clo' - now
      BY <2>1, <3>1, AfterIs
    <3>5. (clo' - now) % Word = ((clo - now) % Word) + 1
      BY <1>1, <1>2, <2>1, <2>2, <3>1, <3>2, <3>3, <3>4
    <3> QED
      BY <2>4, <3>2, <3>5
  <2> QED
    BY <2>7, <2>8, <2>9 DEF EClock
\* An update with a reading t that lies between the last update and the counter.
<1>4. ASSUME NEW t \in Stamp, EClockUpdate(t), clo' = clo, chi' = chi, now' = NoStamp,
             Unread = ((t - tbp_CLO) % Word) + ((clo - t) % Word)
      PROVE  EClock'
  <2>1. /\ (t - tbp_CLO) % Word \in Nat /\ (clo - t) % Word \in Nat
        /\ (t - tbp_CLO) % Word < Word /\ (clo - t) % Word < Word
    BY <1>1, <1>4, AfterIs
  <2>2. PICK a \in Nat : a = (t - tbp_CLO) % Word
    BY <2>1
  <2>3. PICK b \in Nat : b = (clo - t) % Word
    BY <2>1
  <2>4. Unread = a + b /\ Unread' = b /\ tb_Elapsed' = (tb_Elapsed + a) % Wide
    BY <1>4, <2>2, <2>3 DEF EClockUpdate, Unread
  <2>5. (((tb_Elapsed + a) % Wide) + b) % Wide = (tb_Elapsed + (a + b)) % Wide
    <3>1. PICK e : e = tb_Elapsed + a
      OBVIOUS
    <3>2. e \in Nat /\ e + b < 2 * Wide /\ e < 2 * Wide /\ Wide \in Nat \ {0}
          /\ a + b < Word
      BY <1>1, <1>2, <2>1, <2>2, <2>3, <2>4, <3>1
    <3>3. \A x \in Nat : x < 2 * Wide => x % Wide = IF x < Wide THEN x ELSE x - Wide
      BY <3>2, WrapIs
    <3>4. PICK f : f = e + b
      OBVIOUS
    <3>5. f \in Nat /\ f < 2 * Wide /\ tb_Elapsed + (a + b) = f
      BY <1>1, <3>1, <3>2, <3>4
    <3>6. /\ e % Wide = IF e < Wide THEN e ELSE e - Wide
          /\ f % Wide = IF f < Wide THEN f ELSE f - Wide
      BY <3>2, <3>3, <3>5
    <3>7. CASE e < Wide
      BY <3>1, <3>4, <3>5, <3>6, <3>7
    <3>8. CASE e >= Wide
      <4>1. PICK g : g = e - Wide + b
        OBVIOUS
      <4>2. g \in Nat /\ g < Wide /\ f = g + Wide
        BY <1>1, <3>1, <3>2, <3>4, <3>8, <4>1, <2>1, <2>2, <2>3
      <4>3. g % Wide = g
        BY <3>2, <3>3, <4>2
      <4> QED
        BY <3>1, <3>2, <3>5, <3>6, <3>8, <4>1, <4>2, <4>3
    <3> QED
      BY <3>2, <3>7, <3>8
  <2>6. EClockExact'
    <3>1. Counter' = Counter
      BY <1>4 DEF Counter
    <3> QED
      BY <1>2, <2>4, <2>5, <3>1 DEF EClockExact
  <2>7. Unread' <= MaxUnread
    BY <1>1, <1>2, <2>4
  <2> QED
    BY <1>4, <2>6, <2>7 DEF EClock, Reading
<1>5. ASSUME UNCHANGED <<clo, chi, tbp_CLO, tb_Elapsed, now>>
      PROVE  EClock'
  BY <1>5 DEF EClock, EClockExact, Unread, Reading, Counter
<1>6. CASE Cause
  <2>1. CASE MayCause
    <3>1. (clo - clo) % Word = 0
      BY <1>1, AfterIs
    <3>2. EClockUpdate(clo) /\ clo' = clo /\ chi' = chi /\ now' = NoStamp
      BY <1>6, <2>1 DEF Cause, MayCause
    <3>3. Unread = ((clo - tbp_CLO) % Word) + ((clo - clo) % Word)
      BY <1>2, <3>1 DEF Unread
    <3> QED
      BY <1>1, <1>4, <3>2, <3>3
  <2>2. CASE ~MayCause
    BY <1>5, <1>6, <2>2 DEF Cause
  <2> QED
    BY <2>1, <2>2
<1>7. CASE ReadEClock
  <2>1. /\ now' = clo /\ clo' = clo /\ chi' = chi /\ tbp_CLO' = tbp_CLO
        /\ tb_Elapsed' = tb_Elapsed
    BY <1>7 DEF ReadEClock
  <2>2. Unread' = Unread /\ Counter' = Counter
    BY <2>1 DEF Unread, Counter
  <2>3. Unread = ((clo - tbp_CLO) % Word) + ((clo - clo) % Word)
    <3>1. (clo - clo) % Word = 0
      BY <1>1, AfterIs
    <3> QED
      BY <1>2, <3>1 DEF Unread
  <2>4. EClockExact' /\ Unread' <= MaxUnread
    BY <1>2, <2>1, <2>2 DEF EClock, EClockExact
  <2>5. Reading'
    BY <2>1, <2>2, <2>3 DEF Reading
  <2> QED
    BY <2>4, <2>5 DEF EClock
<1>8. CASE UpdateEClock
  <2>1. /\ now # NoStamp /\ now' = NoStamp /\ EClockUpdate(now)
        /\ clo' = clo /\ chi' = chi
    BY <1>8 DEF UpdateEClock
  <2>2. Unread = ((now - tbp_CLO) % Word) + ((clo - now) % Word)
    BY <2>1 DEF EClock, Reading
  <2> QED
    BY <1>1, <1>4, <2>1, <2>2
<1>9. CASE \/ \E c \in Ctx : Write(c) \/ Check(c) \/ Retarget(c)
           \/ Heartbeat \/ UNCHANGED vars
  BY <1>5, <1>9 DEF Write, Check, Retarget, Heartbeat, eclockVars, vars
<1> QED
  BY <1>3, <1>6, <1>7, <1>8, <1>9 DEF Next

-----------------------------------------------------------------------------
(* The theorems.                                                           *)

\* With a reading of the clock taken in between, with a heartbeat that comes
\* while the platform is still arming, and with any number of attempts,
\* systimer_arm and the heartbeat keep the inductive invariant.
THEOREM Inductive ==
  ASSUME Assumptions
  PROVE  Spec => []IInv
<1>1. Init => IInv
  <2> SUFFICES ASSUME Init
               PROVE  IInv
    OBVIOUS
  <2>1. TypeOK /\ Heart
    BY InitHeart
  <2>2. Grid
    <3>1. Interval \in Nat \ {0} /\ clo = Interval /\ 3 * Interval < Half
      BY Constants DEF Init
    <3>2. /\ systimer_next = 0 /\ target["task"] = 2 * Interval
          /\ target["irq"] = 0
      BY <3>1 DEF Init, Ctx
    <3>3. Word \in Nat \ {0} /\ Half \in Nat /\ Word = 2 * Half
      BY Even
    <3>4. 0 \in Stamp /\ 2 \in Stamp
      BY <3>1, <3>3, StampIs
    <3>5. 0 = Periods(0) % Word /\ 2 * Interval = Periods(2) % Word
      <4>1. Periods(0) = 0 /\ Periods(2) = 2 * Interval
        BY <3>1 DEF Periods
      <4> QED
        BY <3>1, <3>3, <4>1
    <3> QED
      BY <3>2, <3>4, <3>5 DEF Grid, Ctx, Periodic, Arming
  <2>3. EClockExact /\ Unread <= MaxUnread /\ Reading
    <3>1. /\ Interval \in Nat /\ Interval < Half /\ Word \in Nat \ {0} /\ Word = 2 * Half
          /\ Half \in Nat
      <4>1. Word \in Nat \ {0} /\ Word = 2 * Half
        BY Even
      <4> QED
        BY <4>1, Constants
    <3>2. clo = Interval /\ tbp_CLO = clo /\ tb_Elapsed = clo /\ chi = 0 /\ now = NoStamp
      BY DEF Init
    <3>3. Unread = 0
      BY <3>1, <3>2 DEF Unread
    <3>4. Interval \in Nat /\ Interval < Wide /\ Wide \in Nat
      BY <3>1 DEF Wide
    <3>5. Interval % Wide = Interval
      BY <3>4
    <3>6. EClockExact
      BY <3>1, <3>2, <3>3, <3>5 DEF EClockExact, Counter
    <3>7. MaxUnread \in Nat
      BY <3>1 DEF Assumptions, PeriodAssumption
    <3> QED
      BY <3>2, <3>3, <3>6, <3>7 DEF Reading
  <2> QED
    BY <2>1, <2>2, <2>3 DEF IInv
<1>2. IInv /\ [Next]_vars => IInv'
  <2> SUFFICES ASSUME IInv, [Next]_vars
               PROVE  IInv'
    OBVIOUS
  <2>1. TypeOK /\ Heart /\ Grid /\ EClock
    BY DEF IInv, EClock
  <2>2. TypeOK' /\ Heart'
    BY <2>1, TypesKept, HeartKept
  <2>3. Grid'
    BY <2>1, GridKept
  <2>4. EClock'
    BY <2>1, EClockKept
  <2> QED
    BY <2>2, <2>3, <2>4 DEF IInv, EClock
<1> QED
  BY <1>1, <1>2, PTL DEF Spec

\* The variables keep their types: a target and the value on record are values
\* of the counter, and systimer_arm has one more attempt.
THEOREM TypeCorrect ==
  ASSUME Assumptions
  PROVE  Spec => []TypeOK
<1>1. IInv => TypeOK
  BY DEF IInv
<1> QED
  BY <1>1, Inductive, PTL

\* The heartbeat is never lost: whoever armed last, and however late, the compare
\* is ahead of the counter, and by how much is known.
THEOREM NeverLost ==
  ASSUME Assumptions
  PROVE  Spec => []HeartbeatArmed
<1>1. IInv => HeartbeatArmed
  <2> SUFFICES ASSUME IInv, \A c \in Ctx : ~Waiting(c)
               PROVE  (compare - clo) % Word \in
                        1 .. IF compare = systimer_next THEN 2 * Interval
                             ELSE Periods(Retries + 1)
    BY DEF HeartbeatArmed
  <2>1. TypeOK /\ Heart
    BY DEF IInv
  <2>2. ~cs /\ ~Arming("irq") /\ ~Arming("task") /\ Due = systimer_next
    BY DEF Waiting, Arming, Ctx, Due
  <2>3. /\ Gap(compare) \in Int /\ compare \in Stamp /\ clo \in Stamp
        /\ Periods(Retries + 1) \in Nat /\ Interval \in Nat
    BY <2>1, Numbers, Constants, PeriodsAre
  <2>4. Gap(compare) >= 1
    BY <2>1, <2>2 DEF Heart, Alive
  <2>5. (compare - clo) % Word = Gap(compare)
    BY <2>3, <2>4, AheadIs DEF Gap
  <2>6. Gap(compare) <= Periods(Retries + 1)
    BY <2>1, <2>2 DEF Heart, Upper, Top
  <2>7. compare = systimer_next => Gap(compare) <= 2 * Interval
    <3>1. Reach = 2 * Interval /\ Coming = Gap(Due) + 0
      BY <2>2 DEF Reach, Coming
    <3> QED
      BY <2>1, <2>2, <2>3, <3>1 DEF Heart, Upper
  <2> QED
    BY <2>3, <2>4, <2>5, <2>6, <2>7
<1> QED
  BY <1>1, Inductive, PTL

\* A late interrupt does not stretch the period: a heartbeat stays on the grid of
\* the first one across wraps of the counter, unless a target was missed.
THEOREM StaysOnGrid ==
  ASSUME Assumptions
  PROVE  Spec => []OnGrid
<1>1. IInv => OnGrid
  BY DEF IInv, Grid, OnGrid
<1> QED
  BY <1>1, Inductive, PTL

\* timer.device's clock counts every interval of the counter once, also when a
\* heartbeat comes between a task's reading and its update.
THEOREM ClockIsExact ==
  ASSUME Assumptions
  PROVE  Spec => []EClockExact
<1>1. IInv => EClockExact
  BY DEF IInv
<1> QED
  BY <1>1, Inductive, PTL

\* All that is promised of the counter's two clocks.
THEOREM ClocksAreKept ==
  ASSUME Assumptions
  PROVE  Spec => []ClockKept
BY TypeCorrect, NeverLost, StaysOnGrid, ClockIsExact, PTL DEF ClockKept
=============================================================================
