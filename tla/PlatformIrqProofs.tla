-------------------------- MODULE PlatformIrqProofs --------------------------
(***************************************************************************)
(* The safety properties of PlatformIrq hold for every set of sources and  *)
(* requests and every bound on the drain: IInv, stated in that module, is  *)
(* inductive.  The argument is the nesting of the entries: whoever runs is *)
(* the highest level entered, so nothing the level-6 handler relies on can *)
(* change under it.                                                        *)
(***************************************************************************)
EXTENDS PlatformIrq, TLAPS

\* What the arbitration answers is a level or nothing: a non-empty set of
\* levels has a highest one.
LEMMA HighestLevel ==
    ASSUME NEW S \in SUBSET Level, S # {}
    PROVE  \E l \in S : \A m \in S : m <= l
<1>1. CASE 6 \in S
  BY <1>1 DEF Level
<1>2. CASE 6 \notin S /\ 5 \in S
  BY <1>2 DEF Level
<1>3. CASE 6 \notin S /\ 5 \notin S /\ 4 \in S
  BY <1>3 DEF Level
<1>4. CASE S \subseteq {1, 2, 3} /\ 3 \in S
  BY <1>4 DEF Level
<1>5. CASE S \subseteq {1, 2} /\ 2 \in S
  BY <1>5
<1>6. CASE S \subseteq {1}
  <2>1. PICK l \in S : TRUE
    OBVIOUS
  <2>2. \A m \in S : m <= l
    BY <1>6, <2>1
  <2> QED
    BY <2>2
<1> QED
  BY <1>1, <1>2, <1>3, <1>4, <1>5, <1>6 DEF Level

LEMMA PendingType == TypeOK => Pending \in 0..6
<1> SUFFICES ASSUME TypeOK PROVE Pending \in 0..6
  OBVIOUS
<1>1. Asked \in SUBSET Level
  BY RequestAssumption DEF Asked, TypeOK
<1>2. CASE Asked = {}
  BY <1>2 DEF Pending, Ipl, Host
<1>3. CASE Asked # {}
  <2>1. \E l \in Asked : \A m \in Asked : m <= l
    BY <1>1, <1>3, HighestLevel
  <2>2. Ipl \in Asked
    BY <1>3, <2>1 DEF Ipl
  <2> QED
    BY <1>1, <2>2 DEF Pending, Host, Level
<1> QED
  BY <1>2, <1>3

\* The machine starts in the task, with nothing pending and nothing masked.
LEMMA InitIInv == Init => IInv
<1> SUFFICES ASSUME Init PROVE IInv
  OBVIOUS
<1>1. TypeOK
  <2>1. /\ asserted \subseteq Irq /\ enabled \subseteq Irq
        /\ intreq \subseteq Request /\ intena \subseteq Request
        /\ arm \in BOOLEAN /\ masked \in BOOLEAN /\ disabled \in BOOLEAN
    BY DEF Init
  <2>2. /\ sr \in 0..7
        /\ at \in [Level -> Label] /\ ret \in [Level -> 0..7]
        /\ round \in [Level -> 0..DrainRounds]
    BY DrainAssumption DEF Init, Label
  <2>3. was \in [Level -> BOOLEAN] /\ left \in [Level -> SUBSET Irq]
    BY DEF Init
  <2> QED
    BY <2>1, <2>2, <2>3 DEF TypeOK
<1>2. Active = {}
  BY DEF Init, Active
<1>3. NestInv /\ MaskInv
  BY <1>2 DEF Init, NestInv, MaskInv
<1>4. RoundInv /\ SnapshotFresh
  BY DEF Init, RoundInv, SnapshotFresh, Level, Host
<1> QED
  BY <1>1, <1>3, <1>4 DEF IInv

\* Every action keeps every variable in its type.
LEMMA TypeStep == TypeOK /\ NestInv /\ RoundInv /\ [Next]_vars => TypeOK'
<1> SUFFICES ASSUME TypeOK, NestInv, RoundInv, [Next]_vars PROVE TypeOK'
  OBVIOUS
<1> USE DrainAssumption DEF TypeOK, RoundInv, Level, Label, Host, Running, Goto,
       lineVars, paulaVars, armVars, frameVars
<1>1. ASSUME NEW i \in Irq, Assert(i) PROVE TypeOK'
  BY <1>1 DEF Assert
<1>2. ASSUME NEW b \in Request, Raise(b) PROVE TypeOK'
  BY <1>2 DEF Raise
<1>3. CASE HostVector
  BY <1>3 DEF HostVector
<1>4. CASE Enter
  <2>1. Pending \in Level
    BY <1>4, PendingType DEF Enter
  <2> QED
    BY <1>4, <2>1 DEF Enter
<1>5. ASSUME NEW l \in Level, Ack(l) PROVE TypeOK'
  BY <1>5 DEF Ack, AckedLatch
<1>6. ASSUME NEW l \in Level, Read(l) PROVE TypeOK'
  BY <1>6 DEF Read, PendingSources, Drained
<1>7. ASSUME NEW l \in Level, Scan(l) PROVE TypeOK'
  <2>1. PICK i \in left[l] : Serve(l, i)
    BY <1>7 DEF Scan
  <2>2. asserted' \subseteq Irq
    BY <2>1 DEF Serve
  <2>3. left' \in [Level -> SUBSET Irq]
    BY <2>1 DEF Serve
  <2>4. at' \in [Level -> Label] /\ round' \in [Level -> 0..DrainRounds]
    BY <1>7, <2>1 DEF Scan, Serve, NextRound
  <2> QED
    BY <1>7, <2>2, <2>3, <2>4 DEF Scan
<1>8. ASSUME NEW l \in Level, Paula(l) PROVE TypeOK'
  BY <1>8 DEF Paula, PaulaDispatch
<1>9. ASSUME NEW l \in Level, Exit(l) PROVE TypeOK'
  BY <1>9 DEF Exit, WriteSR
<1>10. ASSUME NEW i \in Irq, EnableIrq(i) PROVE TypeOK'
  BY <1>10 DEF EnableIrq
<1>11. ASSUME NEW i \in Irq, DisableIrq(i) PROVE TypeOK'
  BY <1>11 DEF DisableIrq
<1>12. ASSUME NEW b \in Request, Intena(b) PROVE TypeOK'
  BY <1>12 DEF Intena
<1>13. CASE RaiseSR
  BY <1>13 DEF RaiseSR, WriteSR
<1>14. CASE DropSR
  BY <1>14 DEF DropSR, WriteSR
<1>15. CASE Disable
  BY <1>15 DEF Disable, KrnCli
<1>16. CASE Enable
  BY <1>16 DEF Enable
<1>17. CASE UNCHANGED vars
  BY <1>17 DEF vars
<1> QED
  BY <1>1, <1>2, <1>3, <1>4, <1>5, <1>6, <1>7, <1>8, <1>9, <1>10, <1>11, <1>12, <1>13, <1>14, <1>15, <1>16, <1>17 DEF Next, Handler, Task

\* Entries nest: an entry is above everything entered, and an exit uncovers
\* what its frame says.
LEMMA NestStep == TypeOK /\ NestInv /\ [Next]_vars => NestInv'
<1> SUFFICES ASSUME TypeOK, NestInv, [Next]_vars PROVE NestInv'
  OBVIOUS
<1> USE DEF TypeOK, NestInv, Level, Label, Active, InTask, Running, Goto,
       lineVars, paulaVars, armVars, frameVars
<1>1. ASSUME NEW i \in Irq, Assert(i) PROVE NestInv'
  BY <1>1 DEF Assert
<1>2. ASSUME NEW b \in Request, Raise(b) PROVE NestInv'
  BY <1>2 DEF Raise
<1>3. CASE HostVector
  BY <1>3 DEF HostVector
<1>4. CASE Enter
  <2>1. Pending \in Level /\ Pending > sr
    BY <1>4, PendingType DEF Enter
  <2>2. /\ Active' = Active \cup {Pending} /\ Pending \notin Active
        /\ sr' = Pending /\ ret' = [ret EXCEPT ![Pending] = sr]
    BY <1>4, <2>1 DEF Enter
  <2> QED
    BY <2>1, <2>2
<1>5. ASSUME NEW l \in Level, Ack(l) PROVE NestInv'
  <2>1. Active' = Active /\ sr' = sr /\ ret' = ret
    BY <1>5 DEF Ack, AckedLatch
  <2> QED
    BY <2>1
<1>6. ASSUME NEW l \in Level, Read(l) PROVE NestInv'
  <2>1. Active' = Active /\ sr' = sr /\ ret' = ret
    BY <1>6 DEF Read, PendingSources, Drained
  <2> QED
    BY <2>1
<1>7. ASSUME NEW l \in Level, Scan(l) PROVE NestInv'
  <2>1. Active' = Active /\ sr' = sr /\ ret' = ret
    BY <1>7 DEF Scan, Serve, NextRound
  <2> QED
    BY <2>1
<1>8. ASSUME NEW l \in Level, Paula(l) PROVE NestInv'
  <2>1. Active' = Active /\ sr' = sr /\ ret' = ret
    BY <1>8 DEF Paula, PaulaDispatch
  <2> QED
    BY <2>1
<1>9. ASSUME NEW l \in Level, Exit(l) PROVE NestInv'
  <2>1. l \in Active /\ sr = l /\ sr' = ret[l] /\ ret' = [ret EXCEPT ![l] = 0]
    BY <1>9 DEF Exit, WriteSR
  <2>2. Active' = Active \ {l}
    BY <1>9 DEF Exit
  <2>3. ret[l] < l /\ ret[l] \in {0} \cup Active'
    BY <2>1, <2>2
  <2>4. ASSUME NEW k \in Active' PROVE
          /\ k <= sr' /\ ret'[k] < k /\ ret'[k] \in {0} \cup Active'
          /\ \A m \in Active' : m < k => m <= ret'[k]
    <3>1. k \in Active /\ k < l /\ ret'[k] = ret[k]
      BY <2>1, <2>2
    <3> QED
      BY <2>1, <2>2, <3>1
  <2> QED
    BY <2>1, <2>3, <2>4
<1>10. ASSUME NEW i \in Irq, EnableIrq(i) PROVE NestInv'
  BY <1>10 DEF EnableIrq
<1>11. ASSUME NEW i \in Irq, DisableIrq(i) PROVE NestInv'
  BY <1>11 DEF DisableIrq
<1>12. ASSUME NEW b \in Request, Intena(b) PROVE NestInv'
  BY <1>12 DEF Intena
<1>13. CASE RaiseSR
  BY <1>13 DEF RaiseSR, WriteSR
<1>14. CASE DropSR
  BY <1>14 DEF DropSR, WriteSR
<1>15. CASE Disable
  BY <1>15 DEF Disable, KrnCli
<1>16. CASE Enable
  BY <1>16 DEF Enable
<1>17. CASE UNCHANGED vars
  BY <1>17 DEF vars
<1> QED
  BY <1>1, <1>2, <1>3, <1>4, <1>5, <1>6, <1>7, <1>8, <1>9, <1>10, <1>11, <1>12, <1>13, <1>14, <1>15, <1>16, <1>17 DEF Next, Handler, Task

\* A round is counted when its snapshot is used up, and none is taken after
\* the last.
LEMMA RoundStep == TypeOK /\ RoundInv /\ [Next]_vars => RoundInv'
<1> SUFFICES ASSUME TypeOK, RoundInv, [Next]_vars PROVE RoundInv'
  OBVIOUS
<1> USE DrainAssumption DEF TypeOK, RoundInv, Level, Label, Running, Goto,
       lineVars, paulaVars, armVars, frameVars
<1>1. ASSUME NEW i \in Irq, Assert(i) PROVE RoundInv'
  BY <1>1 DEF Assert
<1>2. ASSUME NEW b \in Request, Raise(b) PROVE RoundInv'
  BY <1>2 DEF Raise
<1>3. CASE HostVector
  BY <1>3 DEF HostVector
<1>4. CASE Enter
  <2>1. Pending \in Level
    BY <1>4, PendingType DEF Enter
  <2> QED
    BY <1>4, <2>1 DEF Enter
<1>5. ASSUME NEW l \in Level, Ack(l) PROVE RoundInv'
  BY <1>5 DEF Ack, AckedLatch
<1>6. ASSUME NEW l \in Level, Read(l) PROVE RoundInv'
  BY <1>6 DEF Read, PendingSources, Drained
<1>7. ASSUME NEW l \in Level, Scan(l) PROVE RoundInv'
  BY <1>7 DEF Scan, Serve, NextRound
<1>8. ASSUME NEW l \in Level, Paula(l) PROVE RoundInv'
  BY <1>8 DEF Paula, PaulaDispatch
<1>9. ASSUME NEW l \in Level, Exit(l) PROVE RoundInv'
  BY <1>9 DEF Exit, WriteSR
<1>10. ASSUME NEW i \in Irq, EnableIrq(i) PROVE RoundInv'
  BY <1>10 DEF EnableIrq
<1>11. ASSUME NEW i \in Irq, DisableIrq(i) PROVE RoundInv'
  BY <1>11 DEF DisableIrq
<1>12. ASSUME NEW b \in Request, Intena(b) PROVE RoundInv'
  BY <1>12 DEF Intena
<1>13. CASE RaiseSR
  BY <1>13 DEF RaiseSR, WriteSR
<1>14. CASE DropSR
  BY <1>14 DEF DropSR, WriteSR
<1>15. CASE Disable
  BY <1>15 DEF Disable, KrnCli
<1>16. CASE Enable
  BY <1>16 DEF Enable
<1>17. CASE UNCHANGED vars
  BY <1>17 DEF vars
<1> QED
  BY <1>1, <1>2, <1>3, <1>4, <1>5, <1>6, <1>7, <1>8, <1>9, <1>10, <1>11, <1>12, <1>13, <1>14, <1>15, <1>16, <1>17 DEF Next, Handler, Task

\* Whoever unlatches INTF.ARM is a handler, and every way back to the task
\* writes SR.
LEMMA MaskStep == TypeOK /\ NestInv /\ MaskInv /\ [Next]_vars => MaskInv'
<1> SUFFICES ASSUME TypeOK, NestInv, MaskInv, [Next]_vars PROVE MaskInv'
  OBVIOUS
<1> USE DEF TypeOK, NestInv, MaskInv, Level, Label, Active, InTask, Host, Running,
       Goto, lineVars, paulaVars, armVars, frameVars
<1>1. ASSUME NEW i \in Irq, Assert(i) PROVE MaskInv'
  BY <1>1 DEF Assert
<1>2. ASSUME NEW b \in Request, Raise(b) PROVE MaskInv'
  BY <1>2 DEF Raise
<1>3. CASE HostVector
  BY <1>3 DEF HostVector
<1>4. CASE Enter
  <2>1. Pending \in Level
    BY <1>4, PendingType DEF Enter
  <2>2. ~InTask' /\ sr' # 7
    BY <1>4, <2>1 DEF Enter
  <2> QED
    BY <2>2
<1>5. ASSUME NEW l \in Level, Ack(l) PROVE MaskInv'
  <2>1. l \in Active' \/ Active' = Active
    BY <1>5 DEF Ack, AckedLatch
  <2>2. l \in Active /\ sr' = sr /\ masked' = masked
    BY <1>5 DEF Ack, AckedLatch
  <2>3. ~InTask' /\ sr' # 7
    BY <1>5, <2>1, <2>2
  <2> QED
    BY <2>3
<1>6. ASSUME NEW l \in Level, Read(l) PROVE MaskInv'
  <2>1. l \in Active' \/ Active' = Active
    BY <1>6 DEF Read, PendingSources, Drained
  <2>2. l \in Active /\ sr' = sr /\ masked' = masked
    BY <1>6 DEF Read, PendingSources, Drained
  <2>3. ~InTask' /\ sr' # 7
    BY <1>6, <2>1, <2>2
  <2> QED
    BY <2>3
<1>7. ASSUME NEW l \in Level, Scan(l) PROVE MaskInv'
  <2>1. l \in Active' \/ Active' = Active
    BY <1>7 DEF Scan, Serve, NextRound
  <2>2. l \in Active /\ sr' = sr /\ masked' = masked
    BY <1>7 DEF Scan, Serve, NextRound
  <2>3. ~InTask' /\ sr' # 7
    BY <1>7, <2>1, <2>2
  <2> QED
    BY <2>3
<1>8. ASSUME NEW l \in Level, Paula(l) PROVE MaskInv'
  <2>1. l \in Active' \/ Active' = Active
    BY <1>8 DEF Paula, PaulaDispatch
  <2>2. l \in Active /\ sr' = sr /\ masked' = masked
    BY <1>8 DEF Paula, PaulaDispatch
  <2>3. ~InTask' /\ sr' # 7
    BY <1>8, <2>1, <2>2
  <2> QED
    BY <2>3
<1>9. ASSUME NEW l \in Level, Exit(l) PROVE MaskInv'
  <2>1. ret[l] < 6 /\ sr' = ret[l]
    BY <1>9 DEF Exit, WriteSR
  <2>2. masked' = (ret[l] >= Host)
    BY <1>9 DEF Exit, WriteSR
  <2>3. ~(ret[l] >= Host)
    BY <2>1
  <2>4. ~masked'
    BY <2>2, <2>3, Zenon
  <2> QED
    BY <2>1, <2>4
<1>10. ASSUME NEW i \in Irq, EnableIrq(i) PROVE MaskInv'
  BY <1>10 DEF EnableIrq
<1>11. ASSUME NEW i \in Irq, DisableIrq(i) PROVE MaskInv'
  BY <1>11 DEF DisableIrq
<1>12. ASSUME NEW b \in Request, Intena(b) PROVE MaskInv'
  BY <1>12 DEF Intena
<1>13. CASE RaiseSR
  <2>1. sr' = 7 /\ masked' = (7 >= Host)
    BY <1>13 DEF RaiseSR, WriteSR
  <2>2. 7 >= Host
    OBVIOUS
  <2>3. masked'
    BY <2>1, <2>2, Zenon
  <2> QED
    BY <2>1, <2>3
<1>14. CASE DropSR
  BY <1>14 DEF DropSR, WriteSR
<1>15. CASE Disable
  BY <1>15 DEF Disable, KrnCli
<1>16. CASE Enable
  BY <1>16 DEF Enable
<1>17. CASE UNCHANGED vars
  BY <1>17 DEF vars
<1> QED
  BY <1>1, <1>2, <1>3, <1>4, <1>5, <1>6, <1>7, <1>8, <1>9, <1>10, <1>11, <1>12, <1>13, <1>14, <1>15, <1>16, <1>17 DEF Next, Handler, Task

\* While the level-6 handler goes through its snapshot no other handler and
\* no task runs, so only a device can touch the lines, and it only raises
\* them.
LEMMA FreshStep ==
    TypeOK /\ NestInv /\ SnapshotFresh /\ [Next]_vars => SnapshotFresh'
<1> SUFFICES ASSUME TypeOK, NestInv, SnapshotFresh, [Next]_vars
             PROVE  SnapshotFresh'
  OBVIOUS
<1> USE DEF TypeOK, NestInv, SnapshotFresh, Level, Label, Active, InTask, Host,
       Running, Goto, lineVars, paulaVars, armVars, frameVars
<1>1. ASSUME NEW i \in Irq, Assert(i) PROVE SnapshotFresh'
  BY <1>1 DEF Assert
<1>2. ASSUME NEW b \in Request, Raise(b) PROVE SnapshotFresh'
  BY <1>2 DEF Raise
<1>3. CASE HostVector
  BY <1>3 DEF HostVector
<1>4. CASE Enter
  <2>1. Pending \in Level
    BY <1>4, PendingType DEF Enter
  <2> QED
    BY <1>4, <2>1 DEF Enter
<1>5. ASSUME NEW l \in Level, Ack(l) PROVE SnapshotFresh'
  BY <1>5 DEF Ack, AckedLatch
<1>6. ASSUME NEW l \in Level, Read(l) PROVE SnapshotFresh'
  BY <1>6 DEF Read, PendingSources, Drained
<1>7. ASSUME NEW l \in Level, Scan(l) PROVE SnapshotFresh'
  <2>1. at[6] = "scan" => l = 6
    BY <1>7 DEF Scan
  <2> QED
    BY <1>7, <2>1 DEF Scan, Serve
<1>8. ASSUME NEW l \in Level, Paula(l) PROVE SnapshotFresh'
  BY <1>8 DEF Paula, PaulaDispatch
<1>9. ASSUME NEW l \in Level, Exit(l) PROVE SnapshotFresh'
  BY <1>9 DEF Exit, WriteSR
<1>10. ASSUME NEW i \in Irq, EnableIrq(i) PROVE SnapshotFresh'
  BY <1>10 DEF EnableIrq
<1>11. ASSUME NEW i \in Irq, DisableIrq(i) PROVE SnapshotFresh'
  BY <1>11 DEF DisableIrq
<1>12. ASSUME NEW b \in Request, Intena(b) PROVE SnapshotFresh'
  BY <1>12 DEF Intena
<1>13. CASE RaiseSR
  BY <1>13 DEF RaiseSR, WriteSR
<1>14. CASE DropSR
  BY <1>14 DEF DropSR, WriteSR
<1>15. CASE Disable
  BY <1>15 DEF Disable, KrnCli
<1>16. CASE Enable
  BY <1>16 DEF Enable
<1>17. CASE UNCHANGED vars
  BY <1>17 DEF vars
<1> QED
  BY <1>1, <1>2, <1>3, <1>4, <1>5, <1>6, <1>7, <1>8, <1>9, <1>10, <1>11, <1>12, <1>13, <1>14, <1>15, <1>16, <1>17 DEF Next, Handler, Task

\* The inductive invariant of the interrupt path.
THEOREM Inductive == Spec => []IInv
<1>1. IInv /\ [Next]_vars => IInv'
  BY TypeStep, NestStep, RoundStep, MaskStep, FreshStep DEF IInv
<1> QED
  BY InitIInv, <1>1, PTL DEF Spec

\* Every variable of the interrupt path keeps its type, the rounds of a drain
\* within their bound.
THEOREM TypeCorrect == Spec => []TypeOK
<1>1. IInv => TypeOK
  BY DEF IInv
<1> QED
  BY Inductive, <1>1, PTL

\* The machine is never left below level 6 with ARM interrupts masked and
\* nothing latched, in whatever order chipset and host interrupts nest.
THEOREM NeverDeafHolds == Spec => []NeverDeaf
<1>1. IInv => NeverDeaf
  BY DEF IInv, TypeOK, NestInv, MaskInv, NeverDeaf, Active, InTask, Level, Host
<1> QED
  BY Inductive, <1>1, PTL

\* The level-6 handler never dispatches a source that is gone or that nobody
\* unmasked.
THEOREM SnapshotStaysFresh == Spec => []SnapshotFresh
<1>1. IInv => SnapshotFresh
  BY DEF IInv
<1> QED
  BY Inductive, <1>1, PTL
==============================================================================
