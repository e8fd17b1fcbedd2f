------------------------- MODULE ChipsetCoreProofs -------------------------
(***************************************************************************)
(* The safety properties of ChipsetCore hold for every set of boots, every *)
(* set of levels and every bound: IInv, the inductive invariant stated in  *)
(* that module, is preserved by every action, one lemma per conjunct.      *)
(***************************************************************************)
EXTENDS ChipsetCore, TLAPS


\* Every action keeps every variable in its type.
LEMMA TypeStep == TypeOK /\ ArrivalInv /\ BudgetInv /\ [Next]_vars => TypeOK'
<1> SUFFICES ASSUME TypeOK, ArrivalInv, BudgetInv, [Next]_vars PROVE TypeOK'
  OBVIOUS
<1> USE ConfigAssumption, LevelAssumption, ClockAssumption DEF TypeOK, Core,
       At, Goto, Put, coreVars, clockVars, rigelVars, irqVars, guestVars,
       localVars, CpuLabel, ChipLabel, StepLabel, SyncLabel, ArrivalInv,
       BudgetInv, Spending
<1>1. ASSUME NEW c \in Core, Step(c) PROVE TypeOK'
  BY <1>1 DEF Step, AfterStep
<1>2. ASSUME NEW c \in Core, SyncAsk(c) PROVE TypeOK'
  BY <1>2 DEF SyncAsk
<1>3. ASSUME NEW c \in Core, SyncLevel(c) PROVE TypeOK'
  BY <1>3 DEF SyncLevel, LevelStore
<1>4. ASSUME NEW c \in Core, SyncGate(c) PROVE TypeOK'
  <2>1. event' \in [Core -> BOOLEAN]
    BY <1>4 DEF SyncGate, WakeStop, Sev
  <2>2. gate' \in BOOLEAN
    BY <1>4 DEF SyncGate, GateStore
  <2>3. buffered' \in {"none", "set", "clear"}
    BY <1>4 DEF SyncGate, GateStore
  <2> QED
    BY <1>4, <2>1, <2>2, <2>3 DEF SyncGate, GateStore
<1>5. ASSUME NEW c \in Core, Spend(c) PROVE TypeOK'
  BY <1>5 DEF Spend
<1>6. ASSUME NEW c \in Core, Acquire(c) PROVE TypeOK'
  BY <1>6 DEF Acquire
<1>7. CASE Create
  BY <1>7 DEF Create
<1>8. CASE Enable
  <2>1. event' \in [Core -> BOOLEAN]
    BY <1>8 DEF Enable, Ask, Sev
  <2>2. wanted' \in BOOLEAN
    BY <1>8 DEF Enable, Ask
  <2> QED
    BY <1>8, <2>1, <2>2 DEF Enable, Ask
<1>9. CASE Reset
  <2>1. intena' \in BOOLEAN
    BY <1>9 DEF Reset
  <2>2. level' \in Levels /\ due' \in 0..Horizon
    BY <1>9 DEF Reset
  <2> QED
    BY <1>9, <2>1, <2>2 DEF Reset
<1>10. CASE IrqInit
  BY <1>10 DEF IrqInit
<1>11. CASE Observe
  BY <1>11 DEF Observe, OnlyPC
<1>12. CASE ArmOwner
  BY <1>12 DEF ArmOwner, OnlyPC
<1>13. CASE ArmReset
  BY <1>13 DEF ArmReset
<1>14. CASE ArmSet
  BY <1>14 DEF ArmSet
<1>15. CASE Flush
  BY <1>15 DEF Flush, OnlyPC
<1>16. CASE CpuAdvance
  <2>1. pending' \in 0..(Word - 1)
    BY <1>16 DEF CpuAdvance, AdvanceWall, Forgive, Least
  <2>2. wall' \in BOOLEAN
    BY <1>16 DEF CpuAdvance, AdvanceWall
  <2> QED
    BY <1>16, <2>1, <2>2 DEF CpuAdvance
<1>17. CASE Consume
  BY <1>17 DEF Consume, Quantum, Least
<1>18. CASE Mmio
  <2>1. intena' \in BOOLEAN
    BY <1>18 DEF Mmio
  <2>2. level' \in Levels /\ due' \in 0..Horizon
    BY <1>18 DEF Mmio
  <2> QED
    BY <1>18, <2>1, <2>2 DEF Mmio
<1>19. CASE MmioOwner
  BY <1>19 DEF MmioOwner, SomeoneElseAsks
<1>20. CASE CpuRelease
  BY <1>20 DEF CpuRelease
<1>21. CASE StopCheck
  BY <1>21 DEF StopCheck, OnlyPC
<1>22. CASE StopWfe
  BY <1>22 DEF StopWfe
<1>23. CASE SelftestReset
  BY <1>23 DEF SelftestReset, OnlyPC
<1>24. CASE Park
  <2>1. observed' \in BOOLEAN
    BY <1>24 DEF Park
  <2>2. pending' \in 0..(Word - 1)
    BY <1>24 DEF Park
  <2> QED
    BY <1>24, <2>1, <2>2 DEF Park
<1>25. CASE Transact
  BY <1>25 DEF Transact
<1>26. CASE Stop
  BY <1>26 DEF Stop, OnlyPC
<1>27. CASE Entry
  BY <1>27 DEF Entry, OnlyPC
<1>28. CASE Wait
  BY <1>28 DEF Wait, OnlyPC
<1>29. CASE WaitWfe
  BY <1>29 DEF WaitWfe
<1>30. CASE Arrive
  BY <1>30 DEF Arrive, Sev, InFlush
<1>31. CASE Loop
  BY <1>31 DEF Loop, OnlyPC
<1>32. ASSUME NEW w \in 0..MaxWall, ChipAdvance(w) PROVE TypeOK'
  <2>1. pending' \in 0..(Word - 1)
    BY <1>32 DEF ChipAdvance, AdvanceWall, Forgive, Least
  <2>2. wall' \in BOOLEAN
    BY <1>32 DEF ChipAdvance, AdvanceWall
  <2> QED
    BY <1>32, <2>1, <2>2 DEF ChipAdvance
<1>33. CASE Floor
  BY <1>33 DEF Floor, Decline, Quantum, Least
<1>34. CASE Drain
  BY <1>34 DEF Drain, ChipQuantum, Quantum, Least
<1>35. CASE ChipRelease
  BY <1>35 DEF ChipRelease
<1>36. CASE GateVisible
  BY <1>36 DEF GateVisible
<1>37. CASE HostInterrupt
  BY <1>37 DEF HostInterrupt, WakeHost, Sev
<1>38. CASE HostAck
  <2>1. arm' \in BOOLEAN
    BY <1>38 DEF HostAck
  <2> QED
    BY <1>38, <2>1 DEF HostAck
<1>39. CASE UNCHANGED vars
  BY <1>39 DEF vars
<1> QED
  BY <1>1, <1>2, <1>3, <1>4, <1>5, <1>6, <1>7, <1>8, <1>9, <1>10, <1>11,
     <1>12, <1>13, <1>14, <1>15, <1>16, <1>17, <1>18, <1>19, <1>20, <1>21,
     <1>22, <1>23, <1>24, <1>25, <1>26, <1>27, <1>28, <1>29, <1>30, <1>31,
     <1>32, <1>33, <1>34, <1>35, <1>36, <1>37, <1>38, <1>39 DEF Next,
     CpuRun, CpuChoice, Chip, Shared

\* The lock is taken and given back where the program counters say.
LEMMA LockStep == TypeOK /\ LockInv /\ ArrivalInv /\ [Next]_vars => LockInv'
<1> SUFFICES ASSUME TypeOK, LockInv, ArrivalInv, [Next]_vars PROVE LockInv'
  OBVIOUS
<1> USE DEF TypeOK, LockInv, ArrivalInv, Core, At, Goto, Put, coreVars,
       clockVars, rigelVars, irqVars, guestVars, localVars, CpuLabel,
       ChipLabel, StepLabel, SyncLabel
<1>1. ASSUME NEW c \in Core, Step(c) PROVE LockInv'
  BY <1>1 DEF Step, AfterStep
<1>2. ASSUME NEW c \in Core, SyncAsk(c) PROVE LockInv'
  BY <1>2 DEF SyncAsk
<1>3. ASSUME NEW c \in Core, SyncLevel(c) PROVE LockInv'
  BY <1>3 DEF SyncLevel, LevelStore
<1>4. ASSUME NEW c \in Core, SyncGate(c) PROVE LockInv'
  BY <1>4 DEF SyncGate, GateStore, WakeStop, Sev
<1>5. ASSUME NEW c \in Core, Spend(c) PROVE LockInv'
  BY <1>5 DEF Spend
<1>6. ASSUME NEW c \in Core, Acquire(c) PROVE LockInv'
  BY <1>6 DEF Acquire
<1>7. CASE Create
  BY <1>7 DEF Create
<1>8. CASE Enable
  BY <1>8 DEF Enable, Ask, Sev
<1>9. CASE Reset
  BY <1>9 DEF Reset
<1>10. CASE IrqInit
  BY <1>10 DEF IrqInit
<1>11. CASE Observe
  BY <1>11 DEF Observe, OnlyPC
<1>12. CASE ArmOwner
  BY <1>12 DEF ArmOwner, OnlyPC
<1>13. CASE ArmReset
  BY <1>13 DEF ArmReset
<1>14. CASE ArmSet
  BY <1>14 DEF ArmSet
<1>15. CASE Flush
  BY <1>15 DEF Flush, OnlyPC
<1>16. CASE CpuAdvance
  BY <1>16 DEF CpuAdvance, AdvanceWall, Forgive, Least
<1>17. CASE Consume
  BY <1>17 DEF Consume, Quantum, Least
<1>18. CASE Mmio
  BY <1>18 DEF Mmio
<1>19. CASE MmioOwner
  BY <1>19 DEF MmioOwner, SomeoneElseAsks
<1>20. CASE CpuRelease
  BY <1>20 DEF CpuRelease
<1>21. CASE StopCheck
  BY <1>21 DEF StopCheck, OnlyPC
<1>22. CASE StopWfe
  BY <1>22 DEF StopWfe
<1>23. CASE SelftestReset
  BY <1>23 DEF SelftestReset, OnlyPC
<1>24. CASE Park
  BY <1>24 DEF Park
<1>25. CASE Transact
  BY <1>25 DEF Transact
<1>26. CASE Stop
  BY <1>26 DEF Stop, OnlyPC
<1>27. CASE Entry
  BY <1>27 DEF Entry, OnlyPC
<1>28. CASE Wait
  BY <1>28 DEF Wait, OnlyPC
<1>29. CASE WaitWfe
  BY <1>29 DEF WaitWfe
<1>30. CASE Arrive
  BY <1>30 DEF Arrive, Sev, InFlush
<1>31. CASE Loop
  BY <1>31 DEF Loop, OnlyPC
<1>32. ASSUME NEW w \in 0..MaxWall, ChipAdvance(w) PROVE LockInv'
  BY <1>32 DEF ChipAdvance, AdvanceWall, Forgive, Least
<1>33. CASE Floor
  BY <1>33 DEF Floor, Decline, Quantum, Least
<1>34. CASE Drain
  BY <1>34 DEF Drain, ChipQuantum, Quantum, Least
<1>35. CASE ChipRelease
  BY <1>35 DEF ChipRelease
<1>36. CASE GateVisible
  BY <1>36 DEF GateVisible
<1>37. CASE HostInterrupt
  BY <1>37 DEF HostInterrupt, WakeHost, Sev
<1>38. CASE HostAck
  BY <1>38 DEF HostAck
<1>39. CASE UNCHANGED vars
  BY <1>39 DEF vars
<1> QED
  BY <1>1, <1>2, <1>3, <1>4, <1>5, <1>6, <1>7, <1>8, <1>9, <1>10, <1>11,
     <1>12, <1>13, <1>14, <1>15, <1>16, <1>17, <1>18, <1>19, <1>20, <1>21,
     <1>22, <1>23, <1>24, <1>25, <1>26, <1>27, <1>28, <1>29, <1>30, <1>31,
     <1>32, <1>33, <1>34, <1>35, <1>36, <1>37, <1>38, <1>39 DEF Next,
     CpuRun, CpuChoice, Chip, Shared

\* core_arrived is set once, by the core that then enters its loop.
LEMMA ArrivalStep == TypeOK /\ ArrivalInv /\ [Next]_vars => ArrivalInv'
<1> SUFFICES ASSUME TypeOK, ArrivalInv, [Next]_vars PROVE ArrivalInv'
  OBVIOUS
<1> USE DEF TypeOK, ArrivalInv, Core, At, Goto, Put, coreVars, clockVars,
       rigelVars, irqVars, guestVars, localVars, CpuLabel, ChipLabel,
       StepLabel, SyncLabel
<1>1. ASSUME NEW c \in Core, Step(c) PROVE ArrivalInv'
  BY <1>1 DEF Step, AfterStep
<1>2. ASSUME NEW c \in Core, SyncAsk(c) PROVE ArrivalInv'
  BY <1>2 DEF SyncAsk
<1>3. ASSUME NEW c \in Core, SyncLevel(c) PROVE ArrivalInv'
  BY <1>3 DEF SyncLevel, LevelStore
<1>4. ASSUME NEW c \in Core, SyncGate(c) PROVE ArrivalInv'
  BY <1>4 DEF SyncGate, GateStore, WakeStop, Sev
<1>5. ASSUME NEW c \in Core, Spend(c) PROVE ArrivalInv'
  BY <1>5 DEF Spend
<1>6. ASSUME NEW c \in Core, Acquire(c) PROVE ArrivalInv'
  BY <1>6 DEF Acquire
<1>7. CASE Create
  BY <1>7 DEF Create
<1>8. CASE Enable
  BY <1>8 DEF Enable, Ask, Sev
<1>9. CASE Reset
  BY <1>9 DEF Reset
<1>10. CASE IrqInit
  BY <1>10 DEF IrqInit
<1>11. CASE Observe
  BY <1>11 DEF Observe, OnlyPC
<1>12. CASE ArmOwner
  BY <1>12 DEF ArmOwner, OnlyPC
<1>13. CASE ArmReset
  BY <1>13 DEF ArmReset
<1>14. CASE ArmSet
  BY <1>14 DEF ArmSet
<1>15. CASE Flush
  BY <1>15 DEF Flush, OnlyPC
<1>16. CASE CpuAdvance
  BY <1>16 DEF CpuAdvance, AdvanceWall, Forgive, Least
<1>17. CASE Consume
  BY <1>17 DEF Consume, Quantum, Least
<1>18. CASE Mmio
  BY <1>18 DEF Mmio
<1>19. CASE MmioOwner
  BY <1>19 DEF MmioOwner, SomeoneElseAsks
<1>20. CASE CpuRelease
  BY <1>20 DEF CpuRelease
<1>21. CASE StopCheck
  BY <1>21 DEF StopCheck, OnlyPC
<1>22. CASE StopWfe
  BY <1>22 DEF StopWfe
<1>23. CASE SelftestReset
  BY <1>23 DEF SelftestReset, OnlyPC
<1>24. CASE Park
  BY <1>24 DEF Park
<1>25. CASE Transact
  BY <1>25 DEF Transact
<1>26. CASE Stop
  BY <1>26 DEF Stop, OnlyPC
<1>27. CASE Entry
  BY <1>27 DEF Entry, OnlyPC
<1>28. CASE Wait
  BY <1>28 DEF Wait, OnlyPC
<1>29. CASE WaitWfe
  BY <1>29 DEF WaitWfe
<1>30. CASE Arrive
  BY <1>30 DEF Arrive, Sev, InFlush
<1>31. CASE Loop
  BY <1>31 DEF Loop, OnlyPC
<1>32. ASSUME NEW w \in 0..MaxWall, ChipAdvance(w) PROVE ArrivalInv'
  BY <1>32 DEF ChipAdvance, AdvanceWall, Forgive, Least
<1>33. CASE Floor
  BY <1>33 DEF Floor, Decline, Quantum, Least
<1>34. CASE Drain
  BY <1>34 DEF Drain, ChipQuantum, Quantum, Least
<1>35. CASE ChipRelease
  BY <1>35 DEF ChipRelease
<1>36. CASE GateVisible
  BY <1>36 DEF GateVisible
<1>37. CASE HostInterrupt
  BY <1>37 DEF HostInterrupt, WakeHost, Sev
<1>38. CASE HostAck
  BY <1>38 DEF HostAck
<1>39. CASE UNCHANGED vars
  BY <1>39 DEF vars
<1> QED
  BY <1>1, <1>2, <1>3, <1>4, <1>5, <1>6, <1>7, <1>8, <1>9, <1>10, <1>11,
     <1>12, <1>13, <1>14, <1>15, <1>16, <1>17, <1>18, <1>19, <1>20, <1>21,
     <1>22, <1>23, <1>24, <1>25, <1>26, <1>27, <1>28, <1>29, <1>30, <1>31,
     <1>32, <1>33, <1>34, <1>35, <1>36, <1>37, <1>38, <1>39 DEF Next,
     CpuRun, CpuChoice, Chip, Shared

\* A step of the chipset core never exceeds what its budget has left.
LEMMA BudgetStep == TypeOK /\ ArrivalInv /\ BudgetInv /\ [Next]_vars => BudgetInv'
<1> SUFFICES ASSUME TypeOK, ArrivalInv, BudgetInv, [Next]_vars PROVE BudgetInv'
  OBVIOUS
<1> USE ConfigAssumption, LevelAssumption, ClockAssumption DEF TypeOK,
       ArrivalInv, BudgetInv, Spending, Core, At, Goto, Put, coreVars,
       clockVars, rigelVars, irqVars, guestVars, localVars, CpuLabel,
       ChipLabel, StepLabel, SyncLabel
<1>1. ASSUME NEW c \in Core, Step(c) PROVE BudgetInv'
  BY <1>1 DEF Step, AfterStep
<1>2. ASSUME NEW c \in Core, SyncAsk(c) PROVE BudgetInv'
  BY <1>2 DEF SyncAsk
<1>3. ASSUME NEW c \in Core, SyncLevel(c) PROVE BudgetInv'
  BY <1>3 DEF SyncLevel, LevelStore
<1>4. ASSUME NEW c \in Core, SyncGate(c) PROVE BudgetInv'
  BY <1>4 DEF SyncGate, GateStore, WakeStop, Sev
<1>5. ASSUME NEW c \in Core, Spend(c) PROVE BudgetInv'
  BY <1>5 DEF Spend
<1>6. ASSUME NEW c \in Core, Acquire(c) PROVE BudgetInv'
  BY <1>6 DEF Acquire
<1>7. CASE Create
  BY <1>7 DEF Create
<1>8. CASE Enable
  BY <1>8 DEF Enable, Ask, Sev
<1>9. CASE Reset
  BY <1>9 DEF Reset
<1>10. CASE IrqInit
  BY <1>10 DEF IrqInit
<1>11. CASE Observe
  BY <1>11 DEF Observe, OnlyPC
<1>12. CASE ArmOwner
  BY <1>12 DEF ArmOwner, OnlyPC
<1>13. CASE ArmReset
  BY <1>13 DEF ArmReset
<1>14. CASE ArmSet
  BY <1>14 DEF ArmSet
<1>15. CASE Flush
  BY <1>15 DEF Flush, OnlyPC
<1>16. CASE CpuAdvance
  BY <1>16 DEF CpuAdvance, AdvanceWall, Forgive, Least
<1>17. CASE Consume
  BY <1>17 DEF Consume, Quantum, Least
<1>18. CASE Mmio
  BY <1>18 DEF Mmio
<1>19. CASE MmioOwner
  BY <1>19 DEF MmioOwner, SomeoneElseAsks
<1>20. CASE CpuRelease
  BY <1>20 DEF CpuRelease
<1>21. CASE StopCheck
  BY <1>21 DEF StopCheck, OnlyPC
<1>22. CASE StopWfe
  BY <1>22 DEF StopWfe
<1>23. CASE SelftestReset
  BY <1>23 DEF SelftestReset, OnlyPC
<1>24. CASE Park
  BY <1>24 DEF Park
<1>25. CASE Transact
  BY <1>25 DEF Transact
<1>26. CASE Stop
  BY <1>26 DEF Stop, OnlyPC
<1>27. CASE Entry
  BY <1>27 DEF Entry, OnlyPC
<1>28. CASE Wait
  BY <1>28 DEF Wait, OnlyPC
<1>29. CASE WaitWfe
  BY <1>29 DEF WaitWfe
<1>30. CASE Arrive
  BY <1>30 DEF Arrive, Sev, InFlush
<1>31. CASE Loop
  BY <1>31 DEF Loop, OnlyPC
<1>32. ASSUME NEW w \in 0..MaxWall, ChipAdvance(w) PROVE BudgetInv'
  BY <1>32 DEF ChipAdvance, AdvanceWall, Forgive, Least
<1>33. CASE Floor
  BY <1>33 DEF Floor, Decline, Quantum, Least
<1>34. CASE Drain
  BY <1>34 DEF Drain, ChipQuantum, Quantum, Least
<1>35. CASE ChipRelease
  BY <1>35 DEF ChipRelease
<1>36. CASE GateVisible
  BY <1>36 DEF GateVisible
<1>37. CASE HostInterrupt
  BY <1>37 DEF HostInterrupt, WakeHost, Sev
<1>38. CASE HostAck
  BY <1>38 DEF HostAck
<1>39. CASE UNCHANGED vars
  BY <1>39 DEF vars
<1> QED
  BY <1>1, <1>2, <1>3, <1>4, <1>5, <1>6, <1>7, <1>8, <1>9, <1>10, <1>11,
     <1>12, <1>13, <1>14, <1>15, <1>16, <1>17, <1>18, <1>19, <1>20, <1>21,
     <1>22, <1>23, <1>24, <1>25, <1>26, <1>27, <1>28, <1>29, <1>30, <1>31,
     <1>32, <1>33, <1>34, <1>35, <1>36, <1>37, <1>38, <1>39 DEF Next,
     CpuRun, CpuChoice, Chip, Shared

\* No flush runs beside an arrived chipset core but a crossed one.
LEMMA FlushStep == TypeOK /\ LockInv /\ ArrivalInv /\ FlushInv /\ [Next]_vars => FlushInv'
<1> SUFFICES ASSUME TypeOK, LockInv, ArrivalInv, FlushInv, [Next]_vars PROVE FlushInv'
  OBVIOUS
<1> USE DEF TypeOK, LockInv, ArrivalInv, FlushInv, InFlush, Core, At,
       Goto, Put, coreVars, clockVars, rigelVars, irqVars, guestVars,
       localVars, CpuLabel, ChipLabel, StepLabel, SyncLabel
<1>1. ASSUME NEW c \in Core, Step(c) PROVE FlushInv'
  BY <1>1 DEF Step, AfterStep
<1>2. ASSUME NEW c \in Core, SyncAsk(c) PROVE FlushInv'
  BY <1>2 DEF SyncAsk
<1>3. ASSUME NEW c \in Core, SyncLevel(c) PROVE FlushInv'
  BY <1>3 DEF SyncLevel, LevelStore
<1>4. ASSUME NEW c \in Core, SyncGate(c) PROVE FlushInv'
  BY <1>4 DEF SyncGate, GateStore, WakeStop, Sev
<1>5. ASSUME NEW c \in Core, Spend(c) PROVE FlushInv'
  BY <1>5 DEF Spend
<1>6. ASSUME NEW c \in Core, Acquire(c) PROVE FlushInv'
  BY <1>6 DEF Acquire
<1>7. CASE Create
  BY <1>7 DEF Create
<1>8. CASE Enable
  BY <1>8 DEF Enable, Ask, Sev
<1>9. CASE Reset
  BY <1>9 DEF Reset
<1>10. CASE IrqInit
  BY <1>10 DEF IrqInit
<1>11. CASE Observe
  BY <1>11 DEF Observe, OnlyPC
<1>12. CASE ArmOwner
  BY <1>12 DEF ArmOwner, OnlyPC
<1>13. CASE ArmReset
  BY <1>13 DEF ArmReset
<1>14. CASE ArmSet
  BY <1>14 DEF ArmSet
<1>15. CASE Flush
  BY <1>15 DEF Flush, OnlyPC
<1>16. CASE CpuAdvance
  BY <1>16 DEF CpuAdvance, AdvanceWall, Forgive, Least
<1>17. CASE Consume
  BY <1>17 DEF Consume, Quantum, Least
<1>18. CASE Mmio
  BY <1>18 DEF Mmio
<1>19. CASE MmioOwner
  BY <1>19 DEF MmioOwner, SomeoneElseAsks
<1>20. CASE CpuRelease
  BY <1>20 DEF CpuRelease
<1>21. CASE StopCheck
  BY <1>21 DEF StopCheck, OnlyPC
<1>22. CASE StopWfe
  BY <1>22 DEF StopWfe
<1>23. CASE SelftestReset
  BY <1>23 DEF SelftestReset, OnlyPC
<1>24. CASE Park
  BY <1>24 DEF Park
<1>25. CASE Transact
  BY <1>25 DEF Transact
<1>26. CASE Stop
  BY <1>26 DEF Stop, OnlyPC
<1>27. CASE Entry
  BY <1>27 DEF Entry, OnlyPC
<1>28. CASE Wait
  BY <1>28 DEF Wait, OnlyPC
<1>29. CASE WaitWfe
  BY <1>29 DEF WaitWfe
<1>30. CASE Arrive
  BY <1>30 DEF Arrive, Sev, InFlush
<1>31. CASE Loop
  BY <1>31 DEF Loop, OnlyPC
<1>32. ASSUME NEW w \in 0..MaxWall, ChipAdvance(w) PROVE FlushInv'
  BY <1>32 DEF ChipAdvance, AdvanceWall, Forgive, Least
<1>33. CASE Floor
  BY <1>33 DEF Floor, Decline, Quantum, Least
<1>34. CASE Drain
  BY <1>34 DEF Drain, ChipQuantum, Quantum, Least
<1>35. CASE ChipRelease
  BY <1>35 DEF ChipRelease
<1>36. CASE GateVisible
  BY <1>36 DEF GateVisible
<1>37. CASE HostInterrupt
  BY <1>37 DEF HostInterrupt, WakeHost, Sev
<1>38. CASE HostAck
  BY <1>38 DEF HostAck
<1>39. CASE UNCHANGED vars
  BY <1>39 DEF vars
<1> QED
  BY <1>1, <1>2, <1>3, <1>4, <1>5, <1>6, <1>7, <1>8, <1>9, <1>10, <1>11,
     <1>12, <1>13, <1>14, <1>15, <1>16, <1>17, <1>18, <1>19, <1>20, <1>21,
     <1>22, <1>23, <1>24, <1>25, <1>26, <1>27, <1>28, <1>29, <1>30, <1>31,
     <1>32, <1>33, <1>34, <1>35, <1>36, <1>37, <1>38, <1>39 DEF Next,
     CpuRun, CpuChoice, Chip, Shared

\* Exclusion follows from who holds the lock and what a flush is beside.
LEMMA Exclusion == TypeOK /\ LockInv /\ ArrivalInv /\ FlushInv => OneInRigel
BY DEF TypeOK, LockInv, ArrivalInv, FlushInv, OneInRigel, InRigel, InFlush, Core,
       CpuLabel, ChipLabel, StepLabel, SyncLabel


\* amiga_irq_sync leaves the gate in agreement with the published level.
LEMMA GateStep == TypeOK /\ ArrivalInv /\ FlushInv /\ OneInRigel /\ GateInv /\ [Next]_vars => GateInv'
<1> SUFFICES ASSUME TypeOK, ArrivalInv, FlushInv, OneInRigel, GateInv, [Next]_vars PROVE GateInv'
  OBVIOUS
<1> USE LevelAssumption DEF TypeOK, ArrivalInv, FlushInv, OneInRigel, InRigel,
       GateInv, SettledGate, Core, At, Goto, Put, coreVars, clockVars,
       rigelVars, irqVars, guestVars, localVars, CpuLabel, ChipLabel,
       StepLabel, SyncLabel
<1>1. ASSUME NEW c \in Core, Step(c) PROVE GateInv'
  BY <1>1 DEF Step, AfterStep
<1>2. ASSUME NEW c \in Core, SyncAsk(c) PROVE GateInv'
  BY <1>2 DEF SyncAsk
<1>3. ASSUME NEW c \in Core, SyncLevel(c) PROVE GateInv'
  BY <1>3 DEF SyncLevel, LevelStore
<1>4. ASSUME NEW c \in Core, SyncGate(c) PROVE GateInv'
  BY <1>4 DEF SyncGate, GateStore, WakeStop, Sev
<1>5. ASSUME NEW c \in Core, Spend(c) PROVE GateInv'
  BY <1>5 DEF Spend
<1>6. ASSUME NEW c \in Core, Acquire(c) PROVE GateInv'
  BY <1>6 DEF Acquire
<1>7. CASE Create
  BY <1>7 DEF Create
<1>8. CASE Enable
  BY <1>8 DEF Enable, Ask, Sev
<1>9. CASE Reset
  BY <1>9 DEF Reset
<1>10. CASE IrqInit
  BY <1>10 DEF IrqInit
<1>11. CASE Observe
  BY <1>11 DEF Observe, OnlyPC
<1>12. CASE ArmOwner
  BY <1>12 DEF ArmOwner, OnlyPC
<1>13. CASE ArmReset
  BY <1>13 DEF ArmReset
<1>14. CASE ArmSet
  BY <1>14 DEF ArmSet
<1>15. CASE Flush
  BY <1>15 DEF Flush, OnlyPC
<1>16. CASE CpuAdvance
  BY <1>16 DEF CpuAdvance, AdvanceWall, Forgive, Least
<1>17. CASE Consume
  BY <1>17 DEF Consume, Quantum, Least
<1>18. CASE Mmio
  BY <1>18 DEF Mmio
<1>19. CASE MmioOwner
  BY <1>19 DEF MmioOwner, SomeoneElseAsks
<1>20. CASE CpuRelease
  BY <1>20 DEF CpuRelease
<1>21. CASE StopCheck
  BY <1>21 DEF StopCheck, OnlyPC
<1>22. CASE StopWfe
  BY <1>22 DEF StopWfe
<1>23. CASE SelftestReset
  BY <1>23 DEF SelftestReset, OnlyPC
<1>24. CASE Park
  BY <1>24 DEF Park
<1>25. CASE Transact
  BY <1>25 DEF Transact
<1>26. CASE Stop
  BY <1>26 DEF Stop, OnlyPC
<1>27. CASE Entry
  BY <1>27 DEF Entry, OnlyPC
<1>28. CASE Wait
  BY <1>28 DEF Wait, OnlyPC
<1>29. CASE WaitWfe
  BY <1>29 DEF WaitWfe
<1>30. CASE Arrive
  BY <1>30 DEF Arrive, Sev, InFlush
<1>31. CASE Loop
  BY <1>31 DEF Loop, OnlyPC
<1>32. ASSUME NEW w \in 0..MaxWall, ChipAdvance(w) PROVE GateInv'
  BY <1>32 DEF ChipAdvance, AdvanceWall, Forgive, Least
<1>33. CASE Floor
  BY <1>33 DEF Floor, Decline, Quantum, Least
<1>34. CASE Drain
  BY <1>34 DEF Drain, ChipQuantum, Quantum, Least
<1>35. CASE ChipRelease
  BY <1>35 DEF ChipRelease
<1>36. CASE GateVisible
  BY <1>36 DEF GateVisible
<1>37. CASE HostInterrupt
  BY <1>37 DEF HostInterrupt, WakeHost, Sev
<1>38. CASE HostAck
  BY <1>38 DEF HostAck
<1>39. CASE UNCHANGED vars
  BY <1>39 DEF vars
<1> QED
  BY <1>1, <1>2, <1>3, <1>4, <1>5, <1>6, <1>7, <1>8, <1>9, <1>10, <1>11,
     <1>12, <1>13, <1>14, <1>15, <1>16, <1>17, <1>18, <1>19, <1>20, <1>21,
     <1>22, <1>23, <1>24, <1>25, <1>26, <1>27, <1>28, <1>29, <1>30, <1>31,
     <1>32, <1>33, <1>34, <1>35, <1>36, <1>37, <1>38, <1>39 DEF Next,
     CpuRun, CpuChoice, Chip, Shared

\* What the owner of the chipset has published is what Rigel asserts.
LEMMA CurrentStep ==
    TypeOK /\ LockInv /\ ArrivalInv /\ FlushInv /\ CurrentInv /\ [Next]_vars
    => CurrentInv'
<1> SUFFICES ASSUME TypeOK, LockInv, ArrivalInv, FlushInv, CurrentInv,
                    [Next]_vars
             PROVE  CurrentInv'
  OBVIOUS
<1> USE LevelAssumption DEF TypeOK, LockInv, ArrivalInv, FlushInv, InFlush,
       CurrentInv, SyncCurrent, Core, At, Goto, Put, coreVars, clockVars,
       rigelVars, irqVars, guestVars, localVars, CpuLabel, ChipLabel,
       StepLabel, SyncLabel
<1>1. ASSUME NEW c \in Core, Step(c) PROVE CurrentInv'
  BY <1>1 DEF Step, AfterStep
<1>2. ASSUME NEW c \in Core, SyncAsk(c) PROVE CurrentInv'
  BY <1>2 DEF SyncAsk
<1>3. ASSUME NEW c \in Core, SyncLevel(c) PROVE CurrentInv'
  BY <1>3 DEF SyncLevel, LevelStore
<1>4. ASSUME NEW c \in Core, SyncGate(c) PROVE CurrentInv'
  BY <1>4 DEF SyncGate, GateStore, WakeStop, Sev
<1>5. ASSUME NEW c \in Core, Spend(c) PROVE CurrentInv'
  BY <1>5 DEF Spend
<1>6. ASSUME NEW c \in Core, Acquire(c) PROVE CurrentInv'
  BY <1>6 DEF Acquire
<1>7. CASE Create
  BY <1>7 DEF Create
<1>8. CASE Enable
  BY <1>8 DEF Enable, Ask, Sev
<1>9. CASE Reset
  BY <1>9 DEF Reset
<1>10. CASE IrqInit
  BY <1>10 DEF IrqInit
<1>11. CASE Observe
  BY <1>11 DEF Observe, OnlyPC
<1>12. CASE ArmOwner
  BY <1>12 DEF ArmOwner, OnlyPC
<1>13. CASE ArmReset
  BY <1>13 DEF ArmReset
<1>14. CASE ArmSet
  BY <1>14 DEF ArmSet
<1>15. CASE Flush
  BY <1>15 DEF Flush, OnlyPC
<1>16. CASE CpuAdvance
  BY <1>16 DEF CpuAdvance, AdvanceWall, Forgive, Least
<1>17. CASE Consume
  BY <1>17 DEF Consume, Quantum, Least
<1>18. CASE Mmio
  BY <1>18 DEF Mmio
<1>19. CASE MmioOwner
  BY <1>19 DEF MmioOwner, SomeoneElseAsks
<1>20. CASE CpuRelease
  BY <1>20 DEF CpuRelease
<1>21. CASE StopCheck
  BY <1>21 DEF StopCheck, OnlyPC
<1>22. CASE StopWfe
  BY <1>22 DEF StopWfe
<1>23. CASE SelftestReset
  BY <1>23 DEF SelftestReset, OnlyPC
<1>24. CASE Park
  BY <1>24 DEF Park
<1>25. CASE Transact
  BY <1>25 DEF Transact
<1>26. CASE Stop
  BY <1>26 DEF Stop, OnlyPC
<1>27. CASE Entry
  BY <1>27 DEF Entry, OnlyPC
<1>28. CASE Wait
  BY <1>28 DEF Wait, OnlyPC
<1>29. CASE WaitWfe
  BY <1>29 DEF WaitWfe
<1>30. CASE Arrive
  BY <1>30 DEF Arrive, Sev
<1>31. CASE Loop
  BY <1>31 DEF Loop, OnlyPC
<1>32. ASSUME NEW w \in 0..MaxWall, ChipAdvance(w) PROVE CurrentInv'
  BY <1>32 DEF ChipAdvance, AdvanceWall, Forgive, Least
<1>33. CASE Floor
  BY <1>33 DEF Floor, Decline, Quantum, Least
<1>34. CASE Drain
  BY <1>34 DEF Drain, ChipQuantum, Quantum, Least
<1>35. CASE ChipRelease
  BY <1>35 DEF ChipRelease
<1>36. CASE GateVisible
  BY <1>36 DEF GateVisible
<1>37. CASE HostInterrupt
  BY <1>37 DEF HostInterrupt, WakeHost, Sev
<1>38. CASE HostAck
  BY <1>38 DEF HostAck
<1>39. CASE UNCHANGED vars
  BY <1>39 DEF vars
<1> QED
  BY <1>1, <1>2, <1>3, <1>4, <1>5, <1>6, <1>7, <1>8, <1>9, <1>10, <1>11,
     <1>12, <1>13, <1>14, <1>15, <1>16, <1>17, <1>18, <1>19, <1>20, <1>21,
     <1>22, <1>23, <1>24, <1>25, <1>26, <1>27, <1>28, <1>29, <1>30, <1>31,
     <1>32, <1>33, <1>34, <1>35, <1>36, <1>37, <1>38, <1>39 DEF Next,
     CpuRun, CpuChoice, Chip, Shared

\* The backlog stays within the cap and covers the step under way.
LEMMA BacklogStep == TypeOK /\ LockInv /\ ArrivalInv /\ FlushInv /\ BacklogInv /\ [Next]_vars => BacklogInv'
<1> SUFFICES ASSUME TypeOK, LockInv, ArrivalInv, FlushInv, BacklogInv, [Next]_vars PROVE BacklogInv'
  OBVIOUS
<1> USE ConfigAssumption, LevelAssumption, ClockAssumption DEF TypeOK,
       LockInv, ArrivalInv, FlushInv, InFlush, BacklogInv, Spending, Core, At,
       Goto, Put, coreVars, clockVars, rigelVars, irqVars, guestVars,
       localVars, CpuLabel, ChipLabel, StepLabel, SyncLabel
<1>1. ASSUME NEW c \in Core, Step(c) PROVE BacklogInv'
  BY <1>1 DEF Step, AfterStep
<1>2. ASSUME NEW c \in Core, SyncAsk(c) PROVE BacklogInv'
  BY <1>2 DEF SyncAsk
<1>3. ASSUME NEW c \in Core, SyncLevel(c) PROVE BacklogInv'
  BY <1>3 DEF SyncLevel, LevelStore
<1>4. ASSUME NEW c \in Core, SyncGate(c) PROVE BacklogInv'
  BY <1>4 DEF SyncGate, GateStore, WakeStop, Sev
<1>5. ASSUME NEW c \in Core, Spend(c) PROVE BacklogInv'
  BY <1>5 DEF Spend
<1>6. ASSUME NEW c \in Core, Acquire(c) PROVE BacklogInv'
  BY <1>6 DEF Acquire
<1>7. CASE Create
  BY <1>7 DEF Create
<1>8. CASE Enable
  BY <1>8 DEF Enable, Ask, Sev
<1>9. CASE Reset
  BY <1>9 DEF Reset
<1>10. CASE IrqInit
  BY <1>10 DEF IrqInit
<1>11. CASE Observe
  BY <1>11 DEF Observe, OnlyPC
<1>12. CASE ArmOwner
  BY <1>12 DEF ArmOwner, OnlyPC
<1>13. CASE ArmReset
  BY <1>13 DEF ArmReset
<1>14. CASE ArmSet
  BY <1>14 DEF ArmSet
<1>15. CASE Flush
  BY <1>15 DEF Flush, OnlyPC
<1>16. CASE CpuAdvance
  BY <1>16 DEF CpuAdvance, AdvanceWall, Forgive, Least
<1>17. CASE Consume
  BY <1>17 DEF Consume, Quantum, Least
<1>18. CASE Mmio
  BY <1>18 DEF Mmio
<1>19. CASE MmioOwner
  BY <1>19 DEF MmioOwner, SomeoneElseAsks
<1>20. CASE CpuRelease
  BY <1>20 DEF CpuRelease
<1>21. CASE StopCheck
  BY <1>21 DEF StopCheck, OnlyPC
<1>22. CASE StopWfe
  BY <1>22 DEF StopWfe
<1>23. CASE SelftestReset
  BY <1>23 DEF SelftestReset, OnlyPC
<1>24. CASE Park
  BY <1>24 DEF Park
<1>25. CASE Transact
  BY <1>25 DEF Transact
<1>26. CASE Stop
  BY <1>26 DEF Stop, OnlyPC
<1>27. CASE Entry
  BY <1>27 DEF Entry, OnlyPC
<1>28. CASE Wait
  BY <1>28 DEF Wait, OnlyPC
<1>29. CASE WaitWfe
  BY <1>29 DEF WaitWfe
<1>30. CASE Arrive
  BY <1>30 DEF Arrive, Sev, InFlush
<1>31. CASE Loop
  BY <1>31 DEF Loop, OnlyPC
<1>32. ASSUME NEW w \in 0..MaxWall, ChipAdvance(w) PROVE BacklogInv'
  BY <1>32 DEF ChipAdvance, AdvanceWall, Forgive, Least
<1>33. CASE Floor
  BY <1>33 DEF Floor, Decline, Quantum, Least
<1>34. CASE Drain
  BY <1>34 DEF Drain, ChipQuantum, Quantum, Least
<1>35. CASE ChipRelease
  BY <1>35 DEF ChipRelease
<1>36. CASE GateVisible
  BY <1>36 DEF GateVisible
<1>37. CASE HostInterrupt
  BY <1>37 DEF HostInterrupt, WakeHost, Sev
<1>38. CASE HostAck
  BY <1>38 DEF HostAck
<1>39. CASE UNCHANGED vars
  BY <1>39 DEF vars
<1> QED
  BY <1>1, <1>2, <1>3, <1>4, <1>5, <1>6, <1>7, <1>8, <1>9, <1>10, <1>11,
     <1>12, <1>13, <1>14, <1>15, <1>16, <1>17, <1>18, <1>19, <1>20, <1>21,
     <1>22, <1>23, <1>24, <1>25, <1>26, <1>27, <1>28, <1>29, <1>30, <1>31,
     <1>32, <1>33, <1>34, <1>35, <1>36, <1>37, <1>38, <1>39 DEF Next,
     CpuRun, CpuChoice, Chip, Shared

\* A step after the handover writes the clock's words only under the lock.
LEMMA ClockStep == TypeOK /\ LockInv /\ ArrivalInv /\ FlushInv /\ [Next]_vars => ClockKept
<1> SUFFICES ASSUME TypeOK, LockInv, ArrivalInv, FlushInv, [Next]_vars PROVE ClockKept
  OBVIOUS
<1> USE DEF TypeOK, LockInv, ArrivalInv, FlushInv, InFlush, ClockKept,
       Core, At, Goto, Put, coreVars, clockVars, rigelVars, irqVars,
       guestVars, localVars, CpuLabel, ChipLabel, StepLabel, SyncLabel
<1>1. ASSUME NEW c \in Core, Step(c) PROVE ClockKept
  BY <1>1 DEF Step, AfterStep
<1>2. ASSUME NEW c \in Core, SyncAsk(c) PROVE ClockKept
  BY <1>2 DEF SyncAsk
<1>3. ASSUME NEW c \in Core, SyncLevel(c) PROVE ClockKept
  BY <1>3 DEF SyncLevel, LevelStore
<1>4. ASSUME NEW c \in Core, SyncGate(c) PROVE ClockKept
  BY <1>4 DEF SyncGate, GateStore, WakeStop, Sev
<1>5. ASSUME NEW c \in Core, Spend(c) PROVE ClockKept
  BY <1>5 DEF Spend
<1>6. ASSUME NEW c \in Core, Acquire(c) PROVE ClockKept
  BY <1>6 DEF Acquire
<1>7. CASE Create
  BY <1>7 DEF Create
<1>8. CASE Enable
  BY <1>8 DEF Enable, Ask, Sev
<1>9. CASE Reset
  BY <1>9 DEF Reset
<1>10. CASE IrqInit
  BY <1>10 DEF IrqInit
<1>11. CASE Observe
  BY <1>11 DEF Observe, OnlyPC
<1>12. CASE ArmOwner
  BY <1>12 DEF ArmOwner, OnlyPC
<1>13. CASE ArmReset
  BY <1>13 DEF ArmReset
<1>14. CASE ArmSet
  BY <1>14 DEF ArmSet
<1>15. CASE Flush
  BY <1>15 DEF Flush, OnlyPC
<1>16. CASE CpuAdvance
  BY <1>16 DEF CpuAdvance, AdvanceWall, Forgive, Least
<1>17. CASE Consume
  BY <1>17 DEF Consume, Quantum, Least
<1>18. CASE Mmio
  BY <1>18 DEF Mmio
<1>19. CASE MmioOwner
  BY <1>19 DEF MmioOwner, SomeoneElseAsks
<1>20. CASE CpuRelease
  BY <1>20 DEF CpuRelease
<1>21. CASE StopCheck
  BY <1>21 DEF StopCheck, OnlyPC
<1>22. CASE StopWfe
  BY <1>22 DEF StopWfe
<1>23. CASE SelftestReset
  BY <1>23 DEF SelftestReset, OnlyPC
<1>24. CASE Park
  BY <1>24 DEF Park
<1>25. CASE Transact
  BY <1>25 DEF Transact
<1>26. CASE Stop
  BY <1>26 DEF Stop, OnlyPC
<1>27. CASE Entry
  BY <1>27 DEF Entry, OnlyPC
<1>28. CASE Wait
  BY <1>28 DEF Wait, OnlyPC
<1>29. CASE WaitWfe
  BY <1>29 DEF WaitWfe
<1>30. CASE Arrive
  BY <1>30 DEF Arrive, Sev, InFlush
<1>31. CASE Loop
  BY <1>31 DEF Loop, OnlyPC
<1>32. ASSUME NEW w \in 0..MaxWall, ChipAdvance(w) PROVE ClockKept
  BY <1>32 DEF ChipAdvance, AdvanceWall, Forgive, Least
<1>33. CASE Floor
  BY <1>33 DEF Floor, Decline, Quantum, Least
<1>34. CASE Drain
  BY <1>34 DEF Drain, ChipQuantum, Quantum, Least
<1>35. CASE ChipRelease
  BY <1>35 DEF ChipRelease
<1>36. CASE GateVisible
  BY <1>36 DEF GateVisible
<1>37. CASE HostInterrupt
  BY <1>37 DEF HostInterrupt, WakeHost, Sev
<1>38. CASE HostAck
  BY <1>38 DEF HostAck
<1>39. CASE UNCHANGED vars
  BY <1>39 DEF vars
<1> QED
  BY <1>1, <1>2, <1>3, <1>4, <1>5, <1>6, <1>7, <1>8, <1>9, <1>10, <1>11,
     <1>12, <1>13, <1>14, <1>15, <1>16, <1>17, <1>18, <1>19, <1>20, <1>21,
     <1>22, <1>23, <1>24, <1>25, <1>26, <1>27, <1>28, <1>29, <1>30, <1>31,
     <1>32, <1>33, <1>34, <1>35, <1>36, <1>37, <1>38, <1>39 DEF Next,
     CpuRun, CpuChoice, Chip, Shared

\* A quantum, once computed, still ends at the deadline when it is stepped.
LEMMA DeadlineStep == TypeOK /\ LockInv /\ ArrivalInv /\ FlushInv /\ NeverPastDeadline /\ [Next]_vars => NeverPastDeadline'
<1> SUFFICES ASSUME TypeOK, LockInv, ArrivalInv, FlushInv, NeverPastDeadline, [Next]_vars PROVE NeverPastDeadline'
  OBVIOUS
<1> USE ConfigAssumption, LevelAssumption, ClockAssumption DEF TypeOK,
       LockInv, ArrivalInv, FlushInv, InFlush, NeverPastDeadline, Core, At,
       Goto, Put, coreVars, clockVars, rigelVars, irqVars, guestVars,
       localVars, CpuLabel, ChipLabel, StepLabel, SyncLabel
<1>1. ASSUME NEW c \in Core, Step(c) PROVE NeverPastDeadline'
  BY <1>1 DEF Step, AfterStep
<1>2. ASSUME NEW c \in Core, SyncAsk(c) PROVE NeverPastDeadline'
  BY <1>2 DEF SyncAsk
<1>3. ASSUME NEW c \in Core, SyncLevel(c) PROVE NeverPastDeadline'
  BY <1>3 DEF SyncLevel, LevelStore
<1>4. ASSUME NEW c \in Core, SyncGate(c) PROVE NeverPastDeadline'
  BY <1>4 DEF SyncGate, GateStore, WakeStop, Sev
<1>5. ASSUME NEW c \in Core, Spend(c) PROVE NeverPastDeadline'
  BY <1>5 DEF Spend
<1>6. ASSUME NEW c \in Core, Acquire(c) PROVE NeverPastDeadline'
  BY <1>6 DEF Acquire
<1>7. CASE Create
  BY <1>7 DEF Create
<1>8. CASE Enable
  BY <1>8 DEF Enable, Ask, Sev
<1>9. CASE Reset
  BY <1>9 DEF Reset
<1>10. CASE IrqInit
  BY <1>10 DEF IrqInit
<1>11. CASE Observe
  BY <1>11 DEF Observe, OnlyPC
<1>12. CASE ArmOwner
  BY <1>12 DEF ArmOwner, OnlyPC
<1>13. CASE ArmReset
  BY <1>13 DEF ArmReset
<1>14. CASE ArmSet
  BY <1>14 DEF ArmSet
<1>15. CASE Flush
  BY <1>15 DEF Flush, OnlyPC
<1>16. CASE CpuAdvance
  BY <1>16 DEF CpuAdvance, AdvanceWall, Forgive, Least
<1>17. CASE Consume
  BY <1>17 DEF Consume, Quantum, Least
<1>18. CASE Mmio
  BY <1>18 DEF Mmio
<1>19. CASE MmioOwner
  BY <1>19 DEF MmioOwner, SomeoneElseAsks
<1>20. CASE CpuRelease
  BY <1>20 DEF CpuRelease
<1>21. CASE StopCheck
  BY <1>21 DEF StopCheck, OnlyPC
<1>22. CASE StopWfe
  BY <1>22 DEF StopWfe
<1>23. CASE SelftestReset
  BY <1>23 DEF SelftestReset, OnlyPC
<1>24. CASE Park
  BY <1>24 DEF Park
<1>25. CASE Transact
  BY <1>25 DEF Transact
<1>26. CASE Stop
  BY <1>26 DEF Stop, OnlyPC
<1>27. CASE Entry
  BY <1>27 DEF Entry, OnlyPC
<1>28. CASE Wait
  BY <1>28 DEF Wait, OnlyPC
<1>29. CASE WaitWfe
  BY <1>29 DEF WaitWfe
<1>30. CASE Arrive
  BY <1>30 DEF Arrive, Sev, InFlush
<1>31. CASE Loop
  BY <1>31 DEF Loop, OnlyPC
<1>32. ASSUME NEW w \in 0..MaxWall, ChipAdvance(w) PROVE NeverPastDeadline'
  BY <1>32 DEF ChipAdvance, AdvanceWall, Forgive, Least
<1>33. CASE Floor
  BY <1>33 DEF Floor, Decline, Quantum, Least
<1>34. CASE Drain
  BY <1>34 DEF Drain, ChipQuantum, Quantum, Least
<1>35. CASE ChipRelease
  BY <1>35 DEF ChipRelease
<1>36. CASE GateVisible
  BY <1>36 DEF GateVisible
<1>37. CASE HostInterrupt
  BY <1>37 DEF HostInterrupt, WakeHost, Sev
<1>38. CASE HostAck
  BY <1>38 DEF HostAck
<1>39. CASE UNCHANGED vars
  BY <1>39 DEF vars
<1> QED
  BY <1>1, <1>2, <1>3, <1>4, <1>5, <1>6, <1>7, <1>8, <1>9, <1>10, <1>11,
     <1>12, <1>13, <1>14, <1>15, <1>16, <1>17, <1>18, <1>19, <1>20, <1>21,
     <1>22, <1>23, <1>24, <1>25, <1>26, <1>27, <1>28, <1>29, <1>30, <1>31,
     <1>32, <1>33, <1>34, <1>35, <1>36, <1>37, <1>38, <1>39 DEF Next,
     CpuRun, CpuChoice, Chip, Shared

\* The initial states satisfy it.
LEMMA Start == Init => IInv /\ NeverPastDeadline
<1> SUFFICES ASSUME Init PROVE IInv /\ NeverPastDeadline
  OBVIOUS
<1> USE DEF Init, Core, At, CpuLabel, ChipLabel, StepLabel, SyncLabel
<1>1. pc \in [Core -> CpuLabel \cup ChipLabel] /\ event \in [Core -> BOOLEAN]
      /\ pc["cpu"] \in CpuLabel /\ pc["chip"] \in ChipLabel
  OBVIOUS
<1>2. q \in [Core -> 0..MaxStep] /\ budget \in 0..Budget /\ due \in 0..Horizon
  BY ClockAssumption
<1>3. ipl \in [Core -> Levels] /\ level \in Levels /\ published \in Levels
  BY LevelAssumption
<1>4. pending \in 0..(Word - 1)
  BY ClockAssumption
<1>5. back \in [Core -> {"spend", "release", "idle"}]
  OBVIOUS
<1>6. TypeOK
  BY <1>1, <1>2, <1>3, <1>4, <1>5 DEF TypeOK
<1>7. LockInv /\ ArrivalInv /\ FlushInv /\ BudgetInv /\ NeverPastDeadline
  BY DEF LockInv, ArrivalInv, FlushInv, InFlush, BudgetInv, Spending, NeverPastDeadline
<1>8. GateInv
  BY DEF GateInv, SettledGate
<1>9. BacklogInv
  BY ClockAssumption DEF BacklogInv, Spending
<1>10. CurrentInv
  BY DEF CurrentInv, SyncCurrent
<1> QED
  BY <1>6, <1>7, <1>8, <1>9, <1>10 DEF IInv

\* The strengthening: every reachable state satisfies IInv.
THEOREM Inductive == Spec => []IInv
<1>1. Init => IInv
  BY Start
<1>2. IInv /\ [Next]_vars => IInv'
  BY TypeStep, LockStep, ArrivalStep, FlushStep, Exclusion, GateStep,
     BacklogStep, BudgetStep, CurrentStep DEF IInv
<1> QED
  BY <1>1, <1>2, PTL DEF Spec

\* Every variable keeps its type; pending_cck never leaves 64 bits.
THEOREM TypeCorrect == Spec => []TypeOK
<1>1. IInv => TypeOK
  BY DEF IInv
<1> QED
  BY <1>1, Inductive, PTL

\* For every level set, cap, budget and step: the two cores are never inside
\* Rigel, or publishing its level, at once, outside the selftests and the one
\* flush that the chipset core's arrival can overtake.
THEOREM MutualExclusion == Spec => []OneInRigel
<1>1. IInv => OneInRigel
  BY Exclusion DEF IInv
<1> QED
  BY <1>1, Inductive, PTL

\* The gate never hides a published level nor announces level 0, and whoever
\* sees it open finds the level there.
THEOREM GateTellsTheTruth == Spec => [](GateAgrees /\ LevelBeforeGate)
<1>1. IInv => GateAgrees /\ LevelBeforeGate
  BY DEF IInv, TypeOK, GateInv, SettledGate, GateAgrees, LevelBeforeGate, At, Core
<1> QED
  BY <1>1, Inductive, PTL

\* A guest between transactions, and a chipset core that has stepped, have
\* published the level Rigel asserts; an open gate has its level behind it.
THEOREM StepsAreHonest == Spec => []StepsHonest
<1>1. IInv => LevelBeforeGate
  BY DEF IInv, TypeOK, GateInv, SettledGate, LevelBeforeGate, At, Core
<1>2. IInv => OwnerIsCurrent
  BY DEF IInv, CurrentInv, OwnerIsCurrent
<1>3. IInv => StepPublishes
  BY DEF IInv, CurrentInv, ArrivalInv, StepPublishes, At
<1>4. IInv => StepsHonest
  BY <1>1, <1>2, <1>3 DEF StepsHonest
<1> QED
  BY <1>4, Inductive, PTL

\* The backlog stays within the catch-up cap and no step spends more than it.
THEOREM BacklogWithinCap == Spec => []BacklogBounded
<1>1. IInv => BacklogBounded
  BY DEF IInv, BacklogInv, BacklogBounded, Spending, Core
<1> QED
  BY <1>1, Inductive, PTL

\* Once the chipset has a core of its own, only that core, holding the lock,
\* writes pending_cck and the wall reference.
THEOREM ClockOwnership == Spec => OnlyOwnerTouchesClock
<1>1. IInv /\ [Next]_vars => [ClockKept]_vars
  BY ClockStep DEF IInv
<1> QED
  BY <1>1, Inductive, PTL DEF Spec, OnlyOwnerTouchesClock, ClockKept

\* No step goes beyond the next observable deadline.
THEOREM StepsReachDeadlines == Spec => []NeverPastDeadline
<1>1. Init => NeverPastDeadline
  BY Start
<1>2. IInv /\ NeverPastDeadline /\ [Next]_vars => NeverPastDeadline'
  BY DeadlineStep DEF IInv
<1> QED
  BY <1>1, <1>2, Inductive, PTL DEF Spec
=============================================================================
