SPECIFICATION Spec
CONSTANTS
    Irq <- MCIrq
    Bank <- MCBank
    Request <- MCRequest
    RequestLevel <- MCRequestLevel
    DrainRounds = 2
INVARIANTS
    TypeOK
    NeverDeaf
    SnapshotFresh
PROPERTIES
    HandlerReturns
    SourceServed
