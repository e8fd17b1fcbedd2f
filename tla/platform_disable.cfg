SPECIFICATION Spec
CONSTANTS
    Irq <- OneIrq
    Bank <- MCBank
    Request <- NoRequest
    RequestLevel <- MCRequestLevel
    DrainRounds = 2
INVARIANT DisableExcludesHandlers
