SPECIFICATION Spec
CONSTANTS
    Irq <- NoIrq
    Bank <- MCBank
    Request <- OneRequest
    RequestLevel <- MCRequestLevel
    DrainRounds = 2
PROPERTY ChipsetServed
