SPECIFICATION Spec
CONSTANTS
    Cores = 2
    Char <- MCChar
    NL = "nl"
    LineMax = 2
    RingSize = 4
PROPERTY LineNotCut
