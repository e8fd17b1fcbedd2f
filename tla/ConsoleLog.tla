------------------------------ MODULE ConsoleLog ------------------------------
(***************************************************************************)
(* What src/amiga/console.h promises of the console sink: each core        *)
(* assembles its line alone and publishes it whole, or drops it whole when *)
(* there is no room; what was published reaches the wire byte by byte, in  *)
(* order, once.                                                            *)
(***************************************************************************)
EXTENDS Naturals, Sequences

CONSTANTS
    Core,       \* the cores that log
    Char,       \* characters, NL among them
    NL,         \* the newline
    LineMax,    \* the longest piece published at once
    Capacity    \* bytes a core may have published and not yet on the wire

VARIABLES
    line,       \* what each core has assembled
    queue,      \* what each has published and the wire has not seen
    wire        \* the last byte sent, and whose

vars == <<line, queue, wire>>

\* console_putc hands over a piece at a newline, or when the buffer is full.
Complete(l) == l # <<>> /\ (l[Len(l)] = NL \/ Len(l) = LineMax)

Fits(c) == Len(queue[c]) + Len(line[c]) <= Capacity

Init ==
    /\ line = [c \in Core |-> <<>>]
    /\ queue = [c \in Core |-> <<>>]
    /\ wire \in Core \X {NL}

Type(c, ch) ==
    /\ ~Complete(line[c])
    /\ line' = [line EXCEPT ![c] = Append(@, ch)]
    /\ UNCHANGED <<queue, wire>>

Publish(c) ==
    /\ Complete(line[c]) /\ Fits(c)
    /\ queue' = [queue EXCEPT ![c] = @ \o line[c]]
    /\ line' = [line EXCEPT ![c] = <<>>]
    /\ UNCHANGED wire

Drop(c) ==
    /\ Complete(line[c]) /\ ~Fits(c)
    /\ line' = [line EXCEPT ![c] = <<>>]
    /\ UNCHANGED <<queue, wire>>

Send(c) ==
    /\ queue[c] # <<>>
    /\ wire' = <<c, Head(queue[c])>>
    /\ queue' = [queue EXCEPT ![c] = Tail(@)]
    /\ UNCHANGED line

Next == \E c \in Core :
            \/ \E ch \in Char : Type(c, ch)
            \/ Publish(c) \/ Drop(c) \/ Send(c)

Spec == Init /\ [][Next]_vars
===============================================================================
