----------------------------- MODULE ConsoleRings -----------------------------
(***************************************************************************)
(* src/amiga/console.c: one single-producer single-consumer ring per core, *)
(* and one core that drains them all to the UART.                          *)
(*                                                                         *)
(* A producer is a core inside console_putc: it loads head and tail,       *)
(* copies its piece byte by byte and publishes head once.  The drainer     *)
(* looks at one ring at a time.  Loads and stores are acquire and release, *)
(* so they are interleaved as they are written.  Sending a byte and        *)
(* storing tail are one step: no producer can see the UART.                *)
(* CONSOLE_DRAIN_MAX only makes amiga_console_drain return to a caller     *)
(* that calls it again, and nothing reads the drop counter: both are left  *)
(* out.                                                                    *)
(***************************************************************************)
EXTENDS Integers, Sequences

CONSTANTS
    Cores,      \* how many cores log: 4
    Char, NL,   \* characters, and the newline among them
    LineMax,    \* CONSOLE_LINE_MAX
    RingSize    \* CONSOLE_RING_SIZE

Core == 0..Cores - 1
Slot == 0..RingSize - 1

CoresAssumption == Cores \in Nat \ {0}
CharAssumption  == NL \in Char
SizeAssumption  == /\ LineMax \in Nat \ {0} /\ RingSize \in Nat \ {0}

VARIABLES
    whole,             \* programs keep their lines within LineMax
    console_ready,
    line,              \* line, line_len
    head, tail, data,  \* rings
    pos,               \* the producer's local head, NoPos outside ring_push
    next_core,         \* the static of amiga_console_drain
    scanned,           \* rings looked at in this scan
    wire               \* the last byte sent, and whose

ringVars  == <<head, tail, data>>
drainVars == <<next_core, scanned, wire>>
vars == <<whole, console_ready, line, ringVars, pos, drainVars>>

NoPos == -1

CompleteLate(l) ==   \* mutant: one character past the end of the line
    l # <<>> /\ (l[Len(l)] = NL \/ Len(l) > LineMax)
\* A piece is handed over at a newline, or when the buffer is full.
Complete(l) == l # <<>> /\ (l[Len(l)] = NL \/ Len(l) = LineMax)

Init ==
    /\ whole \in BOOLEAN
    /\ console_ready = FALSE
    /\ line = [c \in Core |-> <<>>]
    /\ head = [c \in Core |-> 0] /\ tail = [c \in Core |-> 0]
    /\ data = [c \in Core |-> [s \in Slot |-> NL]]
    /\ pos = [c \in Core |-> NoPos]
    /\ next_core = 0 /\ scanned = 0
    /\ wire = <<0, NL>>

\* amiga_console_init installs the sink and lets the drainer go.
ConsoleInit ==
    /\ ~console_ready /\ console_ready' = TRUE
    /\ UNCHANGED <<whole, line, ringVars, pos, drainVars>>

-----------------------------------------------------------------------------
(* A producer.                                                             *)

\* console_putc with one character of a program's.
Putc(c, ch) ==
    /\ console_ready /\ ~Complete(line[c])
    /\ whole /\ Len(line[c]) = LineMax - 1 => ch = NL
    /\ line' = [line EXCEPT ![c] = Append(@, ch)]
    /\ UNCHANGED <<whole, console_ready, ringVars, pos, drainVars>>

\* ring_push: is there room, or is the piece dropped?  One slot stays free, so
\* that a full ring is not an empty one.
Used(c) == (head[c] - tail[c]) % RingSize

NoRoomLate(c) == Len(line[c]) > RingSize - Used(c)   \* mutant: the slot used
NoRoom(c)     == Len(line[c]) > RingSize - 1 - Used(c)

Room(c) ==
    /\ Complete(line[c]) /\ pos[c] = NoPos /\ ~NoRoom(c)
    /\ pos' = [pos EXCEPT ![c] = head[c]]
    /\ UNCHANGED <<whole, console_ready, line, ringVars, drainVars>>

Drop(c) ==
    /\ Complete(line[c]) /\ pos[c] = NoPos /\ NoRoom(c)
    /\ line' = [line EXCEPT ![c] = <<>>]
    /\ UNCHANGED <<whole, console_ready, ringVars, pos, drainVars>>

Copied(c) == (pos[c] - head[c]) % RingSize

Copy(c) ==
    /\ pos[c] # NoPos /\ Copied(c) < Len(line[c])
    /\ data' = [data EXCEPT ![c][pos[c]] = line[c][Copied(c) + 1]]
    /\ pos' = [pos EXCEPT ![c] = (@ + 1) % RingSize]
    /\ UNCHANGED <<whole, console_ready, line, head, tail, drainVars>>

Publish(c) ==
    /\ pos[c] # NoPos /\ Copied(c) = Len(line[c])
    /\ head' = [head EXCEPT ![c] = pos[c]]
    /\ pos' = [pos EXCEPT ![c] = NoPos]
    /\ line' = [line EXCEPT ![c] = <<>>]
    /\ UNCHANGED <<whole, console_ready, tail, data, drainVars>>

-----------------------------------------------------------------------------
(* The drainer.                                                            *)

Looked == (next_core + scanned) % Cores

Pass ==
    /\ console_ready /\ tail[Looked] = head[Looked]
    /\ scanned' = (scanned + 1) % Cores
    /\ UNCHANGED <<whole, console_ready, line, ringVars, pos, next_core, wire>>

\* Round-robin at line boundaries.
NeverTurn(c, byte) == next_core   \* mutant: stays with the busiest core
Turn(c, byte) == IF byte = NL THEN (c + 1) % Cores ELSE next_core

Send ==
    /\ console_ready /\ tail[Looked] # head[Looked]
    /\ LET byte == data[Looked][tail[Looked]] IN
         /\ wire' = <<Looked, byte>>
         /\ next_core' = Turn(Looked, byte)
    /\ tail' = [tail EXCEPT ![Looked] = (@ + 1) % RingSize]
    /\ scanned' = 0
    /\ UNCHANGED <<whole, console_ready, line, head, data, pos>>

Drain == Pass \/ Send

Next == \/ ConsoleInit
        \/ \E c \in Core : \/ \E ch \in Char : Putc(c, ch)
                           \/ Room(c) \/ Drop(c) \/ Copy(c) \/ Publish(c)
        \/ Drain

\* The draining core does nothing else and never sleeps.
Spec == Init /\ [][Next]_vars /\ WF_vars(Drain)

-----------------------------------------------------------------------------
(* Properties.                                                             *)

TypeOK ==
    /\ whole \in BOOLEAN /\ console_ready \in BOOLEAN
    /\ line \in [Core -> Seq(Char)]
    /\ \A c \in Core : Len(line[c]) <= LineMax
    /\ head \in [Core -> Slot] /\ tail \in [Core -> Slot]
    /\ data \in [Core -> [Slot -> Char]]
    /\ pos \in [Core -> Slot \cup {NoPos}]
    /\ next_core \in Core /\ scanned \in Core
    /\ wire \in Core \X Char

\* What the ring of a core holds, oldest first.
Queue(c) == [i \in 1..Used(c) |-> data[c][(tail[c] + (i - 1)) % RingSize]]

\* The rings do what the header promises: what is between tail and head is
\* what was published and not sent, whole pieces, in order, once, whatever the
\* other cores and the drainer do meanwhile.
Log == INSTANCE ConsoleLog WITH
         Capacity <- RingSize - 1, queue <- [c \in Core |-> Queue(c)]

Implements == Log!Spec

\* The inductive invariant: a piece that is being copied is complete, fits, and is
\* in its slots as far as it was copied.
Copying ==
    \A c \in Core : pos[c] # NoPos =>
        /\ Complete(line[c])
        /\ Copied(c) <= Len(line[c]) /\ Used(c) + Len(line[c]) <= RingSize - 1
        /\ \A i \in 1..Copied(c) :
             data[c][(head[c] + (i - 1)) % RingSize] = line[c][i]

IInv == TypeOK /\ Copying

\* "A core that is logging heavily must not lock another out" (console.c): as
\* long as lines fit in LineMax, no ring stays non-empty with nothing of it
\* sent.
NoLockout ==
    whole => \A c \in Core : \/ []<>(tail[c] = head[c])
                             \/ []<><<tail'[c] # tail[c]>>_tail

\* "A line must not be cut to be fair" (console.c): the drainer leaves a core
\* for another at a newline only.  The code violates it, even while every line
\* is published whole.
LineNotCut == [][whole /\ wire'[1] # wire[1] => wire[2] = NL]_vars
===============================================================================
