--------------------------- MODULE MCChipsetCore ---------------------------
(* Small instances of ChipsetCore.                                         *)
EXTENDS ChipsetCore

Boot(r, c, f, s, b) ==
    [rigel |-> r, core |-> c, floor |-> f, selftest |-> s, barrier |-> b]

\* The shipped image, with and without bellatrix.chipfloor, as if the gate
\* were visible when the event is delivered, and without that assumption.
Shipped == {Boot("up", TRUE, f, FALSE, b) : f \in BOOLEAN, b \in BOOLEAN}

\* The chipset on the cpu core, and the boots that have no chipset.
SingleCore == {Boot("up", FALSE, FALSE, FALSE, TRUE)}
NoChipset  == {Boot(r, TRUE, FALSE, FALSE, TRUE) : r \in {"off", "failed"}}

Selftest == {Boot("up", TRUE, FALSE, TRUE, TRUE)}

MCConfigs == Shipped \cup SingleCore \cup NoChipset \cup Selftest
LiveConfigs == SingleCore \cup {c \in Shipped : c.barrier}

\* One boot each, for the runs that show a disagreement.
Handover  == {Boot("up", TRUE, FALSE, FALSE, TRUE)}
NoBarrier == {Boot("up", TRUE, FALSE, FALSE, FALSE)}

MCLevels  == {0, 3}

\* A STOP ends, by the level Rigel asserts and by an interrupt of the host, at
\* whatever point of its loop they fall.
StopEnds == LevelEndsStop /\ HostEndsStop
=============================================================================
