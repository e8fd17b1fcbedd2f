---------------------------- MODULE MCPlatformIrq ----------------------------
(* Small instances of PlatformIrq.                                         *)
EXTENDS PlatformIrq

\* One source in a GPU bank and one on the ARM side; the vertical blank and
\* the software interrupt.
MCBank         == [i \in Irq |-> IF i = "usb" THEN 0 ELSE 2]
MCIrq          == {"usb", "arm"}
MCRequest      == {"vertb", "softint"}
MCRequestLevel == [b \in Request |-> IF b = "vertb" THEN 3 ELSE 1]

\* A machine in which only the chipset asks for anything, and one in which
\* only the platform does.
NoIrq          == {}
OneIrq         == {"usb"}
NoRequest      == {}
OneRequest     == {"vertb"}
==============================================================================
