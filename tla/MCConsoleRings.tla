---------------------------- MODULE MCConsoleRings ----------------------------
(* Small instances of ConsoleRings.                                        *)
EXTENDS ConsoleRings

MCChar == {"x", "nl"}
===============================================================================
