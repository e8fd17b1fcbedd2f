----------------------------- MODULE MCDwcEngine -----------------------------
(* Small instances of DwcEngine.                                           *)
EXTENDS DwcEngine

\* A control transfer and a mouse behind one hub.
HubReq == {"control", "mouse"}

\* Two transfers of one disk endpoint on the root port, and that mouse.
DiskReq == {"read", "next", "mouse"}

MCKind     == [r \in Req |-> CASE r = "control" -> "control"
                               [] r = "mouse" -> "int" [] OTHER -> "bulk"]
MCEndpoint == [r \in Req |-> IF r = "next" THEN "read" ELSE r]
MCHub      == [r \in Req |-> IF r \in {"read", "next"} THEN "none" ELSE "hub"]
MCChunks   == [r \in Req |-> IF r = "read" THEN 2 ELSE 1]
MCPace     == [k \in {"control", "bulk", "int"} |-> IF k = "bulk" THEN 0 ELSE 1]
=============================================================================
