----------------------------- MODULE UsbRequests -----------------------------
(***************************************************************************)
(* What the DWC2 host driver owes its client and the bus: a request that   *)
(* was begun waits or is on the bus, one place at a time, and is replied   *)
(* once; an endpoint carries one transfer, a transaction translator one    *)
(* split, and a control transfer is started on a quiet bus only.           *)
(***************************************************************************)
CONSTANTS
    Req,        \* the client's requests
    Kind,       \* "control", "bulk" or "int"
    Endpoint,   \* device, endpoint number and direction of each
    Hub,        \* whose translator each needs, NoHub for none
    NoHub

VARIABLE state  \* of each request: "client", "waiting" or "active"

Active == {r \in Req : state[r] = "active"}

\* May r share the bus with what is on it?
SameEndpoint(r) == \E a \in Active : Endpoint[a] = Endpoint[r]
SameHub(r)      == Hub[r] # NoHub /\ \E a \in Active : Hub[a] = Hub[r]
MayStart(r)     == /\ Kind[r] = "control" => Active = {}
                   /\ ~SameEndpoint(r) /\ ~SameHub(r)

Move(r, from, to) == state[r] = from /\ state' = [state EXCEPT ![r] = to]

Init == state = [r \in Req |-> "client"]

Begin(r)   == Move(r, "client", "waiting")
Start(r)   == MayStart(r) /\ Move(r, "waiting", "active")
\* An interrupt endpoint with nothing to say yet.
Suspend(r) == Kind[r] = "int" /\ Move(r, "active", "waiting")
Reply(r)   == Move(r, "active", "client") \/ Move(r, "waiting", "client")

Next == \E r \in Req : Begin(r) \/ Start(r) \/ Suspend(r) \/ Reply(r)

Spec == Init /\ [][Next]_state
==============================================================================
