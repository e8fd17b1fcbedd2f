------------------------------ MODULE Mailbox ------------------------------
(***************************************************************************)
(* mbox.resource: MBoxCall, one transaction under the semaphore, and       *)
(* MBoxWrite and MBoxRead, two.  A message is the address of its buffer;   *)
(* every caller owns one and uses it again.  The firmware (external)       *)
(* answers in order by writing the buffer and returning its address.       *)
(* The channel is always the property channel.                             *)
(***************************************************************************)
EXTENDS Naturals, Sequences, SequencesExt

CONSTANTS
  Callers,      \* tasks that use MBoxCall
  Splitters,    \* tasks that use MBoxWrite and then MBoxRead
  Depth,        \* words either FIFO of the hardware holds
  MaxCalls,     \* bound: transactions
  Unlucky       \* tasks whose polls may run out of their budget

Task == Callers \union Splitters
None == "none"

MailAssumption == Depth \in Nat /\ None \notin Task

VARIABLES
  pc,        \* per task
  owner,     \* mbox_Sem
  outbox, inbox,
  serving,   \* the message the firmware works on, or None
  buffer,    \* per task: "asked", "answered" or what it has nothing in
  result,    \* per task: what its last transaction returned
  calls,
  late       \* tasks that gave a transaction up

vars == <<pc, owner, outbox, inbox, serving, buffer, result, calls, late>>

-----------------------------------------------------------------------------
Goto(t, from, to) == pc[t] = from /\ pc' = [pc EXCEPT ![t] = to]

(* The message is built in the task's own buffer.                          *)
Build(t) ==
  /\ calls < MaxCalls
  /\ Goto(t, "idle", "obtain")
  /\ buffer' = [buffer EXCEPT ![t] = "asked"]
  /\ result' = [result EXCEPT ![t] = None]
  /\ calls' = calls + 1
  /\ UNCHANGED <<owner, outbox, inbox, serving, late>>

Unlocked(t) == TRUE   \* mutant: no semaphore
Free(t)     == owner = None
ObtainSemaphore(t) ==
  /\ Free(t) /\ owner' = t
  /\ Goto(t, "obtain", "write")
  /\ UNCHANGED <<outbox, inbox, serving, buffer, result, calls, late>>

(* Only while the FIFO is not full; MBoxCall gives up after a while,       *)
(* MBoxWrite does not, and releases the semaphore when it has written. *)
Write(t) ==
  /\ Len(outbox) < Depth
  /\ outbox' = Append(outbox, t)
  /\ Goto(t, "write", IF t \in Callers THEN "read" ELSE "between")
  /\ owner' = IF t \in Callers THEN owner ELSE None
  /\ UNCHANGED <<inbox, serving, buffer, result, calls, late>>

Return(t, r) ==
  /\ pc' = [pc EXCEPT ![t] = "idle"]
  /\ owner' = None
  /\ result' = [result EXCEPT ![t] = r]

Timeout(t) ==
  /\ t \in Unlucky
  /\ \/ pc[t] = "write" /\ t \in Callers /\ Len(outbox) = Depth
     \/ pc[t] = "read" /\ inbox = <<>>
  /\ Return(t, "failed") /\ late' = late \union {t}
  /\ UNCHANGED <<outbox, inbox, serving, buffer, calls>>

(* MBoxRead takes the semaphore again.                                     *)
MBoxRead(t) ==
  /\ owner = None /\ owner' = t
  /\ Goto(t, "between", "read")
  /\ UNCHANGED <<outbox, inbox, serving, buffer, result, calls, late>>

(* MBoxCall waits for its own address and drops every other message;       *)
(* MBoxRead returns the first, and its caller compares the address. *)
AnyAddress(t) == TRUE   \* mutant: the address is not compared
Ours(t)       == Head(inbox) = t \/ t \in Splitters
Read(t) ==
  /\ pc[t] = "read" /\ inbox # <<>> /\ inbox' = Tail(inbox)
  /\ IF Ours(t) THEN Return(t, IF t \in Splitters /\ Head(inbox) # t THEN "failed" ELSE buffer[t])
     ELSE UNCHANGED <<pc, owner, result>>
  /\ UNCHANGED <<outbox, serving, buffer, calls, late>>

-----------------------------------------------------------------------------
(* The firmware                                                            *)

Take ==
  /\ serving = None /\ outbox # <<>>
  /\ serving' = Head(outbox) /\ outbox' = Tail(outbox)
  /\ UNCHANGED <<pc, owner, inbox, buffer, result, calls, late>>

Answer ==
  /\ serving # None /\ Len(inbox) < Depth
  /\ buffer' = [buffer EXCEPT ![serving] = "answered"]
  /\ inbox' = Append(inbox, serving) /\ serving' = None
  /\ UNCHANGED <<pc, owner, outbox, result, calls, late>>

-----------------------------------------------------------------------------
Init ==
  /\ pc = [t \in Task |-> "idle"] /\ owner = None
  /\ outbox = <<>> /\ inbox = <<>> /\ serving = None
  /\ buffer = [t \in Task |-> None] /\ result = [t \in Task |-> None]
  /\ calls = 0 /\ late = {}

Next ==
  \/ \E t \in Task : Build(t) \/ ObtainSemaphore(t) \/ Write(t) \/ Timeout(t) \/ MBoxRead(t) \/ Read(t)
  \/ Take \/ Answer

Spec == Init /\ [][Next]_vars

-----------------------------------------------------------------------------
TypeOK ==
  /\ pc \in [Task -> {"idle", "obtain", "write", "between", "read"}]
  /\ owner \in Task \union {None} /\ serving \in Task \union {None}
  /\ outbox \in Seq(Task) /\ Len(outbox) <= Depth
  /\ inbox \in Seq(Task) /\ Len(inbox) <= Depth
  /\ buffer \in [Task -> {None, "asked", "answered"}]
  /\ result \in [Task -> {None, "asked", "answered", "failed"}]
  /\ late \subseteq Task

(* A transaction that succeeds has the firmware's answer in its buffer,    *)
(* unless its task gave up an earlier one; and to such a task alone the    *)
(* firmware writes when it believes the transaction over. *)
AnswerIsOurs ==
  \A t \in Task \ late :
    /\ result[t] \in {None, "failed", "answered"}
    /\ pc[t] = "idle" => t \notin ToSet(outbox) \union {serving}

(* The reply of a task that waits is still to come, whoever timed out      *)
(* before: nobody takes a message that another one is waiting for. *)
NoReplyLost ==
  \A t \in Task : pc[t] \in {"between", "read"} =>
    t \in ToSet(outbox) \union ToSet(inbox) \union {serving}

-----------------------------------------------------------------------------
(* The inductive invariant, in parts.                                      *)

(* The semaphore is held from its Obtain to its Release.                   *)
Owned ==
  \A t \in Task : /\ owner = t <=> pc[t] \in {"write", "read"}
                  /\ pc[t] = "between" => t \in Splitters

(* The message of a task that gave nothing up is in one place, once, while *)
(* the task is between its write and its read, and nowhere before.         *)
Once(q, t) == \A i, j \in 1..Len(q) : q[i] = t /\ q[j] = t => i = j
InOnePlace(t) ==
  /\ Once(outbox, t) /\ Once(inbox, t)
  /\ serving = t => t \notin ToSet(outbox) \union ToSet(inbox)
  /\ t \notin ToSet(outbox) \intersect ToSet(inbox)
Fresh ==
  \A t \in Task \ late :
    /\ InOnePlace(t)
    /\ pc[t] \in {"idle", "obtain", "write"} =>
         t \notin ToSet(outbox) \union ToSet(inbox) \union {serving}
    /\ t \in ToSet(inbox) => buffer[t] = "answered"
    /\ result[t] # "asked"

IInv == TypeOK /\ Owned /\ Fresh /\ NoReplyLost

(* The two forms of a transaction are not mixed: every task uses MBoxCall, *)
(* or one task is alone.                                                   *)
Apart == Splitters = {} \/ \A t, u \in Task : t = u

(* What a transaction promises, all of it.                                 *)
MailKept == TypeOK /\ AnswerIsOurs /\ NoReplyLost
=============================================================================
