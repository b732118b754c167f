----------------------------- MODULE WriteOutcome -----------------------------
(***************************************************************************)
(* What the connector promises about a write call (start a turn, steer,    *)
(* interrupt, answer a request): the mutation reaches the desktop at most  *)
(* once; a success is reported only for a mutation the desktop has; a      *)
(* definite failure is final, the mutation has not reached the desktop and *)
(* never will; otherwise the outcome is reported as unknown, and the       *)
(* mutation may arrive before or after that report.                        *)
(***************************************************************************)
EXTENDS Naturals

CONSTANTS
  Calls,   \* the write calls
  Routes   \* the connections by which a mutation may reach the desktop

VARIABLES
  delivered,  \* per call and route: how often its mutation has arrived
  outcome     \* per call: what its caller has been told

vars == <<delivered, outcome>>

Outcomes == {"none", "ok", "refused", "unknown"}

Arrived(c) == \E p \in Routes : delivered[c][p] > 0

Init ==
  /\ delivered = [c \in Calls |-> [p \in Routes |-> 0]]
  /\ outcome = [c \in Calls |-> "none"]

Deliver(c, p) ==
  /\ ~Arrived(c) /\ outcome[c] # "refused"
  /\ delivered' = [delivered EXCEPT ![c][p] = 1]
  /\ UNCHANGED outcome

Report(c, o) ==
  /\ outcome[c] = "none"
  /\ o = "ok" => Arrived(c)
  /\ o = "refused" => ~Arrived(c)
  /\ outcome' = [outcome EXCEPT ![c] = o]
  /\ UNCHANGED delivered

Next ==
  \/ \E c \in Calls, p \in Routes : Deliver(c, p)
  \/ \E c \in Calls, o \in Outcomes \ {"none"} : Report(c, o)

Spec == Init /\ [][Next]_vars
=============================================================================
