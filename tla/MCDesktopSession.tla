--------------------------- MODULE MCDesktopSession ---------------------------
(* Instances of DesktopSession for TLC.  Calls and connections are          *)
(* interchangeable, which the safety runs use; the liveness runs do not.    *)
EXTENDS DesktopSession, TLC

Symmetry == Permutations(Calls) \cup Permutations(Sessions)

\* Bound of the reconnect run: the desktop sends no probe, so the channels hold
\* requests only (the queue run has probes).
NoProbes ==
  \A s \in Sessions : inHand[s] # ProbeReply /\ ~InQueue(s, ProbeReply)
=============================================================================
