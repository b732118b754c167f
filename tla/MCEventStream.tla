---------------------------- MODULE MCEventStream -----------------------------
(* Instances of EventStream for TLC.                                         *)
EXTENDS EventStream

\* Bound: a behaviour has publishers or polls.  A poll reads no publisher's
\* state, and a publisher no client's, so the two share only what both read.
PollOrPublish == publishers = {} \/ (at = 0 /\ reply = NoReply)
=============================================================================
