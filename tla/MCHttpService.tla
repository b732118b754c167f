----------------------------- MODULE MCHttpService -----------------------------
(* Instances of HttpConnection and ProjectDirectories for TLC: the framing   *)
(* of one connection, and the handlers behind it that share the lock of the  *)
(* server.  The two share no state, so in a behaviour one of them runs and   *)
(* the other keeps one of its starts.                                        *)
EXTENDS HttpConnection, ProjectDirectories

SomeTasks == CHOOSE t \in [DirectoryCalls -> Tasks] : \A c \in DirectoryCalls : ~t[c].new

HttpRests == request = (CHOOSE r \in Requests : TRUE) /\ HttpInit
DirectoriesRest == task = SomeTasks /\ dir = [p \in Projects |-> Absent] /\ DirectoryInit

\* Bound: the lengths vary, or what the checks after the framing look at does.
OneKind   == request.target = "invoke" /\ request.token /\ request.arguments
OneLength == request.declared = 2 /\ request.body = 2

HttpServiceInit ==
  \/ HttpRests /\ DirectoryInit
  \/ DirectoriesRest /\ HttpInit /\ (OneKind \/ OneLength)

HttpServiceNext ==
  \/ HttpNext /\ DirectoriesRest /\ UNCHANGED directoryVars
  \/ DirectoryNext /\ HttpRests /\ UNCHANGED httpVars

HttpServiceSpec ==
  HttpServiceInit /\ [][HttpServiceNext]_<<httpVars, directoryVars>>
=============================================================================
