--------------------------- MODULE ConnectorDaemon ----------------------------
(***************************************************************************)
(* Starting and stopping the connector (src/src/process_runtime.rs,        *)
(* src/src/cli.rs, start_server in src/src/main.rs): `start`, `start       *)
(* --daemon` and `stop` run at the same time over one data directory and   *)
(* one port; servers crash and are killed.                                 *)
(*                                                                         *)
(* Process ids are given out in order and not used again.  A token is the  *)
(* process that generated it, or Invalid, a file left with fewer than 32   *)
(* characters.  Abstracted: the log, permissions, options and output.      *)
(***************************************************************************)
EXTENDS Integers, FiniteSets

CONSTANTS
  Commands, Stops,   \* runs of `start --daemon`, and of `stop`
  None, Invalid,
  MaxPid             \* bound: server processes

ASSUME DaemonAssumption ==
  /\ Commands \cap Stops = {}
  /\ MaxPid \in Nat /\ None \notin Nat /\ Invalid \notin Nat \cup {None}

VARIABLES
  pidFile,   \* connector.pid
  token,     \* the management token file
  bound,     \* the process that holds the port, or None
  spawned,   \* number of server processes started
  server,    \* the next step of each, "serving" or "dead"
  key,       \* AppState.management_token of each, once loaded
  pc,        \* the next step of each command, or its result
  target     \* the process a command has found or started

serverVars  == <<token, bound, server, key>>
commandVars == <<pc, target>>
vars == <<pidFile, serverVars, spawned, commandVars>>

Pids   == 1..MaxPid
Ended  == {"ok", "error", "stopped"}
Living == {p \in 1..spawned : server[p] # "dead"}

Init ==
  /\ pidFile = None /\ token \in {None, Invalid} /\ bound = None
  /\ spawned = 0 /\ server = [p \in Pids |-> "dead"] /\ key = [p \in Pids |-> None]
  /\ pc = [c \in Commands \cup Stops |-> "health"]
  /\ target = [c \in Commands \cup Stops |-> None]

-----------------------------------------------------------------------------
(* A server process.                                                       *)

Goes(p, step) == server' = [server EXCEPT ![p] = step]

\* Fault: the failure to bind is ignored.
BindShared(p) ==
  /\ server[p] = "bind"
  /\ bound' = p /\ Goes(p, "load")
  /\ UNCHANGED <<pidFile, token, key, spawned, commandVars>>

Bind(p) ==
  /\ server[p] = "bind"
  /\ IF bound = None THEN bound' = p /\ Goes(p, "load")
                     ELSE bound' = bound /\ Goes(p, "dead")
  /\ UNCHANGED <<pidFile, token, key, spawned, commandVars>>

LoadToken(p) ==
  /\ server[p] = "load"
  /\ IF token \in Pids THEN key' = [key EXCEPT ![p] = token] /\ Goes(p, "pid")
                       ELSE key' = key /\ Goes(p, "create")
  /\ UNCHANGED <<pidFile, token, bound, spawned, commandVars>>

\* On Windows the old file is removed; elsewhere the rename replaces it.
RemoveOldToken(p) ==
  /\ server[p] = "create"
  /\ token' \in {None, token} /\ Goes(p, "rename")
  /\ UNCHANGED <<pidFile, bound, key, spawned, commandVars>>

\* The new token was written to a file named after the process.
RenameToken(p) ==
  /\ server[p] = "rename"
  /\ token' = p /\ Goes(p, "check")
  /\ UNCHANGED <<pidFile, bound, key, spawned, commandVars>>

ReadBack(p) ==
  /\ server[p] = "check"
  /\ IF token = p THEN key' = [key EXCEPT ![p] = p] /\ bound' = bound /\ Goes(p, "pid")
     ELSE key' = key /\ bound' = None /\ Goes(p, "dead")
  /\ UNCHANGED <<pidFile, token, spawned, commandVars>>

WriteOwnPid(p) ==
  /\ server[p] = "pid"
  /\ pidFile' = p /\ Goes(p, "serving")
  /\ UNCHANGED <<token, bound, key, spawned, commandVars>>

\* A crash, or the signal: the port is free, the files stay.
Die(p) ==
  /\ p \in Living
  /\ Goes(p, "dead")
  /\ bound' = IF bound = p THEN None ELSE bound
  /\ UNCHANGED <<pidFile, token, key, spawned, commandVars>>

\* `start`, by a command or by the platform.
Spawn ==
  /\ spawned < MaxPid
  /\ spawned' = spawned + 1
  /\ server' = [server EXCEPT ![spawned'] = "bind"]

StartServer ==
  /\ Spawn
  /\ UNCHANGED <<pidFile, token, bound, key, commandVars>>

-----------------------------------------------------------------------------
(* The commands.                                                           *)

Healthy == bound # None /\ server[bound] = "serving"

Moves(c, step) == pc' = [pc EXCEPT ![c] = step]

AskHealth(c, found, missing) ==
  /\ pc[c] = "health"
  /\ IF Healthy THEN target' = [target EXCEPT ![c] = bound] /\ Moves(c, found)
                ELSE target' = target /\ Moves(c, missing)
  /\ UNCHANGED <<pidFile, serverVars, spawned>>

RecordPid(c) ==
  /\ pc[c] = "record"
  /\ pidFile' = target[c] /\ Moves(c, "ok")
  /\ UNCHANGED <<serverVars, spawned, target>>

SpawnServer(c) ==
  /\ pc[c] = "spawn" /\ Spawn
  /\ target' = [target EXCEPT ![c] = spawned'] /\ Moves(c, "wait")
  /\ UNCHANGED <<pidFile, token, bound, key>>

\* Fault: whatever is healthy is taken for the child.
FoundAny(c) == Healthy

\* wait_for_connector_health, with the child as the expected process.
FoundChild(c) == Healthy /\ bound = target[c]

WaitHealth(c) ==
  /\ pc[c] = "wait" /\ FoundChild(c)
  /\ Moves(c, "record")
  /\ UNCHANGED <<pidFile, serverVars, spawned, target>>

\* Fault: the wait for the child has no deadline.
WaitForever(c) == FALSE /\ UNCHANGED vars

WaitExpires(c) ==
  /\ pc[c] = "wait" /\ Moves(c, "error")
  /\ UNCHANGED <<pidFile, serverVars, spawned, target>>

\* kill fails if the process is gone; the signal takes effect later (Die).
Terminate(c) ==
  /\ pc[c] = "terminate"
  /\ Moves(c, IF target[c] \in Living THEN "remove" ELSE "error")
  /\ UNCHANGED <<pidFile, serverVars, spawned, target>>

RemovePidFile(c) ==
  /\ pc[c] = "remove"
  /\ pidFile' = None /\ Moves(c, "stopped")
  /\ UNCHANGED <<serverVars, spawned, target>>

-----------------------------------------------------------------------------
ServerStep(p) ==
  \/ Bind(p) \/ LoadToken(p) \/ RemoveOldToken(p) \/ RenameToken(p) \/ ReadBack(p)
  \/ WriteOwnPid(p)

CommandStep(c) ==
  \/ c \in Commands /\ AskHealth(c, "record", "spawn")
  \/ c \in Stops /\ AskHealth(c, "terminate", "ok")
  \/ RecordPid(c) \/ SpawnServer(c) \/ WaitHealth(c) \/ WaitExpires(c)
  \/ Terminate(c) \/ RemovePidFile(c)

Next ==
  \/ StartServer
  \/ \E p \in Pids : ServerStep(p) \/ Die(p)
  \/ \E c \in Commands \cup Stops : CommandStep(c)

Spec == Init /\ [][Next]_vars

\* Processes run on, and the deadline of a wait expires.
RunningSpec ==
  /\ Spec
  /\ \A p \in Pids : WF_vars(ServerStep(p))
  /\ \A c \in Commands \cup Stops : WF_vars(CommandStep(c))

-----------------------------------------------------------------------------
\* Type invariant.
TypeOK ==
  /\ pidFile \in Pids \cup {None} /\ token \in Pids \cup {None, Invalid}
  /\ bound \in Pids \cup {None} /\ spawned \in 0..MaxPid
  /\ server \in [Pids -> {"dead", "bind", "load", "create", "rename", "check", "pid", "serving"}]
  /\ key \in [Pids -> Pids \cup {None}]
  /\ pc \in [Commands \cup Stops ->
               Ended \cup {"health", "record", "spawn", "wait", "terminate", "remove"}]
  /\ target \in [Commands \cup Stops -> Pids \cup {None}]
  /\ \A c \in Commands \cup Stops :
       pc[c] \in {"record", "wait", "terminate", "remove"} => target[c] # None

\* The token file opens the server that is running: whatever starts at the same
\* time or died before, what the file says is what the server holds in memory.
TokenAgrees ==
  \A p \in Living : server[p] \in {"pid", "serving"} => key[p] = token

\* A process that did not get the port never gets into the pid file, although
\* two commands may have started one each.
PidFileNamesHolder ==
  pidFile # None => key[pidFile] # None

\* Every command ends, and every process serves or ends: the loser of two
\* concurrent starts, and the command that waits for it, among them.
EverythingSettles ==
  /\ \A c \in Commands \cup Stops : <>(pc[c] \in Ended \/ (pc[c] = "spawn" /\ spawned = MaxPid))
  /\ \A p \in Pids : [](p \in Living => <>(server[p] \in {"serving", "dead"}))
=============================================================================
