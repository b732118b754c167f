-------------------------- MODULE ProjectDirectories ---------------------------
(***************************************************************************)
(* Directories prepared for the desktop (src/src/project_checkout.rs,      *)
(* src/src/project_preparation.rs): a call checks a platform project out,  *)
(* takes over a checkout that is already there, or creates a new           *)
(* directory.  Calls of the HTTP server hold its lock management_operation *)
(* (src/src/main.rs, src/src/desktop_invoke.rs); `checkout-project` on the *)
(* command line does not (src/src/cli.rs).  The server may be stopped and  *)
(* started again in the middle of everything.                              *)
(*                                                                         *)
(* The checkout itself is the program `baijimu project checkout`.  The     *)
(* connector relies on one thing: when it succeeds, the directory is a     *)
(* complete checkout of that project.  In which order it gets there, how   *)
(* far it had come when it fails, and what it does with a directory that   *)
(* appeared since the connector looked is left open; but it is assumed to  *)
(* remove nothing.                                                         *)
(*                                                                         *)
(* Abstracted: a project stands for its directory under the root; paths;   *)
(* names of branches, of which one that is set may suit a call or not.     *)
(***************************************************************************)
EXTENDS Integers

CONSTANTS
  Projects,      \* platform projects, each with its directory
  HttpCalls,     \* calls through the HTTP server
  ShellCalls,    \* runs of checkout-project
  Nobody,
  MaxServers     \* bound: servers started one after the other

DirectoryCalls == HttpCalls \cup ShellCalls

ASSUME DirectoryAssumption ==
  /\ HttpCalls \cap ShellCalls = {} /\ Nobody \notin DirectoryCalls
  /\ MaxServers \in Nat \ {0}

VARIABLES
  dir,         \* the directory of each project, or Absent
  incarnation, \* the server that is running, by number
  guard,       \* management_operation: the call that holds it, or Nobody
  task,        \* what each call was asked to do
  cameTo,      \* the server each HTTP call came to
  at,          \* where the thread of each call stands
  checkout,    \* the `baijimu` process of each call
  answer       \* per call

directoryVars == <<dir, incarnation, guard, task, cameTo, at, checkout, answer>>

Tasks  == [new : BOOLEAN, project : Projects]
Marks  == {"none", "same", "other"}

\* Of a directory: the call that created it, what git says of its project and
\* of its origin compared with what its name says, whether git names a branch,
\* and whether its files are all there.  An origin is "same" if the path of its
\* URL is the project's; its host is not looked at (project_checkout.rs:107).
Directories == [maker : DirectoryCalls \cup {Nobody}, ids : Marks, origin : Marks,
                branch : BOOLEAN, files : BOOLEAN]
Empty(c) == [maker |-> c, ids |-> "none", origin |-> "none", branch |-> FALSE, files |-> FALSE]
Absent   == [maker |-> Nobody, ids |-> "absent", origin |-> "absent", branch |-> FALSE, files |-> FALSE]

Project(c) == task[c].project
Place(c)   == dir[Project(c)]

\* Whatever lies in a directory at first was put there complete.
DirectoryInit ==
  /\ dir \in [Projects -> {Absent} \cup {d \in Directories : d.maker = Nobody /\ d.files}]
  /\ incarnation = 1 /\ guard = Nobody
  /\ task \in {t \in [DirectoryCalls -> Tasks] : \A c \in ShellCalls : ~t[c].new}
  /\ cameTo = [c \in DirectoryCalls |-> 0]
  /\ at = [c \in DirectoryCalls |-> "idle"]
  /\ checkout = [c \in DirectoryCalls |-> "none"]
  /\ answer = [c \in DirectoryCalls |-> "none"]

-----------------------------------------------------------------------------
(* The lock and the server.                                                *)

ToStep(c, step) == at' = [at EXCEPT ![c] = step]

\* A call of the server has the lock to wait for.
Arrive(c) ==
  /\ at[c] = "idle"
  /\ cameTo' = [cameTo EXCEPT ![c] = IF c \in HttpCalls THEN incarnation ELSE 0]
  /\ ToStep(c, IF c \in HttpCalls THEN "locking" ELSE "look")
  /\ UNCHANGED <<dir, incarnation, guard, task, checkout, answer>>

\* Fault: prepareProject does not take the lock.
AcquireOmitted(c) ==
  /\ at[c] = "locking"
  /\ ToStep(c, IF task[c].new THEN "create" ELSE "look")
  /\ UNCHANGED <<dir, incarnation, guard, task, cameTo, checkout, answer>>

Acquire(c) ==
  /\ at[c] = "locking" /\ guard = Nobody
  /\ guard' = c
  /\ ToStep(c, IF task[c].new THEN "create" ELSE "look")
  /\ UNCHANGED <<dir, incarnation, task, cameTo, checkout, answer>>

\* Fault: the guard outlives a call that fails.
GuardKept(c, a) == IF guard = c /\ a # "error" THEN Nobody ELSE guard

\* The guard is dropped on every way out.
GuardDropped(c, a) == IF guard = c THEN Nobody ELSE guard

Answered(c, a) ==
  /\ answer' = [answer EXCEPT ![c] = a]
  /\ ToStep(c, "done")
  /\ guard' = GuardDropped(c, a)

Fails(c) == Answered(c, "error")

\* The server is stopped, or dies, and another one is started.  Its threads are
\* gone, and their callers see no answer; its child processes go on.
Restart ==
  /\ incarnation < MaxServers
  /\ incarnation' = incarnation + 1 /\ guard' = Nobody
  /\ LET gone == {c \in HttpCalls : at[c] \notin {"idle", "done"}} IN
       /\ at' = [c \in DirectoryCalls |-> IF c \in gone THEN "done" ELSE at[c]]
       /\ answer' = [c \in DirectoryCalls |-> IF c \in gone THEN "lost" ELSE answer[c]]
  /\ UNCHANGED <<dir, task, cameTo, checkout>>

-----------------------------------------------------------------------------
(* project_checkout::prepare.                                              *)

\* The request may be none that can be carried out.
Look(c) ==
  /\ at[c] = "look"
  /\ \/ Fails(c)
     \/ ToStep(c, IF Place(c) = Absent THEN "launch" ELSE "ids") /\ UNCHANGED <<guard, answer>>
  /\ UNCHANGED <<dir, incarnation, task, cameTo, checkout>>

\* The program may be missing, or the parent directory impossible to create.
Launch(c) ==
  /\ at[c] = "launch"
  /\ \/ Fails(c) /\ UNCHANGED checkout
     \/ /\ checkout' = [checkout EXCEPT ![c] = "running"]
        /\ ToStep(c, "waiting") /\ UNCHANGED <<guard, answer>>
  /\ UNCHANGED <<dir, incarnation, task, cameTo>>

\* The process ends; its output may be no legal answer all the same.
Collect(c) ==
  /\ at[c] = "waiting" /\ checkout[c] \in {"succeeded", "failed"}
  /\ \/ Fails(c)
     \/ checkout[c] = "succeeded" /\ Answered(c, "fresh")
  /\ UNCHANGED <<dir, incarnation, task, cameTo, checkout>>

\* inspect_existing asks git one question after the other.
Asks(c, step, holds, next) ==
  /\ at[c] = step
  /\ IF holds THEN ToStep(c, next) /\ UNCHANGED <<guard, answer>> ELSE Fails(c)
  /\ UNCHANGED <<dir, incarnation, task, cameTo, checkout>>

ReadIds(c) == Asks(c, "ids", Place(c).ids = "same", "origin")

\* Fault: the origin is asked for, and not compared.
OriginUnchecked(c) == Asks(c, "origin", Place(c).origin # "none", "branch")

ReadOrigin(c) == Asks(c, "origin", Place(c).origin = "same", "branch")

\* The branch is in the codex/ namespace and is the one that is asked for, if any.
ReadBranch(c) ==
  /\ at[c] = "branch"
  /\ \/ Fails(c)
     \/ Place(c).branch /\ Answered(c, "reused")
  /\ UNCHANGED <<dir, incarnation, task, cameTo, checkout>>

-----------------------------------------------------------------------------
(* create_directory, with local_directory at its end.                      *)

\* Fault: create_dir_all, which is content with a directory that exists.
CreateAll(c) ==
  /\ at[c] = "create"
  /\ dir' = IF Place(c) = Absent THEN [dir EXCEPT ![Project(c)] = Empty(c)] ELSE dir
  /\ ToStep(c, "resolve")
  /\ UNCHANGED <<incarnation, guard, task, cameTo, checkout, answer>>

Create(c) ==
  /\ at[c] = "create"
  /\ \/ /\ Place(c) = Absent
        /\ dir' = [dir EXCEPT ![Project(c)] = Empty(c)]
        /\ ToStep(c, "resolve") /\ UNCHANGED <<guard, answer>>
     \/ Fails(c) /\ UNCHANGED dir
  /\ UNCHANGED <<incarnation, task, cameTo, checkout>>

Resolve(c) ==
  /\ at[c] = "resolve"
  /\ Fails(c) \/ Answered(c, "created")
  /\ UNCHANGED <<dir, incarnation, task, cameTo, checkout>>

-----------------------------------------------------------------------------
(* The program `baijimu project checkout`, run for a call.                 *)

Working(c) ==
  /\ checkout[c] = "running"
  /\ \/ Place(c) = Absent /\ dir' = [dir EXCEPT ![Project(c)] = Empty(c)]
     \/ /\ Place(c) # Absent
        /\ \E d \in {[Place(c) EXCEPT !.ids = "same"], [Place(c) EXCEPT !.origin = "same"],
                     [Place(c) EXCEPT !.branch = TRUE], [Place(c) EXCEPT !.files = TRUE]} :
             d # Place(c) /\ dir' = [dir EXCEPT ![Project(c)] = d]
  /\ UNCHANGED <<incarnation, guard, task, cameTo, at, checkout, answer>>

CheckedOut(d) == d.ids = "same" /\ d.origin = "same" /\ d.branch /\ d.files

\* It fails, or is interrupted, wherever it stands.
Exits(c) ==
  /\ checkout[c] = "running"
  /\ \E end \in {"failed"} \cup (IF CheckedOut(Place(c)) THEN {"succeeded"} ELSE {}) :
       checkout' = [checkout EXCEPT ![c] = end]
  /\ UNCHANGED <<dir, incarnation, guard, task, cameTo, at, answer>>

-----------------------------------------------------------------------------
DirectoryStep(c) ==
  \/ Acquire(c) \/ Look(c) \/ Launch(c) \/ Collect(c) \/ ReadIds(c) \/ ReadOrigin(c)
  \/ ReadBranch(c) \/ Create(c) \/ Resolve(c)

DirectoryNext ==
  \/ Restart
  \/ \E c \in DirectoryCalls : Arrive(c) \/ DirectoryStep(c) \/ Working(c) \/ Exits(c)

DirectorySpec == DirectoryInit /\ [][DirectoryNext]_directoryVars

\* Threads run, and the program ends: the connector sets it no limit.  The lock
\* need not be fair, for every call takes it once.
DirectoryFairness ==
  \A c \in DirectoryCalls : WF_directoryVars(DirectoryStep(c)) /\ WF_directoryVars(Exits(c))

-----------------------------------------------------------------------------
\* Type invariant.
DirectoryTypeOK ==
  /\ dir \in [Projects -> Directories \cup {Absent}]
  /\ incarnation \in 1..MaxServers /\ guard \in HttpCalls \cup {Nobody}
  /\ task \in [DirectoryCalls -> Tasks] /\ cameTo \in [DirectoryCalls -> 0..MaxServers]
  /\ at \in [DirectoryCalls -> {"idle", "locking", "look", "launch", "waiting", "ids", "origin",
                                "branch", "create", "resolve", "done"}]
  /\ checkout \in [DirectoryCalls -> {"none", "running", "failed", "succeeded"}]
  /\ answer \in [DirectoryCalls -> {"none", "fresh", "reused", "created", "error", "lost"}]

\* A directory that is answered for a project belongs to that project and has
\* its origin, also if it appeared, or changed, between the look and the answer.
AnswersNameTheProject ==
  \A c \in DirectoryCalls :
    answer[c] \in {"fresh", "reused"} => Place(c).ids = "same" /\ Place(c).origin = "same"

\* The server never takes over what one of its own calls is still checking out:
\* if it answers with a checkout that is not complete, then some checkout has
\* failed, or was run from the command line or for an earlier server.
TakesOverNoWorkInProgress ==
  \A c \in HttpCalls :
    answer[c] = "reused" /\ ~Place(c).files =>
      \E d \in DirectoryCalls :
        /\ d # c /\ Project(d) = Project(c)
        /\ checkout[d] = "failed" \/ (checkout[d] # "none" /\ cameTo[d] # cameTo[c])

\* "Never overwrite or silently adopt existing contents after a lost response":
\* a new directory that is answered was created by that very call, and at most
\* one call gets that answer.
CreatedByItsCall ==
  \A c \in DirectoryCalls : answer[c] = "created" => Place(c).maker = c

\* Every call that came is answered, or lost with its server: the lock is free
\* again after every way out, and no call waits for itself.
EveryDirectoryCallEnds ==
  DirectoryFairness => \A c \in DirectoryCalls : (at[c] # "idle") ~> (at[c] = "done")
=============================================================================
