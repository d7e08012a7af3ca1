-------------------------- MODULE ProcessIsolation --------------------------
(* ProcessIsolator and Sandbox: processes made by clone, which set themselves    *)
(* up step by step, or by unshare; what the isolator knows of them; and the      *)
(* directory all sandboxes share. The system gives pids out again once their     *)
(* process was waited for, which nobody does for those clone made.               *)
EXTENDS Naturals, FiniteSets

CONSTANTS
  Pids,         \* process ids the system gives out
  Sandboxes,    \* sandboxes of this daemon
  Asks          \* what a configuration may ask for

ASSUME IsolationAssumption ==
  Asks \subseteq {"uts", "mounts", "root", "network", "uid", "gid"}

VARIABLES
  process,     \* what the system runs under each pid
  tracked,     \* isolated_processes of the isolator and of each sandbox's: status
               \* per pid, "none" without an entry
  strayed,     \* whom a signal hit that was not the process an entry stood for
  tempDir,     \* whether the sandboxes' directory exists
  sandboxes    \* sandboxes in use

IsolationVars == <<process, tracked, strayed, tempDir, sandboxes>>

\* Any configuration may be given. To ask for "uid" or "gid" is to ask for another
\* user or group than the daemon's own.
IsolationConfigs == SUBSET Asks

\* setup_namespaces: the steps it takes for a configuration. The change of root is
\* a part of the mount namespace's.
SetupSteps(c) ==
  LET asked == [hostname |-> "uts" \in c, private |-> "mounts" \in c,
                mountPoints |-> "mounts" \in c, chroot |-> {"mounts", "root"} \subseteq c,
                network |-> "network" \in c, setuid |-> "uid" \in c, setgid |-> "gid" \in c]
  IN {t \in DOMAIN asked : asked[t]}

\* Any step may fail, and no other is taken then. The user goes before the group,
\* which is not changed any more once the user was given up.
FailsAt(c, failing) ==
  \/ failing \in SetupSteps(c)
  \/ {"setuid", "setgid"} \subseteq SetupSteps(c)

\* create_isolated_process_async leaves all but the namespaces to unshare, and
\* does not see the root directory, the mount points, the user and the group. A
\* host name that cannot be set is passed over.
ConfinedByUnshare(c) == IF "uts" \in c THEN {"hostname"} ELSE {}

\* Sandbox::new asks for all of it, and for user and group nobody.
Sandboxed == Asks

-----------------------------------------------------------------------------

Isolator == "isolator"
Keepers == Sandboxes \cup {Isolator}
Tracks(o, p) == tracked[o][p] # "none"

Free == [is |-> "free"]
Ours(how, c, confined) == [is |-> "ours", how |-> how, config |-> c,
                           confined |-> confined, zombie |-> FALSE]
Foreign == [is |-> "foreign"]
Ended == [Ours("clone", {}, {}) EXCEPT !.zombie = TRUE]

IsolationInit ==
  /\ process = [p \in Pids |-> Free]
  /\ tracked = [o \in Keepers |-> [p \in Pids |-> "none"]]
  /\ strayed = {} /\ tempDir = FALSE /\ sandboxes = {}

\* Faulty: a step that fails is passed over.
CreateHalfIsolated(p, c, failing) ==
  /\ process[p] = Free
  /\ process' = [process EXCEPT ![p] = Ours("clone", c, SetupSteps(c) \ {failing})]
  /\ tracked' = [tracked EXCEPT ![Isolator][p] = "Running"]
  /\ UNCHANGED <<strayed, tempDir, sandboxes>>

\* create_isolated_process: the child sets itself up; a failing step ends it, and
\* what it returned stays with the system. Either way it is tracked as running.
CreateIsolatedProcess(p, c, failing) ==
  /\ process[p] = Free
  /\ process' = [process EXCEPT ![p] =
       IF FailsAt(c, failing) THEN Ended ELSE Ours("clone", c, SetupSteps(c))]
  /\ tracked' = [tracked EXCEPT ![Isolator][p] = "Running"]
  /\ UNCHANGED <<strayed, tempDir, sandboxes>>

\* Sandbox::new, and execute, which is create_isolated_process_async.
NewSandbox(s) ==
  /\ s \notin sandboxes
  /\ sandboxes' = sandboxes \cup {s} /\ tempDir' = TRUE
  /\ UNCHANGED <<process, tracked, strayed>>
Execute(s, p) ==
  /\ s \in sandboxes /\ process[p] = Free
  /\ \E done \in SUBSET ConfinedByUnshare(Sandboxed) :
       process' = [process EXCEPT ![p] = Ours("unshare", Sandboxed, done)]
  /\ tracked' = [tracked EXCEPT ![s][p] = "Running"]
  /\ UNCHANGED <<strayed, tempDir, sandboxes>>

\* The system: a process ends, one of somebody else comes and goes.
Ends(p) ==
  /\ process[p].is = "ours" /\ ~process[p].zombie
  /\ process' = [process EXCEPT ![p] =
       IF process[p].how = "clone" THEN Ended ELSE Free]
  /\ UNCHANGED <<tracked, strayed, tempDir, sandboxes>>
ForeignProcess(p) ==
  /\ \/ process[p] = Free /\ process' = [process EXCEPT ![p] = Foreign]
     \/ process[p] = Foreign /\ process' = [process EXCEPT ![p] = Free]
  /\ UNCHANGED <<tracked, strayed, tempDir, sandboxes>>

\* terminate_isolated_process of an entry: whoever has the pid gets SIGTERM, and
\* the entry is marked if there is somebody.
StraysTo(ps) == {p \in ps : process[p] = Foreign}
TerminateIsolatedProcess(o, p) ==
  /\ Tracks(o, p) /\ process[p] # Free
  /\ strayed' = strayed \cup StraysTo({p})
  /\ tracked' = [tracked EXCEPT ![o][p] = "Killed"]
  /\ UNCHANGED <<process, tempDir, sandboxes>>

\* cleanup_terminated_processes sends SIGCONT to each pid, and lets go of those
\* nobody has; a process that ended and was not waited for still has its own.
CleanupTerminatedProcesses(o) ==
  /\ strayed' = strayed \cup StraysTo({p \in Pids : Tracks(o, p)})
  /\ tracked' = [tracked EXCEPT ![o] = [p \in Pids |->
                   IF process[p] = Free THEN "none" ELSE @[p]]]
  /\ UNCHANGED <<process, tempDir, sandboxes>>

\* Sandbox::cleanup, which its drop calls too: terminates what it tracks and
\* removes the directory, which the other sandboxes use as well. It waits for no
\* process to end.
Cleanup(s) ==
  /\ s \in sandboxes
  /\ LET hit == {p \in Pids : Tracks(s, p) /\ process[p] # Free}
     IN /\ strayed' = strayed \cup StraysTo(hit)
        /\ tracked' = [tracked EXCEPT ![s] = [p \in Pids |->
                         IF p \in hit THEN "Killed" ELSE @[p]]]
  /\ sandboxes' = sandboxes \ {s} /\ tempDir' = FALSE
  /\ UNCHANGED process

IsolationNext ==
  \/ \E p \in Pids, c \in IsolationConfigs : \E failing \in SetupSteps(c) \cup {"none"} :
       CreateIsolatedProcess(p, c, failing)
  \/ \E s \in Sandboxes : \/ NewSandbox(s) \/ Cleanup(s)
                          \/ \E p \in Pids : Execute(s, p)
  \/ \E p \in Pids : Ends(p) \/ ForeignProcess(p)
  \/ \E o \in Keepers : \/ \E p \in Pids : TerminateIsolatedProcess(o, p)
                       \/ CleanupTerminatedProcesses(o)

IsolationSpec == IsolationInit /\ [][IsolationNext]_IsolationVars

-----------------------------------------------------------------------------

IsolationTypeOK ==
  /\ \A p \in Pids : process[p].is \in {"free", "ours", "foreign"}
  /\ tracked \in [Keepers -> [Pids -> {"none", "Running", "Killed"}]]
  /\ strayed \subseteq Pids /\ tempDir \in BOOLEAN /\ sandboxes \subseteq Sandboxes

\* A process made by clone runs its command only with what its configuration asks
\* for done, whichever step failed: never as the daemon's user where another was
\* asked for, or before the change of root. Two things a reader may not expect: a
\* root directory counts only along with the mount namespace, and a command that is
\* to get another user and another group never runs. No pid of such a process is
\* given to another while the isolator knows it, so only entries of processes made
\* by unshare can come to stand for somebody else; those of cloned ones never go
\* (process_isolation.rs:150-480, 500-740).
ClonedAreConfined ==
  \A p \in Pids :
    process[p].is = "ours" /\ process[p].how = "clone" =>
      /\ Tracks(Isolator, p)
      /\ ~process[p].zombie =>
           LET c == process[p].config
               done == process[p].confined
           IN /\ "uts" \in c => "hostname" \in done
              /\ "mounts" \in c => {"private", "mountPoints"} \subseteq done
              /\ {"mounts", "root"} \subseteq c => "chroot" \in done
              /\ "network" \in c => "network" \in done
              /\ "uid" \in c => "setuid" \in done
              /\ "gid" \in c => "setgid" \in done
              /\ ~{"uid", "gid"} \subseteq c
=============================================================================
