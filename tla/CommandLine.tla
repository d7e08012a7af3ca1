----------------------------- MODULE CommandLine -----------------------------
(* mounts.toml between the daemon and the cluster commands (cli/cluster.rs).  *)
(* join and leave do not ask the daemon: they load the file, change their     *)
(* copy and write it in place, while the daemon reads the file only when it   *)
(* starts and replaces it by a rename at every change of its shares.  A       *)
(* configuration is the latest change of the shares and of the cluster        *)
(* section it contains.  One request saves at a time here; MountDaemon has    *)
(* the others.                                                                *)
EXTENDS Integers

CONSTANTS Commands,      \* join and leave commands, at most one of each at a time
          MaxChanges     \* bound: changes made

ASSUME CommandLineAssumption == MaxChanges \in Nat

VARIABLES apart,         \* commands run one at a time and while the daemon is down
          toml,          \* mounts.toml
          server,        \* the daemon
          command,       \* each command
          changes,       \* changes made so far
          done,          \* the latest change of each kind whose save ended
          killed         \* a command ended while it wrote

CommandLineVars == <<apart, toml, server, command, changes, done, killed>>

Change == 0..MaxChanges
Copy == [shares: Change, cluster: Change]
DefaultCopy == [shares |-> 0, cluster |-> 0]

CommandLineTypeOK ==
  /\ {apart, killed} \subseteq BOOLEAN /\ changes \in Change /\ done \in Copy
  /\ toml \in [text: {"missing", "empty", "whole"}, has: Copy]
  /\ server \in [at: {"down", "start", "save", "up"}, has: Copy]
  /\ command \in [Commands -> [at: {"off", "loaded", "changed", "truncated"},
                            has: Copy]]

CommandLineInit ==
  /\ apart \in BOOLEAN /\ killed = FALSE /\ changes = 0 /\ done = DefaultCopy
  /\ toml = [text |-> "missing", has |-> DefaultCopy]
  /\ server = [at |-> "down", has |-> DefaultCopy]
  /\ command = [c \in Commands |-> [at |-> "off", has |-> DefaultCopy]]

CommandsOff == \A c \in Commands : command[c].at = "off"

-----------------------------------------------------------------------------
(* The daemon: Config::load in Daemon::new, save_atomic in its handlers *)

\* A file that does not parse is passed over with a warning.
DaemonLoads ==
  /\ server.at = "down" /\ (apart => CommandsOff)
  /\ server' = [at |-> "start",
                has |-> IF toml.text = "whole" THEN toml.has ELSE DefaultCopy]
  /\ UNCHANGED <<apart, toml, command, changes, done, killed>>

DaemonStarts ==
  /\ server.at = "start"
  /\ server' = [server EXCEPT !.at = IF toml.text = "missing" THEN "save" ELSE "up"]
  /\ UNCHANGED <<apart, toml, command, changes, done, killed>>

SharesChange ==
  /\ server.at = "up" /\ changes < MaxChanges
  /\ changes' = changes + 1
  /\ server' = [at |-> "save", has |-> [server.has EXCEPT !.shares = changes']]
  /\ UNCHANGED <<apart, toml, command, done, killed>>

\* The temporary file is written before; without the rename nothing has happened.
DaemonRenames ==
  /\ server.at = "save"
  /\ toml' = [text |-> "whole", has |-> server.has]
  /\ done' = [done EXCEPT !.shares = server.has.shares]
  /\ server' = [server EXCEPT !.at = "up"]
  /\ UNCHANGED <<apart, command, changes, killed>>

DaemonEnds ==
  /\ server.at # "down" /\ server' = [at |-> "down", has |-> DefaultCopy]
  /\ UNCHANGED <<apart, toml, command, changes, done, killed>>

-----------------------------------------------------------------------------
(* CliContext::new, handle_join and handle_leave, save_to_dir *)

MayRun == apart => server.at = "down" /\ CommandsOff

\* Faulty: the command begins with a configuration of its own.
CommandBeginsAfresh(c) ==
  /\ command[c].at = "off" /\ MayRun
  /\ command' = [command EXCEPT ![c] = [at |-> "loaded", has |-> DefaultCopy]]
  /\ UNCHANGED <<apart, toml, server, changes, done, killed>>

\* load_with_dir: a file that does not parse ends the command.
CommandLoads(c) ==
  /\ command[c].at = "off" /\ MayRun /\ toml.text # "empty"
  /\ command' = [command EXCEPT
       ![c] = [at |-> "loaded",
               has |-> IF toml.text = "whole" THEN toml.has ELSE DefaultCopy]]
  /\ UNCHANGED <<apart, toml, server, changes, done, killed>>

\* join adds a peer and makes the section when there is none, leave clears it.
ClusterChanges(c) ==
  /\ command[c].at = "loaded" /\ changes < MaxChanges
  /\ changes' = changes + 1
  /\ command' = [command EXCEPT ![c].at = "changed", ![c].has.cluster = changes']
  /\ UNCHANGED <<apart, toml, server, done, killed>>

CommandTruncates(c) ==
  /\ command[c].at = "changed"
  /\ toml' = [toml EXCEPT !.text = "empty"]
  /\ command' = [command EXCEPT ![c].at = "truncated"]
  /\ UNCHANGED <<apart, server, changes, done, killed>>

\* join goes on to connect and saves nothing more.
CommandWrites(c) ==
  /\ command[c].at = "truncated"
  /\ toml' = [text |-> "whole", has |-> command[c].has]
  /\ done' = [done EXCEPT !.cluster = command[c].has.cluster]
  /\ command' = [command EXCEPT ![c].at = "off"]
  /\ UNCHANGED <<apart, server, changes, killed>>

CommandEnds(c) ==
  /\ command[c].at # "off"
  /\ command' = [command EXCEPT ![c].at = "off"]
  /\ killed' = (killed \/ command[c].at = "truncated")
  /\ UNCHANGED <<apart, toml, server, changes, done>>

CommandLineNext ==
  \/ DaemonLoads \/ DaemonStarts \/ SharesChange \/ DaemonRenames \/ DaemonEnds
  \/ \E c \in Commands : \/ CommandLoads(c) \/ ClusterChanges(c) \/ CommandTruncates(c)
                         \/ CommandWrites(c) \/ CommandEnds(c)

CommandLineSpec == CommandLineInit /\ [][CommandLineNext]_CommandLineVars

-----------------------------------------------------------------------------
(* Properties *)

\* Commands that run one at a time while the daemon is down, and are not killed while
\* they write, lose nothing: whenever no write is under way mounts.toml holds the
\* latest saved change of the shares and of the cluster section, through every start,
\* crash and save.  (With the daemon up each side overwrites the other's changes.)
NothingLostApart ==
  apart /\ ~killed /\ CommandsOff => toml.text # "empty" /\ toml.has = done
=============================================================================
