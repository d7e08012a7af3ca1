---------------------------- MODULE MountCommand ----------------------------
(* From a mount request to the mount command and back: the drivers' mount and  *)
(* unmount, SecureCommand, the allowlist of commands and the profile every      *)
(* command is checked against. One process serves requests one at a time, which *)
(* is what the executor's mutex makes of them; a command that times out runs on.*)
EXTENDS MountOptions, SequencesExt

CONSTANTS
  Targets,     \* mount points
  OptionKeys,  \* keys of flags a request may give
  MaxGiven     \* bound on the options of a request

VARIABLES
  executor,    \* SECCOMP_EXECUTOR: its profile
  firstKind,   \* kind of the first mount whose command ran, a history variable
  request,     \* the request being served
  step,        \* where it stands
  list,        \* the options that go to the command
  unwaited,    \* targets with a command running that nobody waits for
  dirs,        \* mount point directories
  live         \* targets the system has something mounted on

MountCommandVars == <<executor, firstKind, request, step, list, unwaited, dirs, live>>

Kinds == {"nfs", "smb", "sshfs"}
NoKind == "none"

\* What an option may be: a flag, or one of the valued ones the checks look at.
ValuedOptions == {Valued("timeo", 0), Valued("uid", NotNumber), Valued("file_mode", 755),
                  [Valued("file_mode", 755) EXCEPT !.octal = TRUE]}
Options == {Flag(k) : k \in OptionKeys} \cup ValuedOptions

\* Host, path and mount point hold a hyphen or not; the password of an SMB share
\* is absent, plain, or has a character outside [a-zA-Z0-9_=,.-].
Texts == {"plain", "hyphen"}
Passwords == {"none", "plain", "special"}

Requests ==
  [kind : Kinds, target : Targets, source : Texts, given : SeqOf(Options, MaxGiven),
   password : Passwords]
NoRequest == [kind |-> NoKind]

-----------------------------------------------------------------------------
(* The command                                                              *)

\* The program, and the profile of the kind of mount.
Program(kind) == IF kind = "sshfs" THEN "sshfs" ELSE "mount"
Profile(kind) == IF kind = "sshfs" THEN "Network" ELSE "Mount"

\* get_profile_rules: the programs a profile lets run.
ProfileCommands(profile) ==
  CASE profile = "Network" -> {"ssh", "sshfs", "nc", "telnet", "curl", "wget",
         "mount", "umount", "smbclient"}
    [] profile = "Mount" -> {"mount", "umount", "mount.nfs", "mount.nfs4",
         "mount.cifs", "umount.nfs", "systemctl", "service"}

\* The list a driver makes of the request's options; SMB adds its credentials.
DriverOptions(r) ==
  CASE r.kind = "nfs" -> NfsOptions(r.given)
    [] r.kind = "smb" -> IF r.password = "none" THEN r.given
                         ELSE Append(r.given, Flag("password"))
    [] r.kind = "sshfs" -> r.given

\* validate_safe_string: in its pattern ":-@" is a range, so "-" is not let in.
HasHyphen(o) == o.key \in ExtensionKeys
TextIsSafe(r, l) == /\ r.source # "hyphen"
                    /\ \A i \in DOMAIN l : ~HasHyphen(l[i])

\* validate_command: mount takes ten arguments, "-o" with all options being two
\* of them, whose text must fit a pattern; sshfs takes fifteen, one per option.
AllowlistAccepts(r, l) ==
  IF r.kind = "sshfs" THEN Len(l) + 2 <= 15
  ELSE r.kind = "smb" => r.password # "special"

CommandAllowed(r, l) ==
  OptionsAllowed(r.kind, l) /\ TextIsSafe(r, l) /\ AllowlistAccepts(r, l)

-----------------------------------------------------------------------------
(* Actions                                                                  *)

MountCommandInit ==
  /\ executor = "none" /\ firstKind = NoKind
  /\ request = NoRequest /\ step = "idle" /\ list = <<>>
  /\ unwaited = {} /\ dirs = {} /\ live = {}

\* handle_mount_request makes the directory, lets the parser look at the options,
\* whose verdict it logs, and hands the list as given to the driver. Which
\* options the parser refuses changes nothing of what follows.
Ask(r) ==
  /\ step = "idle"
  /\ r.kind # "smb" => r.password = "none"
  /\ request' = r
  /\ step' = "asked"
  /\ dirs' = dirs \cup {r.target}
  /\ UNCHANGED <<executor, firstKind, list, unwaited, live>>

\* The driver looks for its programs: a missing one ends the request. A check
\* that fails does not, except that sshfs then asks `which`.
CheckDependency(found) ==
  /\ step = "asked"
  /\ step' = IF found THEN "checked" ELSE "refused"
  /\ UNCHANGED <<executor, firstKind, request, list, unwaited, dirs, live>>

\* Options and command are checked; then the directory is made once more.
BuildCommand ==
  /\ step = "checked"
  /\ LET l == DriverOptions(request)
     IN IF CommandAllowed(request, l)
        THEN /\ list' = l /\ step' = "built" /\ dirs' = dirs \cup {request.target}
        ELSE /\ step' = "refused" /\ UNCHANGED <<list, dirs>>
  /\ UNCHANGED <<executor, firstKind, request, unwaited, live>>

\* The executor is made with the profile of the first command and stays.
RunCommand ==
  /\ step = "built"
  /\ executor' = IF executor = "none" THEN Profile(request.kind) ELSE executor
  /\ firstKind' = IF firstKind = NoKind THEN request.kind ELSE firstKind
  /\ step' = IF Program(request.kind) \in ProfileCommands(executor')
             THEN "running" ELSE "profile"
  /\ UNCHANGED <<request, list, unwaited, dirs, live>>

CommandSucceeds ==
  /\ step = "running"
  /\ step' = "done" /\ live' = live \cup {request.target}
  /\ UNCHANGED <<executor, firstKind, request, list, unwaited, dirs>>

\* The command fails, or outlives the 30 seconds and runs on.
CommandFails(timedOut) ==
  /\ step = "running"
  /\ step' = "failed"
  /\ unwaited' = IF timedOut THEN unwaited \cup {request.target} ELSE unwaited
  /\ UNCHANGED <<executor, firstKind, request, list, dirs, live>>

LateCommandEnds(t, succeeds) ==
  /\ t \in unwaited
  /\ succeeds => t \in dirs
  /\ unwaited' = unwaited \ {t}
  /\ live' = IF succeeds THEN live \cup {t} ELSE live
  /\ UNCHANGED <<executor, firstKind, request, step, list, dirs>>

AnswerMount ==
  /\ step \in {"refused", "profile", "done", "failed"}
  /\ step' = "idle" /\ request' = NoRequest /\ list' = <<>>
  /\ UNCHANGED <<executor, firstKind, unwaited, dirs, live>>

\* unmount: the command carries no profile; the directory goes unless it is in
\* use. sshfs tries fusermount, then umount.
UnmountTarget(t, unmounted) ==
  /\ step = "idle" /\ t \in dirs
  /\ unmounted => t \in live
  /\ live' = IF unmounted THEN live \ {t} ELSE live
  /\ dirs' = IF unmounted THEN dirs \ {t} ELSE dirs
  /\ UNCHANGED <<executor, firstKind, request, step, list, unwaited>>

\* A new process begins with no executor; what is mounted stays mounted.
ProcessRestarts ==
  /\ step \in {"idle", "profile"}
  /\ executor' = "none" /\ firstKind' = NoKind
  /\ request' = NoRequest /\ step' = "idle" /\ list' = <<>>
  /\ UNCHANGED <<unwaited, dirs, live>>

MountCommandNext ==
  \/ \E r \in Requests : Ask(r)
  \/ \E found \in BOOLEAN : CheckDependency(found)
  \/ BuildCommand
  \/ RunCommand
  \/ CommandSucceeds
  \/ \E timedOut \in BOOLEAN : CommandFails(timedOut)
  \/ \E t \in Targets, ok \in BOOLEAN : LateCommandEnds(t, ok)
  \/ AnswerMount
  \/ \E t \in Targets, ok \in BOOLEAN : UnmountTarget(t, ok)
  \/ ProcessRestarts

MountCommandSpec == MountCommandInit /\ [][MountCommandNext]_MountCommandVars

-----------------------------------------------------------------------------
MountCommandTypeOK ==
  /\ executor \in {"none", "Mount", "Network"}
  /\ firstKind \in Kinds \cup {NoKind}
  /\ request = NoRequest \/ request.kind \in Kinds
  /\ step \in {"idle", "asked", "checked", "built", "running", "refused",
               "profile", "done", "failed"}
  /\ unwaited \subseteq Targets /\ dirs \subseteq Targets /\ live \subseteq Targets

\* The option that counts of several that contradict one another: the request's
\* over a default, and a later one of the request over an earlier one.
Overrides(a, b) == a.key = b.key \/ Conflicting(a.key, b.key)

\* A list is the last word of a request: the defaults and then what was given, in
\* their order, without the options a later one overrides, so no two of it contradict
\* each other. What the parser accepts of the request it accepts of the list.
LastWord(given, l) ==
  LET all == NfsDefaults \o given
      stands == {i \in DOMAIN all :
                   \A j \in (i + 1)..Len(all) : ~Overrides(all[j], all[i])}
  IN /\ \A i \in stands : \E m \in DOMAIN l : l[m] = all[i]
     /\ \A m \in DOMAIN l : \E i \in stands : l[m] = all[i]
     /\ \A m, n \in DOMAIN l : m < n =>
          \E i, j \in stands : i < j /\ l[m] = all[i] /\ l[n] = all[j]
     /\ ParserAccepts(given, "nfs") => ParserAccepts(l, "nfs")

\* The options an NFS command runs with are the last word (nfs.rs:163-186).
LastWordStands ==
  step = "running" /\ request.kind = "nfs" => LastWord(request.given, list)

\* The process-wide profile stops a command that passed every other check in one
\* case only: an sshfs mount after an NFS or SMB mount was the first to run. The
\* same mounts in the other order are let through (secure_command.rs:104-119).
StoppedByProfile ==
  step = "profile" => request.kind = "sshfs" /\ firstKind \in {"nfs", "smb"}

\* The command that runs is the one the request asked for.
CommandStands == LastWordStands /\ StoppedByProfile
=============================================================================
