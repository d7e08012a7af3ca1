------------------------------ MODULE Seccomp -------------------------------
(* The system call filters: the program a profile is compiled to, the filters   *)
(* the manager and the socket's executor install, and what the kernel makes of  *)
(* the calls that follow. A program is loaded into the thread that asks for it    *)
(* and stays until that ends, with what the crate calls KILL_PROCESS; the module   *)
(* follows one thread.                                                             *)
EXTENDS Naturals, Sequences, FiniteSets, SequencesExt, Functions

CONSTANTS
  Operations,  \* names operations are registered under
  Asked,       \* profiles asked for, but for the daemon's own
  MaxLoaded,   \* bound on the programs loaded
  MaxLogged    \* bound on the violations of a filter

\* A profile is one of SeccompProfile; a program or a violation may be counted.
ASSUME SeccompAssumption ==
  /\ Asked \subseteq {"Minimal", "Network", "FileSystem", "Mount", "Daemon", "Test"}
  /\ MaxLoaded \in Nat /\ MaxLogged \in Nat

VARIABLES
  machine,     \* what the kernel reports as architecture, "none" without seccomp
  kernel,      \* what each loaded program answers to each call, in order
  alive,       \* whether the thread runs
  filters,     \* the filter of each operation and of the socket's executor
  opStats,     \* operations with an entry in global_stats
  returned     \* whether a call returned with a program loaded, a history variable

SeccompVars == <<machine, kernel, alive, filters, opStats, returned>>

Profiles == {"Minimal", "Network", "FileSystem", "Mount", "Daemon", "Test"}

\* get_allowed_syscalls: by what they are for, one call standing for each use.
\* The daemon's list has no call of the network, though allows_network holds.
Calls == {"basic", "network", "files", "mount", "process", "other"}
AllowedCalls ==
  [p \in Profiles |->
    CASE p = "Minimal" -> {"basic"}
      [] p = "Network" -> {"basic", "network"}
      [] p = "FileSystem" -> {"basic", "files"}
      [] p = "Mount" -> {"basic", "files", "mount"}
      [] p = "Daemon" -> {"basic", "files", "mount", "process"}
      [] p = "Test" -> Calls]

DefaultAction(p) ==
  CASE p = "Daemon" -> "log" [] p = "Test" -> "allow" [] OTHER -> "errno"

\* validate_operation: what a profile's executor lets its caller announce.
Announced(p, operation) ==
  LET io == {"read", "write", "socket_read", "socket_write"}
      file == {"open", "close", "stat"}
  IN CASE p = "Minimal" -> operation \in io
       [] p = "Network" -> operation \in io \cup {"connect", "bind", "listen"}
       [] p = "FileSystem" -> operation \in io \cup file
       [] p = "Mount" -> operation \in io \cup file \cup {"mount", "umount"}
       [] OTHER -> TRUE

-----------------------------------------------------------------------------
(* The program                                                              *)

Load(w) == [op |-> "load", k |-> w, jt |-> 0, jf |-> 0]
JumpIf(w, t, f) == [op |-> "jeq", k |-> w, jt |-> t, jf |-> f]
Jump(n) == [op |-> "ja", k |-> "none", jt |-> n, jf |-> n]
Answer(a) == [op |-> "ret", k |-> a, jt |-> 0, jf |-> 0]

\* The check of the architecture: a match goes on to the next instruction.
ArchCheck == <<Load("arch"), JumpIf("x86_64", 0, 1), Answer("kill")>>

\* build, for the calls in the order the hash set yields them.
Build(calls, default) ==
  LET checks == [i \in 1..(2 * Len(calls) - 1) |->
        IF i % 2 = 1 THEN JumpIf(calls[(i + 1) \div 2], 1, 0) ELSE Jump(2)]
  IN ArchCheck \o <<Load("nr")>> \o checks \o <<Answer("allow"), Answer(default)>>

\* What the kernel's interpreter makes of a program: jumps are relative to the
\* next instruction and only lead on, so that it is done after as many steps as
\* there are instructions.
Registers(pc, acc) == [pc |-> pc, acc |-> acc]
StepFrom(s, program, arch, nr) ==
  LET i == program[s.pc]
  IN CASE i.op = "ret" -> s
       [] i.op = "load" -> Registers(s.pc + 1, IF i.k = "arch" THEN arch ELSE nr)
       [] i.op = "jeq" -> Registers(s.pc + 1 + (IF s.acc = i.k THEN i.jt ELSE i.jf), s.acc)
       [] i.op = "ja" -> Registers(s.pc + 1 + i.jt, s.acc)
Run(program, arch, nr) ==
  LET at[n \in 0..Len(program)] ==
        IF n = 0 THEN Registers(1, "none") ELSE StepFrom(at[n - 1], program, arch, nr)
  IN at
Verdict(program, arch, nr) ==
  program[Run(program, arch, nr)[Len(program)].pc].k

Answers(program) == [nr \in Calls |-> Verdict(program, machine, nr)]

\* Of all programs loaded the strictest answer counts.
Strictness == <<"kill", "errno", "log", "allow">>
Judged(nr) ==
  LET answers == {p[nr] : p \in Range(kernel)} \cup {"allow"}
  IN Strictness[CHOOSE i \in DOMAIN Strictness :
       /\ Strictness[i] \in answers
       /\ \A j \in 1..(i - 1) : Strictness[j] \notin answers]

-----------------------------------------------------------------------------
(* Filters                                                                  *)

Executor == "executor"
FilterOwners == Operations \cup {"daemon_main", Executor}

NoFilter == [profile |-> "none", real |-> FALSE, violations |-> 0]
NewFilter(p, real) == [profile |-> p, real |-> real, violations |-> 0]
HasFilter(o) == filters[o].profile # "none"

SeccompInit ==
  /\ machine \in {"x86_64", "aarch64", "none"}
  /\ kernel = <<>> /\ alive = TRUE
  /\ filters = [o \in FilterOwners |-> NoFilter]
  /\ opStats = {} /\ returned = FALSE

\* SyscallFilter::initialize: off Linux, in the test profile and when the kernel
\* refuses, the filter only validates. Either way it counts as initialized.
Initialize(o, p) ==
  \/ /\ machine # "none" /\ p # "Test" /\ Len(kernel) < MaxLoaded
     /\ \E calls \in SetToSeqs(AllowedCalls[p]) :
          kernel' = Append(kernel, Answers(Build(calls, DefaultAction(p))))
     /\ filters' = [filters EXCEPT ![o] = NewFilter(p, TRUE)]
  \/ /\ filters' = [filters EXCEPT ![o] = NewFilter(p, FALSE)]
     /\ UNCHANGED kernel

\* initialize_operation: a new filter takes the place of the operation's old one.
InitializeOperation(o, p) ==
  /\ alive
  /\ Initialize(o, p)
  /\ opStats' = opStats \cup {o}
  /\ UNCHANGED <<machine, alive, returned>>

ApplyDaemonSeccomp(strict) ==
  InitializeOperation("daemon_main", IF strict THEN "Minimal" ELSE "Daemon")

\* The socket's executor initializes its filter once.
ExecuteInSandbox(p) ==
  /\ alive
  /\ ~HasFilter(Executor)
  /\ Initialize(Executor, p)
  /\ UNCHANGED <<machine, alive, opStats, returned>>

\* remove_operation forgets the filter; the program stays loaded.
RemoveOperation(o) ==
  /\ alive
  /\ o # Executor /\ HasFilter(o)
  /\ filters' = [filters EXCEPT ![o] = NoFilter]
  /\ opStats' = opStats \ {o}
  /\ UNCHANGED <<machine, kernel, alive, returned>>

LogViolation(o) ==
  /\ alive
  /\ HasFilter(o) /\ filters[o].profile # "Test"
  /\ filters[o].violations < MaxLogged
  /\ filters' = [filters EXCEPT ![o].violations = @ + 1]
  /\ UNCHANGED <<machine, kernel, alive, opStats, returned>>

\* reset_all_stats clears the operations' entries with their counts.
ResetAllStats ==
  /\ alive
  /\ filters' = [o \in FilterOwners |->
       IF o = Executor THEN filters[o] ELSE [filters[o] EXCEPT !.violations = 0]]
  /\ opStats' = {}
  /\ UNCHANGED <<machine, kernel, alive, returned>>

\* The thread makes a call.
MakeCall(nr) ==
  /\ alive
  /\ alive' = (Judged(nr) # "kill")
  /\ returned' = (returned \/ (kernel # <<>> /\ alive'))
  /\ UNCHANGED <<machine, kernel, filters, opStats>>

SeccompNext ==
  \/ \E o \in Operations, p \in Asked : InitializeOperation(o, p)
  \/ \E strict \in BOOLEAN : ApplyDaemonSeccomp(strict)
  \/ \E p \in Asked : ExecuteInSandbox(p)
  \/ \E o \in FilterOwners : RemoveOperation(o) \/ LogViolation(o)
  \/ ResetAllStats
  \/ \E nr \in Calls : MakeCall(nr)

SeccompSpec == SeccompInit /\ [][SeccompNext]_SeccompVars

-----------------------------------------------------------------------------

SeccompTypeOK ==
  /\ machine \in {"x86_64", "aarch64", "none"} /\ alive \in BOOLEAN
  /\ filters \in [FilterOwners -> [profile : Profiles \cup {"none"}, real : BOOLEAN,
                             violations : 0..MaxLogged]]
  /\ opStats \subseteq FilterOwners /\ returned \in BOOLEAN
  /\ Len(kernel) <= MaxLoaded

\* check_security_status: what it counts as real filters.
RealFilters == {o \in FilterOwners : filters[o].real}

\* Whatever was removed, replaced or reset, each filter counted as real has a
\* program of its own in the kernel, each entry of the statistics is of a filter
\* that stands, and on x86_64 no call returns once a program is loaded.
FiltersStand ==
  /\ Cardinality(RealFilters) <= Len(kernel)
  /\ \A o \in opStats : HasFilter(o)
  /\ machine = "x86_64" => ~returned
  /\ machine = "none" => kernel = <<>> /\ RealFilters = {}
=============================================================================
