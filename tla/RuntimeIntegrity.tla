-------------------------- MODULE RuntimeIntegrity --------------------------
(* RuntimeIntegrityChecker: a task that checks the process against a baseline   *)
(* every interval, and one that renews the baseline; both read file by file      *)
(* while files and mappings change. Below, and apart from that: the              *)
(* MemoryProtector, whose record of a region's protection is made apart from the *)
(* system call.                                                                  *)
EXTENDS Naturals, Sequences, FiniteSets

CONSTANTS
  DataFiles,      \* monitored_paths
  FileContents,       \* what a file may hold, as far as its hash tells
  MaxMapped,      \* bound on the mappings of the process
  Protecting      \* tasks that call the MemoryProtector

ASSUME RoundAssumption ==
  /\ FileContents \subseteq Nat \ {0} /\ 1 \in FileContents
  /\ MaxMapped \in Nat \ {0} /\ "exe" \notin DataFiles

VARIABLES
  onDisk,      \* what each file holds, 0 if it is missing
  baseline,    \* the baseline, or NoBaseline
  checker,     \* the monitoring task: where its round stands, the data files it
               \* still looks at, what it found, and how much of that it kept
  updater,     \* a call of create_baseline: what it has read, and has still to
  violations,  \* the kinds of the violations kept
  running,     \* whether the process runs
  lasting      \* of the properties only: the files that have differed from the
               \* baseline ever since the round began

VARIABLES      \* of the MemoryProtector
  region,      \* protection of the one memory region
  recorded,    \* last entry of protected_regions for it
  protector,   \* per task: what it has set but not recorded
  lapsed       \* whether calls overlapped or cleared the region since, for history

RoundVars == <<onDisk, baseline, checker, updater, violations, running,
               lasting>>
MemoryVars == <<region, recorded, protector, lapsed>>

Files == {"exe"} \cup DataFiles
NoFiles == [f \in Files |-> 0]
NoBaseline == [is |-> FALSE, left |-> {}, count |-> 0, file |-> NoFiles]
NoRound == [at |-> "idle", left |-> {}, found |-> <<>>, kept |-> 0]
Looks == {"code", "data", "memory", "injection"}

\* The severity a violation is given.
Critical == {"code", "injection"}

\* A file that is missing cannot be read, which fails the call.
IsThere(f) == onDisk[f] # 0
Differs(f, disk) == disk[f] # 0 /\ baseline.file[f] \notin {0, disk[f]}

RoundInit ==
  /\ onDisk = [f \in Files |-> 1]
  /\ baseline = NoBaseline /\ updater = NoBaseline
  /\ checker = NoRound /\ violations = {} /\ running = TRUE
  /\ lasting = {}

\* Somebody writes a file, maybe with what it once held, or removes it.
FileChanges(f) ==
  /\ running
  /\ \E c \in FileContents \cup {0} : onDisk' = [onDisk EXCEPT ![f] = c]
  /\ lasting' = {g \in lasting : Differs(g, onDisk')}
  /\ UNCHANGED <<baseline, checker, updater, violations, running>>

-----------------------------------------------------------------------------
(* create_baseline                                                          *)

OnlyUpdater ==
  UNCHANGED <<onDisk, checker, violations, running, lasting>>

\* The executable has to be there.
BeginBaseline ==
  /\ running /\ ~updater.is /\ IsThere("exe")
  /\ updater' = [is |-> TRUE, left |-> DataFiles, count |-> 0,
                 file |-> [NoFiles EXCEPT !["exe"] = onDisk["exe"]]]
  /\ UNCHANGED baseline /\ OnlyUpdater

\* A monitored path that is not there is left out.
ReadForBaseline(f) ==
  /\ running /\ f \in updater.left
  /\ updater' = [updater EXCEPT !.left = @ \ {f}, !.file[f] = onDisk[f]]
  /\ UNCHANGED baseline /\ OnlyUpdater

\* Libraries are mapped and unmapped all the time: a look may find any number.
ReadLayout(count) ==
  /\ running /\ updater.is /\ updater.left = {} /\ updater.count = 0
  /\ updater' = [updater EXCEPT !.count = count]
  /\ UNCHANGED baseline /\ OnlyUpdater

\* Whatever it reads may fail, which ends the call; the old baseline stands.
FailBaseline ==
  /\ running /\ updater.is /\ updater.count = 0
  /\ updater' = NoBaseline
  /\ UNCHANGED baseline /\ OnlyUpdater

\* It stores the baseline once no round reads the old one.
StoreBaseline ==
  /\ running /\ updater.count # 0 /\ checker.at = "idle"
  /\ baseline' = updater /\ updater' = NoBaseline
  /\ OnlyUpdater

-----------------------------------------------------------------------------
(* perform_integrity_check                                                  *)

OnlyChecker == UNCHANGED <<onDisk, baseline, updater>>

\* Without a baseline a round fails at once. Else it keeps the baseline's read
\* guard until it ends.
BeginRound ==
  /\ running /\ checker.at = "idle" /\ baseline.is
  /\ checker' = [NoRound EXCEPT !.at = "code"]
  /\ lasting' = {f \in Files : Differs(f, onDisk)}
  /\ OnlyChecker /\ UNCHANGED <<violations, running>>

\* What a look finds where it expects one thing and meets another.
WithFinding(kind, of, expected, actual) ==
  IF expected = actual THEN checker.found
  ELSE Append(checker.found,
              [kind |-> kind, of |-> of, expected |-> expected, actual |-> actual])
Proceed(at, left, found) ==
  /\ checker' = [at |-> at, left |-> left, found |-> found, kept |-> 0]
  /\ OnlyChecker /\ UNCHANGED <<violations, running, lasting>>
AfterCode(left) == IF left = {} THEN "memory" ELSE "data"

LookAtCode ==
  /\ running /\ checker.at = "code" /\ IsThere("exe")
  /\ LET left == {f \in DataFiles : baseline.file[f] # 0}
     IN Proceed(AfterCode(left), left,
                WithFinding("code", "exe", baseline.file["exe"], onDisk["exe"]))

\* The data files in any order: one that is gone is passed over, and the first that
\* differs ends the look.
LookAtData(f) ==
  /\ running /\ checker.at = "data" /\ f \in checker.left
  /\ LET left == IF Differs(f, onDisk) THEN {} ELSE checker.left \ {f}
         found == WithFinding("data", f, baseline.file[f], onDisk[f])
     IN Proceed(AfterCode(left), left,
                IF Differs(f, onDisk) THEN found ELSE checker.found)

LookAtMemory(count) ==
  /\ running /\ checker.at = "memory"
  /\ Proceed("injection", {},
             WithFinding("memory", "layout", baseline.count, count))

LookAtMappings(suspicious) ==
  /\ running /\ checker.at = "injection"
  /\ Proceed("handle", {},
             WithFinding("injection", "library", 0, IF suspicious THEN 1 ELSE 0))

\* Whatever it reads may fail, a file that goes once it was seen among them. That
\* ends the round, and what it found before is dropped with it.
FailRound ==
  /\ running /\ checker.at \in Looks
  /\ checker' = NoRound /\ lasting' = {}
  /\ OnlyChecker /\ UNCHANGED <<violations, running>>

\* handle_violation, with the default responses: a critical one shuts down, before
\* those found after it are kept.
HandleViolation ==
  /\ running /\ checker.at = "handle" /\ checker.kept < Len(checker.found)
  /\ LET kind == checker.found[checker.kept + 1].kind
     IN /\ violations' = violations \cup {kind}
        /\ running' = (kind \notin Critical)
  /\ checker' = [checker EXCEPT !.kept = @ + 1]
  /\ OnlyChecker /\ UNCHANGED lasting

EndRound ==
  /\ running /\ checker.at = "handle" /\ checker.kept = Len(checker.found)
  /\ checker' = NoRound /\ lasting' = {}
  /\ OnlyChecker /\ UNCHANGED <<violations, running>>

ClearViolations ==
  /\ running /\ violations' = {}
  /\ OnlyChecker /\ UNCHANGED <<checker, running, lasting>>

RoundNext ==
  \/ \E f \in Files : FileChanges(f)
  \/ \E f \in DataFiles : ReadForBaseline(f) \/ LookAtData(f)
  \/ \E count \in 1..MaxMapped : ReadLayout(count) \/ LookAtMemory(count)
  \/ \E suspicious \in BOOLEAN : LookAtMappings(suspicious)
  \/ BeginBaseline \/ FailBaseline \/ StoreBaseline
  \/ BeginRound \/ LookAtCode \/ FailRound
  \/ HandleViolation \/ EndRound \/ ClearViolations

RoundSpec == RoundInit /\ [][RoundNext]_RoundVars

-----------------------------------------------------------------------------
RoundTypeOK ==
  /\ onDisk \in [Files -> FileContents \cup {0}]
  /\ \A b \in {baseline, updater} :
       /\ b.left \subseteq DataFiles /\ b.count \in 0..MaxMapped
       /\ b.file \in [Files -> FileContents \cup {0}]
  /\ checker.at \in Looks \cup {"idle", "handle"} /\ checker.left \subseteq DataFiles
  /\ \A i \in DOMAIN checker.found : checker.found[i].kind \in Looks
  /\ checker.kept \in 0..Len(checker.found)
  /\ violations \subseteq Looks /\ running \in BOOLEAN
  /\ lasting \subseteq Files

\* Whatever happens to files, mappings and baseline while a round goes from file to
\* file: what it found differs from the baseline that is still in force; a file that
\* has differed from it ever since the round began is found, or for data another
\* one; and nothing is kept after a critical violation, which ends the process. A
\* file that changes or is put back during the round may be missed, and a round that
\* fails keeps nothing (integrity.rs:370-700).
ViolationsAreFounded ==
  /\ \A i \in DOMAIN checker.found :
       LET v == checker.found[i]
       IN /\ v.expected # v.actual
          /\ v.kind \in {"code", "data"} => v.expected = baseline.file[v.of]
          /\ v.kind = "memory" => v.expected = baseline.count
          /\ v.kind \in Critical /\ i <= checker.kept => ~running /\ i = checker.kept
  /\ checker.at = "handle" =>
       \A f \in lasting : \E i \in DOMAIN checker.found :
         checker.found[i].kind = IF f = "exe" THEN "code" ELSE "data"
  /\ violations \cap Critical # {} => ~running

-----------------------------------------------------------------------------
(* Memory protection                                                        *)

MemoryInit ==
  /\ region = "rw" /\ recorded = "rw"
  /\ protector = [t \in Protecting |-> "none"] /\ lapsed = FALSE

\* protect_region: the system call, then the entry, under its own guard.
Protect(t, flags) ==
  /\ protector[t] = "none"
  /\ region' = flags /\ protector' = [protector EXCEPT ![t] = flags]
  /\ lapsed' = (\E u \in Protecting : protector[u] # "none")
  /\ UNCHANGED recorded
RecordProtection(t) ==
  /\ protector[t] # "none"
  /\ recorded' = protector[t] /\ protector' = [protector EXCEPT ![t] = "none"]
  /\ UNCHANGED <<region, lapsed>>

\* secure_clear: written over and left read-only; the entry stays as it was.
SecureClear(t) ==
  /\ protector[t] = "none"
  /\ region' = "r" /\ lapsed' = TRUE
  /\ UNCHANGED <<recorded, protector>>

MemoryNext ==
  \E t \in Protecting : \/ \E flags \in {"r", "x"} : Protect(t, flags)
                        \/ RecordProtection(t) \/ SecureClear(t)

MemorySpec == MemoryInit /\ [][MemoryNext]_MemoryVars

-----------------------------------------------------------------------------
MemoryTypeOK ==
  /\ {region, recorded} \subseteq {"r", "x", "rw"} /\ lapsed \in BOOLEAN
  /\ \A t \in Protecting : protector[t] \in {"none", "r", "x"}

\* The record of a region is what the system enforces, once the calls on it have
\* returned, unless two of them overlapped or it was cleared since
\* (integrity.rs:1040-1095).
RecordFollowsRegion ==
  ~lapsed /\ (\A t \in Protecting : protector[t] = "none") => recorded = region
=============================================================================
