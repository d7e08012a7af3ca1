--------------------------- MODULE CredentialBackup ---------------------------
(* The backups of security/credential_backup.rs.  Creating one stores the data,   *)
(* lists it and deletes the oldest beyond max_backup_versions per strategy; the    *)
(* list is only in memory and every step is an await.  Backups are numbered in the *)
(* order of their created_at.  Of the strategies only the local one stores         *)
(* anything; the others report success and store nothing.                          *)
EXTENDS Integers, FiniteSets, FiniteSetsExt

CONSTANTS BackupTasks,  \* tasks that create or delete backups
          MaxVersions,  \* max_backup_versions, 10 in the code
          MaxBackups    \* bound: backups made

ASSUME BackupAssumption == MaxVersions \in Nat /\ MaxBackups \in Nat

VARIABLES made,         \* the strategies of the backups made so far
          listing,      \* backup_metadata: the backups listed
          stored,       \* the data that is kept
          job,          \* where each task stands: the backup it works on, and those
                        \* its clean-up has found too old
          undeleted     \* history: the listed backups whose data is there, and whose
                        \* deletion failed when a clean-up asked for it

BackupVars == <<made, listing, stored, job, undeleted>>

Strategies == {"local", "remote"}
Backups == 1..MaxBackups
Made == DOMAIN made
Off == [at |-> "idle", on |-> 0, doomed |-> {}]

BackupTypeOK ==
  /\ Made \subseteq Backups /\ \A b \in Made : made[b] \in Strategies
  /\ listing \subseteq Made /\ stored \subseteq Made /\ undeleted \subseteq Made
  /\ job \in [BackupTasks -> [at: {"idle", "list", "sort", "clean", "forget"},
                              on: 0..MaxBackups, doomed: SUBSET Backups]]

BackupInit ==
  /\ made = <<>> /\ listing = {} /\ stored = {} /\ undeleted = {}
  /\ job = [t \in BackupTasks |-> Off]

-----------------------------------------------------------------------------
(* create_backup.  A write that fails leaves at most a file under a fresh id that   *)
(* nothing refers to.                                                              *)
StoreBackup(t, strategy) ==
  LET b == Cardinality(Made) + 1
  IN /\ job[t] = Off /\ b \in Backups
     /\ made' = [c \in 1..b |-> IF c = b THEN strategy ELSE made[c]]
     /\ stored' = IF strategy = "local" THEN stored \cup {b} ELSE stored
     /\ job' = [job EXCEPT ![t] = [at |-> "list", on |-> b, doomed |-> {}]]
     /\ UNCHANGED <<listing, undeleted>>

ListBackup(t) ==
  /\ job[t].at = "list"
  /\ listing' = listing \cup {job[t].on}
  /\ job' = [job EXCEPT ![t].at = "sort"]
  /\ UNCHANGED <<made, stored, undeleted>>

\* cleanup_old_backups reads the list once, and deletes afterwards.
SameStrategy(b) == {c \in listing : made[c] = made[b]}
TooOld == {b \in listing : Cardinality({c \in SameStrategy(b) : c > b}) >= MaxVersions}

\* Faulty: the strategies are not told apart.
SortTogether(t) ==
  /\ job[t].at = "sort"
  /\ job' = [job EXCEPT ![t] =
       [at |-> "clean", on |-> 0,
        doomed |-> {b \in listing :
                      Cardinality({c \in listing : c > b}) >= MaxVersions}]]
  /\ UNCHANGED <<made, listing, stored, undeleted>>

SortBackups(t) ==
  /\ job[t].at = "sort"
  /\ job' = [job EXCEPT ![t] = [at |-> "clean", on |-> 0, doomed |-> TooOld]]
  /\ UNCHANGED <<made, listing, stored, undeleted>>

CleanEnds(t) ==
  /\ job[t].at = "clean" /\ job[t].doomed = {}
  /\ job' = [job EXCEPT ![t] = Off]
  /\ UNCHANGED <<made, listing, stored, undeleted>>

-----------------------------------------------------------------------------
(* delete_backup: of a backup that is too old, in turn, or of any backup *)

\* A backup that is gone, or whose data is, cannot be deleted and keeps its entry.
Deletable(b) == b \in listing /\ (made[b] = "local" => b \in stored)

DeleteData(t, b) ==
  /\ \/ job[t].at = "clean" /\ b \in job[t].doomed
     \/ job[t] = Off /\ b \in listing
  /\ Deletable(b)
  /\ stored' = stored \ {b}
  /\ job' = [job EXCEPT ![t] = [at |-> "forget", on |-> b, doomed |-> @.doomed \ {b}]]
  /\ UNCHANGED <<made, listing, undeleted>>

\* Removing the file may also fail; the clean-up warns and goes on to the next.
DeleteFails(t, b) ==
  /\ job[t].at = "clean" /\ b \in job[t].doomed
  /\ Deletable(b) => made[b] = "local"
  /\ job' = [job EXCEPT ![t].doomed = @ \ {b}]
  /\ undeleted' = IF Deletable(b) THEN undeleted \cup {b} ELSE undeleted
  /\ UNCHANGED <<made, listing, stored>>

ForgetBackup(t) ==
  /\ job[t].at = "forget"
  /\ listing' = listing \ {job[t].on}
  /\ undeleted' = undeleted \ {job[t].on}
  /\ job' = [job EXCEPT ![t] = IF @.doomed = {} THEN Off
                               ELSE [@ EXCEPT !.at = "clean", !.on = 0]]
  /\ UNCHANGED <<made, stored>>

\* A new process lists nothing of what is stored.
BackupRestart ==
  /\ listing' = {} /\ undeleted' = {} /\ job' = [t \in BackupTasks |-> Off]
  /\ UNCHANGED <<made, stored>>

BackupNext ==
  \/ \E t \in BackupTasks :
       \/ \E strategy \in Strategies : StoreBackup(t, strategy)
       \/ ListBackup(t) \/ SortBackups(t) \/ CleanEnds(t) \/ ForgetBackup(t)
       \/ \E b \in Made : DeleteData(t, b) \/ DeleteFails(t, b)
  \/ BackupRestart

BackupSpec == BackupInit /\ [][BackupNext]_BackupVars

-----------------------------------------------------------------------------
(* Properties *)

\* restore_backup finds the data of every local backup that is listed, except while
\* the task that deleted the data is about to strike it off.
ListedIsRestorable ==
  \A b \in listing : made[b] = "local" /\ b \notin stored =>
    \E t \in BackupTasks : job[t].at = "forget" /\ job[t].on = b

\* However clean-ups, deletions and new backups overlapped: a clean-up dooms only
\* a backup followed by max_backup_versions later ones of its strategy, and when
\* all is quiet no strategy has more than that many listed, those aside whose files
\* a clean-up could not remove.
RetentionHolds ==
  /\ ListedIsRestorable
  /\ \A t \in BackupTasks : \A b \in job[t].doomed :
       Cardinality({c \in Made : made[c] = made[b] /\ c > b}) >= MaxVersions
  /\ (\A t \in BackupTasks : job[t] = Off) =>
       \A b \in listing : Cardinality(SameStrategy(b) \ undeleted) <= MaxVersions
=============================================================================
