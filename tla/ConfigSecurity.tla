---------------------------- MODULE ConfigSecurity ----------------------------
(* Saving, restoring and rolling back one configuration file                      *)
(* (security/config_security.rs).  A save copies the file to a backup named by    *)
(* the second, validates, writes a temporary file of a fixed name and renames it; *)
(* saves run on several threads and take no lock.  A step that fails ends its     *)
(* save, and may leave half of what it was writing.  Encryption keeps the content *)
(* and is left out.                                                               *)
EXTENDS Integers

CONSTANTS Savers,        \* tasks that save
          Valid,         \* contents that pass validate_config
          Invalid,       \* contents that do not
          Missing0,      \* no file
          Partial,       \* a file that is being copied over
          MaxSecond,     \* bound: seconds of the clock
          HistoryLimit,  \* 1000 in the code
          HistoryTrim    \* 100 in the code

ASSUME ConfigSecurityAssumption ==
  /\ Valid \cap Invalid = {} /\ {Missing0, Partial} \cap (Valid \cup Invalid) = {}
  /\ Missing0 # Partial /\ MaxSecond \in Nat
  /\ HistoryLimit \in Nat \ {0} /\ HistoryTrim \in 1..HistoryLimit

VARIABLES disk,          \* the configuration file
          temporary,     \* the file beside it with the extension tmp
          backups,       \* the backup file of each second
          second,        \* the clock
          save,          \* where each save stands
          records,       \* how many entries the history has
          cut,           \* of the properties only: a restore failed or died
                         \* half-way
          crowded,       \* of the properties only: a save overlapped with
                         \* another or with a rollback
          due            \* of the properties only: the content to be found

ConfigSecurityVars == <<disk, temporary, backups, second, save, records, cut,
                        crowded, due>>

Anything == Valid \cup Invalid
NoBackup == -1
Rest == [at |-> "idle", data |-> Missing0, backup |-> NoBackup]

ConfigSecurityTypeOK ==
  /\ disk \in Valid \cup {Missing0, Partial}
  /\ temporary \in Valid \cup {Missing0, Partial}
  /\ backups \in [0..MaxSecond -> Valid \cup {Missing0, Partial}]
  /\ second \in 0..MaxSecond
  /\ save \in [Savers -> [at: {"idle", "validate", "restore", "rename", "note"},
                          data: Anything \cup {Missing0},
                          backup: 0..MaxSecond \cup {NoBackup}]]
  /\ records \in 0..HistoryLimit
  /\ cut \in BOOLEAN /\ crowded \in BOOLEAN
  /\ due \in Valid \cup {Missing0}

ConfigSecurityInit ==
  /\ disk = Missing0 /\ temporary = Missing0 /\ due = Missing0
  /\ backups = [n \in 0..MaxSecond |-> Missing0] /\ second = 0
  /\ save = [s \in Savers |-> Rest]
  /\ records = 0 /\ cut = FALSE /\ crowded = FALSE

-----------------------------------------------------------------------------
\* Faulty: the history is never trimmed.
RecordAlways == records' = records + 1

\* add_history_entry: past the limit the oldest entries go.
Record ==
  records' = IF records = HistoryLimit THEN HistoryLimit + 1 - HistoryTrim
             ELSE records + 1

Overlapping(tasks) == crowded' = (crowded \/ \E s \in tasks : save[s] # Rest)

\* create_backup: a second backup in the same second overwrites the first.
CreateBackup == backups' = [backups EXCEPT ![second] = disk]

SaveBegins(s, content) ==
  /\ save[s] = Rest
  /\ IF disk = Missing0 THEN UNCHANGED backups ELSE CreateBackup
  /\ save' = [save EXCEPT ![s] =
                [at |-> "validate", data |-> content,
                 backup |-> IF disk = Missing0 THEN NoBackup ELSE second]]
  /\ Overlapping(Savers \ {s})
  /\ UNCHANGED <<disk, temporary, second, records, cut, due>>

\* A content that does not pass ends the save, by way of the backup if there is one.
SaveRefused(s) ==
  /\ save[s].at = "validate" /\ save[s].data \in Invalid
  /\ IF save[s].backup = NoBackup
     THEN save' = [save EXCEPT ![s] = Rest] /\ UNCHANGED disk
     ELSE save' = [save EXCEPT ![s].at = "restore"] /\ disk' = Partial
  /\ UNCHANGED <<temporary, backups, second, records, cut, crowded, due>>

\* Faulty: the backup's name is made anew from the clock.
SaveRestoresLatest(s) ==
  /\ save[s].at = "restore"
  /\ disk' = backups[second]
  /\ save' = [save EXCEPT ![s] = Rest]
  /\ UNCHANGED <<temporary, backups, second, records, cut, crowded, due>>

\* restore_from_backup copies over the file in place.
SaveRestored(s) ==
  /\ save[s].at = "restore"
  /\ disk' = backups[save[s].backup]
  /\ save' = [save EXCEPT ![s] = Rest]
  /\ UNCHANGED <<temporary, backups, second, records, cut, crowded, due>>

SaveWritesTemporary(s) ==
  /\ save[s].at = "validate" /\ save[s].data \in Valid
  /\ temporary' = save[s].data
  /\ save' = [save EXCEPT ![s].at = "rename"]
  /\ UNCHANGED <<disk, backups, second, records, cut, crowded, due>>

\* The rename fails when another save has taken the temporary file away.
SaveRenames(s) ==
  /\ save[s].at = "rename"
  /\ IF temporary = Missing0
     THEN save' = [save EXCEPT ![s] = Rest] /\ UNCHANGED <<disk, temporary, due>>
     ELSE /\ disk' = temporary /\ temporary' = Missing0
          /\ due' = save[s].data
          /\ save' = [save EXCEPT ![s].at = "note"]
  /\ UNCHANGED <<backups, second, records, cut, crowded>>

\* Any other call may fail and end its save: before anything is written over, while
\* a copy or the temporary file is being written, or with nothing left but to note it.
SaveFails(s) ==
  /\ save[s] # Rest
  /\ temporary' \in {temporary} \cup
       (IF save[s].at = "validate" /\ save[s].data \in Valid THEN {Partial} ELSE {})
  /\ cut' = (cut \/ save[s].at = "restore")
  /\ save' = [save EXCEPT ![s] = Rest]
  /\ UNCHANGED <<disk, backups, second, records, crowded, due>>

\* The backup of a save or of a rollback fails half-way, and the call with it.
BackupFails ==
  /\ disk # Missing0 /\ (records >= 1 \/ \E s \in Savers : save[s] = Rest)
  /\ backups' = [backups EXCEPT ![second] = Partial]
  /\ Overlapping(Savers)
  /\ UNCHANGED <<disk, temporary, second, save, records, cut, due>>

SaveNotes(s) ==
  /\ save[s].at = "note" /\ Record
  /\ save' = [save EXCEPT ![s] = Rest]
  /\ UNCHANGED <<disk, temporary, backups, second, cut, crowded, due>>

\* load_config: what does not validate is not recorded.
LoadSecured ==
  /\ disk \in Valid /\ Record
  /\ UNCHANGED <<disk, temporary, backups, second, save, cut, crowded, due>>

\* rollback, to a version the history has or, if none is given, to the entry before
\* the last one: it backs the file up and appends to the history, and leaves the file
\* as it is.
RollBack(given) ==
  /\ records >= (IF given THEN 1 ELSE 2)
  /\ IF disk = Missing0 THEN UNCHANGED backups ELSE CreateBackup
  /\ Record /\ Overlapping(Savers)
  /\ UNCHANGED <<disk, temporary, second, save, cut, due>>

NextSecond ==
  /\ second < MaxSecond /\ second' = second + 1
  /\ UNCHANGED <<disk, temporary, backups, save, records, cut, crowded, due>>

\* The process dies: the history was only in memory, the temporary file stays.
SaverCrash ==
  /\ \E s \in Savers : save[s] # Rest
  /\ save' = [s \in Savers |-> Rest] /\ records' = 0
  /\ cut' = (cut \/ \E s \in Savers : save[s].at = "restore")
  /\ UNCHANGED <<disk, temporary, backups, second, crowded, due>>

ConfigSecurityNext ==
  \/ \E s \in Savers :
       \/ \E content \in Anything : SaveBegins(s, content)
       \/ SaveRefused(s) \/ SaveRestored(s) \/ SaveWritesTemporary(s)
       \/ SaveRenames(s) \/ SaveNotes(s) \/ SaveFails(s)
  \/ \E given \in BOOLEAN : RollBack(given)
  \/ BackupFails \/ LoadSecured \/ NextSecond \/ SaverCrash

ConfigSecuritySpec ==
  ConfigSecurityInit /\ [][ConfigSecurityNext]_ConfigSecurityVars

-----------------------------------------------------------------------------
(* Properties *)

\* While no save overlapped with another or with a rollback and no restore was cut
\* short, the file has the content of the last save that got as far as its rename,
\* whatever was refused, rolled back, failed or was cut short by a crash since, with
\* half a backup or half a temporary file left; only a restore under way leaves it
\* unreadable (config_security.rs:585-636, 863-927).
FileIsLastSave ==
  ~crowded /\ ~cut =>
    disk = due \/ (disk = Partial /\ \E s \in Savers : save[s].at = "restore")
=============================================================================
