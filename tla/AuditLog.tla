------------------------------- MODULE AuditLog -------------------------------
(* Logging an audit event (security/audit_logging.rs): the chain of hashes, the   *)
(* buffer, the log file and its rotation.  log_event lets many calls in at once,  *)
(* and every guard is taken for a single step.  A file is what an open writer     *)
(* goes on writing to when it is renamed.  Filters, signing and encryption change *)
(* no order and are left out.                                                     *)
EXTENDS Integers, Sequences, FiniteSets, SequencesExt

CONSTANTS Loggers,      \* concurrent log_event calls; the code lets in 100
          MaxEvents,    \* bound: events logged
          BufferSize,   \* buffer_size
          FileSize,     \* max_file_size, in events
          BackupCount   \* backup_count

ASSUME AuditAssumption ==
  /\ {MaxEvents, BufferSize, FileSize, BackupCount} \subseteq Nat \ {0}

VARIABLES lastHash,     \* last_event_hash: the event chained to next
          previous,     \* previous_event_hash of the events logged so far
          buffer,       \* event_buffer
          current,      \* the file at log_file_path
          writer,       \* the file log_writer has open
          rotated,      \* the files named log.1, log.2, ...
          logged,       \* the events in each file
          logger,       \* where each call stands
          forked,       \* of the properties only: two events were being chained
          raced,        \* of the properties only: a call opened, wrote or rotated
                        \* while another rotated, or rotated what had been rotated
          halved,       \* of the properties only: a rotation failed halfway
          unlogged      \* of the properties only: the events whose writing failed

AuditVars == <<lastHash, previous, buffer, current, writer, rotated, logged, logger,
               forked, raced, halved, unlogged>>

Events == 1..MaxEvents
Files == 1..MaxEvents      \* an event makes at most one file
Nothing == 0
Quiet == [at |-> "idle", event |-> Nothing, link |-> Nothing]

AuditTypeOK ==
  /\ lastHash \in Events \cup {Nothing}
  /\ previous \in Seq(Events \cup {Nothing}) /\ Len(previous) <= MaxEvents
  /\ buffer \in Seq(Events) /\ Len(buffer) <= BufferSize
  /\ {current, writer} \subseteq Files \cup {Nothing}
  /\ rotated \in [1..BackupCount -> Files \cup {Nothing}]
  /\ logged \in Seq(SUBSET Events) /\ Len(logged) <= MaxEvents
  /\ logger \in [Loggers ->
       [at: {"idle", "chain", "buffer", "open", "write", "check", "close",
             "rename"},
        event: Events \cup {Nothing}, link: Events \cup {Nothing}]]
  /\ forked \in BOOLEAN /\ raced \in BOOLEAN /\ halved \in BOOLEAN
  /\ unlogged \subseteq Events

AuditInit ==
  /\ lastHash = Nothing /\ previous = <<>> /\ buffer = <<>>
  /\ current = Nothing /\ writer = Nothing
  /\ rotated = [n \in 1..BackupCount |-> Nothing] /\ logged = <<>>
  /\ logger = [l \in Loggers |-> Quiet]
  /\ forked = FALSE /\ raced = FALSE /\ halved = FALSE /\ unlogged = {}

-----------------------------------------------------------------------------
\* process_event hashes the event and reads the last hash under one guard ...
ProcessEvent(l) ==
  LET e == Len(previous) + 1
  IN /\ logger[l] = Quiet /\ e \in Events
     /\ previous' = Append(previous, lastHash)
     /\ logger' = [logger EXCEPT ![l] = [at |-> "chain", event |-> e,
                                         link |-> lastHash]]
     /\ forked' = (forked \/ \E k \in Loggers : logger[k].at = "chain")
     /\ UNCHANGED <<lastHash, buffer, current, writer, rotated, logged, raced, halved,
                    unlogged>>

\* Faulty: the link is stored again.
ChainLink(l) ==
  /\ logger[l].at = "chain" /\ lastHash' = logger[l].link
  /\ logger' = [logger EXCEPT ![l].at = "buffer"]
  /\ UNCHANGED <<previous, buffer, current, writer, rotated, logged, forked, raced,
                 halved, unlogged>>

\* ... and replaces it under another.
ChainEvent(l) ==
  /\ logger[l].at = "chain" /\ lastHash' = logger[l].event
  /\ logger' = [logger EXCEPT ![l].at = "buffer"]
  /\ UNCHANGED <<previous, buffer, current, writer, rotated, logged, forked, raced,
                 halved, unlogged>>

BufferEvent(l) ==
  LET longer == Append(buffer, logger[l].event)
  IN /\ logger[l].at = "buffer"
     /\ buffer' = IF Len(longer) > BufferSize THEN Tail(longer) ELSE longer
     /\ logger' = [logger EXCEPT ![l].at = "open"]
     /\ UNCHANGED <<lastHash, previous, current, writer, rotated, logged, forked,
                    raced, halved, unlogged>>

Rotating == {k \in Loggers : logger[k].at = "rename"}

\* write_to_log_file opens the file at the path, making one if there is none, when
\* no writer is open ...
OpenWriter(l) ==
  LET file == IF current # Nothing THEN current ELSE Len(logged) + 1
  IN /\ logger[l].at = "open"
     /\ logger' = [logger EXCEPT ![l].at = "write"]
     /\ IF writer # Nothing THEN UNCHANGED <<writer, current, logged>>
        ELSE /\ writer' = file /\ current' = file
             /\ logged' = IF file > Len(logged) THEN Append(logged, {}) ELSE logged
     /\ raced' = (raced \/ Rotating # {})
     /\ UNCHANGED <<lastHash, previous, buffer, rotated, forked, halved, unlogged>>

\* ... lets go of the writer, and writes if there still is one.
WriteEvent(l) ==
  /\ logger[l].at = "write"
  /\ logger' = [logger EXCEPT ![l].at = "check"]
  /\ logged' = IF writer = Nothing THEN logged
               ELSE [logged EXCEPT ![writer] = @ \cup {logger[l].event}]
  /\ raced' = (raced \/ Rotating # {})
  /\ UNCHANGED <<lastHash, previous, buffer, current, writer, rotated, forked, halved,
                 unlogged>>

\* Opening or writing may fail, which ends the call: the event is chained and in the
\* buffer, and in the file at most by what was written before the failure.
WriteFails(l) ==
  /\ \/ logger[l].at = "open" /\ writer = Nothing /\ UNCHANGED logged
     \/ /\ logger[l].at = "write" /\ writer # Nothing
        /\ logged' \in {logged, [logged EXCEPT ![writer] = @ \cup {logger[l].event}]}
  /\ unlogged' = unlogged \cup {logger[l].event}
  /\ logger' = [logger EXCEPT ![l] = Quiet]
  /\ UNCHANGED <<lastHash, previous, buffer, current, writer, rotated, forked, raced,
                 halved>>

-----------------------------------------------------------------------------
\* check_log_rotation looks at the path ...
FileIsFull == current # Nothing /\ Cardinality(logged[current]) >= FileSize

CheckRotation(l) ==
  /\ logger[l].at = "check"
  /\ logger' = [logger EXCEPT ![l] = IF FileIsFull THEN [@ EXCEPT !.at = "close"]
                                     ELSE Quiet]
  /\ UNCHANGED <<lastHash, previous, buffer, current, writer, rotated, logged, forked,
                 raced, halved, unlogged>>

\* ... and rotate_log_files waits for the writer and closes it: by then another call
\* may have rotated the file that was seen.
CloseWriter(l) ==
  /\ logger[l].at = "close" /\ writer' = Nothing
  /\ logger' = [logger EXCEPT ![l].at = "rename"]
  /\ raced' = (raced \/ ~FileIsFull \/ Rotating # {}
                    \/ \E k \in Loggers : logger[k].at = "write")
  /\ UNCHANGED <<lastHash, previous, buffer, current, rotated, logged, forked, halved,
                 unlogged>>

\* Each older file takes the next name if it is there, which drops the oldest; then
\* the file at the path becomes log.1, or the call fails because it has gone.
Shifted == [n \in 1..BackupCount |->
              IF n > 1 /\ rotated[n - 1] # Nothing THEN rotated[n - 1]
              ELSE IF n < BackupCount THEN Nothing ELSE rotated[n]]

RenameFiles(l) ==
  /\ logger[l].at = "rename"
  /\ rotated' = IF current # Nothing THEN [Shifted EXCEPT ![1] = current]
                ELSE Shifted
  /\ current' = Nothing
  /\ logger' = [logger EXCEPT ![l] = Quiet]
  /\ UNCHANGED <<lastHash, previous, buffer, writer, logged, forked, raced, halved,
                 unlogged>>

\* A rename that fails, the one that makes log.n, ends the call after those before it.
Halfway(n) == [m \in 1..BackupCount |->
                 IF m > n THEN Shifted[m]
                 ELSE IF m = n /\ n < BackupCount THEN Nothing ELSE rotated[m]]

RenameFails(l, n) ==
  /\ logger[l].at = "rename"
  /\ (IF n = 1 THEN current ELSE rotated[n - 1]) # Nothing
  /\ rotated' = Halfway(n)
  /\ halved' = (halved \/ rotated' # rotated)
  /\ logger' = [logger EXCEPT ![l] = Quiet]
  /\ UNCHANGED <<lastHash, previous, buffer, current, writer, logged, forked, raced,
                 unlogged>>

AuditNext ==
  \E l \in Loggers :
    \/ ProcessEvent(l) \/ ChainEvent(l) \/ BufferEvent(l)
    \/ OpenWriter(l) \/ WriteEvent(l) \/ WriteFails(l)
    \/ CheckRotation(l) \/ CloseWriter(l) \/ RenameFiles(l)
    \/ \E n \in 1..BackupCount : RenameFails(l, n)

AuditSpec == AuditInit /\ [][AuditNext]_AuditVars

-----------------------------------------------------------------------------
(* Properties *)

\* Unless two events were chained at once, no two events have the same
\* predecessor and each leads back to the one logged before it.
ChainIsLinear ==
  ~forked => \A e \in DOMAIN previous : previous[e] = e - 1

\* Unless a call opened, wrote or rotated while another rotated, or rotated what
\* another had rotated since it looked, events are written to the file at the log's
\* path, so that it is rotated when it is full, and none is dropped whose writing did
\* not fail; and unless a rotation failed halfway, the last backup_count files that
\* were full are kept: the file that is not is older.  (Otherwise the writer may be
\* gone when its event comes to be written, or be that of the renamed file: nothing
\* is at the path any more, and the log is never rotated again.)
StillToWrite == {logger[l].event : l \in {l \in Loggers :
                   logger[l].at \in {"chain", "buffer", "open", "write"}}}

NewestFilesKept ==
  ~raced =>
    /\ writer \in {Nothing, current}
    /\ \A e \in DOMAIN previous :
         e \in StillToWrite \cup unlogged \/ \E f \in DOMAIN logged : e \in logged[f]
    /\ ~halved => \A f \in DOMAIN logged :
         f \in {current} \cup {rotated[n] : n \in DOMAIN rotated}
           \/ Len(logged) - f >= BackupCount

\* The log can be relied upon, chain and files, whatever loggers overlapped and
\* whatever failed, as far as the two above say (audit_logging.rs:846, 873-960).
LogStands == ChainIsLinear /\ NewestFilesKept
=============================================================================
