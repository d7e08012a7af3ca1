--------------------------- MODULE MountIntegrity ----------------------------
(* One share and the integrity of its mount point: what the mount handler makes *)
(* and registers, what the monitoring loop and the report find, and the log of   *)
(* security events, through restarts that lose it all but the mount.             *)
EXTENDS Naturals

CONSTANTS
  DirTimes,    \* modification times of the mount point, as numbers from 1 up
  LogLimit     \* events kept: 1000, of which half go when it is full

ASSUME IntegrityAssumption == /\ DirTimes \subseteq Nat \ {0} /\ 1 \in DirTimes
                              /\ LogLimit \in Nat \ {0, 1}

VARIABLES
  dir,         \* modification time of the mount point, 0 while it is missing
  odd,         \* it holds a file with a suspicious name
  mounted,     \* the share is mounted over it
  registered,  \* MountSecurityConfig of the share
  handler,     \* where handle_mount_request stands
  lapses,      \* why the share may be mounted unregistered, a history variable
  events,      \* number of logged events
  found        \* what the loop and the report last found

IntegrityVars == <<dir, odd, mounted, registered, handler, lapses, events, found>>

Unregistered == [is |-> FALSE]
Idle == [at |-> "idle"]
NotLooked == [loop |-> "none", report |-> "none"]

\* log_security_event
Logged(count) == (IF count >= LogLimit THEN count - LogLimit \div 2 ELSE count) + 1

IntegrityInit ==
  /\ dir = 0 /\ odd = FALSE /\ mounted = FALSE
  /\ registered = Unregistered /\ handler = Idle /\ lapses = {}
  /\ events = 0 /\ found = NotLooked

\* Others write into the directory, or remove it while nothing is mounted.
TouchDir(time, name) ==
  /\ dir # 0 /\ <<time, name>> # <<dir, odd>>
  /\ time = 0 => ~mounted /\ ~name
  /\ dir' = time /\ odd' = name
  /\ found' = NotLooked
  /\ UNCHANGED <<mounted, registered, handler, lapses, events>>

\* A dry run makes no directory. validate_mount_point wants one, in a place that
\* is safe, or the request ends.
HandlerValidates(dry, safe) ==
  /\ handler = Idle /\ ~mounted
  /\ dir' = IF dir = 0 /\ ~dry THEN 1 ELSE dir
  /\ handler' = IF dir' # 0 /\ safe THEN [at |-> "register", dry |-> dry] ELSE Idle
  /\ found' = NotLooked
  /\ UNCHANGED <<odd, mounted, registered, lapses, events>>

Then == IF handler.dry THEN Idle ELSE [at |-> "mount"]

\* register_mount asks once more whether the directory is there, and not whether
\* its place is safe, and waits for its time. Its failure is only logged.
RegisterReads ==
  /\ handler.at = "register"
  /\ IF dir = 0
     THEN handler' = Then /\ lapses' = lapses \cup {"vanished"}
     ELSE /\ handler' = [at |-> "insert", dry |-> handler.dry, hash |-> dir]
          /\ UNCHANGED lapses
  /\ UNCHANGED <<dir, odd, mounted, registered, events, found>>

RegisterInserts ==
  /\ handler.at = "insert"
  /\ registered' = [is |-> TRUE, hash |-> handler.hash, old |-> FALSE]
  /\ events' = Logged(events)
  /\ handler' = Then
  /\ found' = NotLooked
  /\ UNCHANGED <<dir, odd, mounted, lapses>>

\* The driver makes the directory again if it is gone and runs the mount command:
\* a mounted directory has a time and names of its own.
HandlerMounts(time, name) ==
  /\ handler.at = "mount"
  /\ dir' = time /\ odd' = name /\ mounted' = TRUE
  /\ handler' = Idle /\ found' = NotLooked
  /\ UNCHANGED <<registered, lapses, events>>

\* A driver that fails may have made the directory already.
HandlerFails(made) ==
  /\ handler.at = "mount"
  /\ dir' = IF dir = 0 /\ made THEN 1 ELSE dir
  /\ handler' = Idle /\ found' = NotLooked
  /\ UNCHANGED <<odd, mounted, registered, lapses, events>>

\* Unmounting leaves the registration: unregister_mount has no caller.
UnmountDir(removed) ==
  /\ handler = Idle /\ mounted
  /\ mounted' = FALSE /\ odd' = FALSE
  /\ dir' = IF removed THEN 0 ELSE 1
  /\ found' = NotLooked
  /\ UNCHANGED <<registered, handler, lapses, events>>

RegistrationAges ==
  /\ registered.is /\ ~registered.old
  /\ registered' = [registered EXCEPT !.old = TRUE]
  /\ found' = NotLooked
  /\ UNCHANGED <<dir, odd, mounted, handler, lapses, events>>

\* A restart forgets the registration, and mounts enabled shares without any.
RestartAndMount(time, name) ==
  /\ registered' = Unregistered /\ events' = 0
  /\ handler' = Idle /\ found' = NotLooked
  /\ lapses' = lapses \cup {"restarted"}
  /\ \/ UNCHANGED <<dir, odd, mounted>>
     \/ ~mounted /\ dir' = time /\ odd' = name /\ mounted' = TRUE

\* check_mount_integrity, and validate_mount_integrity of a registered share,
\* which sees suspicious names and only logs them.
LoopFinds(recent) ==
  IF dir = 0 THEN "Failed"
  ELSE IF registered.is /\ recent THEN "RequiresVerification"
  ELSE IF odd THEN "Suspicious" ELSE "Intact"

ReportFinds ==
  IF ~registered.is THEN "none"
  ELSE IF dir = 0 THEN "Failed"
  ELSE IF registered.old THEN "Modified"
  ELSE IF registered.hash # dir THEN "Suspicious" ELSE "Intact"

LookAtMount(recent) ==
  /\ found' = [loop |-> LoopFinds(recent), report |-> ReportFinds]
  /\ UNCHANGED <<dir, odd, mounted, registered, handler, lapses, events>>

IntegrityNext ==
  \/ \E time \in DirTimes \cup {0}, name \in BOOLEAN : TouchDir(time, name)
  \/ \E dry, safe \in BOOLEAN : HandlerValidates(dry, safe)
  \/ RegisterReads
  \/ RegisterInserts
  \/ \E time \in DirTimes, name \in BOOLEAN : HandlerMounts(time, name)
  \/ \E made \in BOOLEAN : HandlerFails(made)
  \/ \E removed \in BOOLEAN : UnmountDir(removed)
  \/ RegistrationAges
  \/ \E time \in DirTimes, name \in BOOLEAN : RestartAndMount(time, name)
  \/ \E recent \in BOOLEAN : LookAtMount(recent)

IntegritySpec == IntegrityInit /\ [][IntegrityNext]_IntegrityVars

-----------------------------------------------------------------------------
IntegrityTypeOK ==
  /\ dir \in DirTimes \cup {0} /\ odd \in BOOLEAN /\ mounted \in BOOLEAN
  /\ registered = Unregistered \/ registered.hash \in DirTimes
  /\ handler.at \in {"idle", "register", "insert", "mount"}
  /\ lapses \subseteq {"vanished", "restarted"}
  /\ events \in 0..LogLimit

\* A share mounted on request is registered unless its directory vanished between
\* two looks of that request, or the daemon restarted: mounting on start-up, and a
\* restart while the share stays mounted, leave it without a registration and so
\* without an hour of birth to judge it by (daemon/mod.rs:1264-1284, 2419-2450).
MountedIsWatched == mounted => registered.is \/ lapses # {}
=============================================================================
