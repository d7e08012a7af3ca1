---------------------------- MODULE SecureUpdates ----------------------------
(* The update packages of security/secure_updates.rs.  A package is created,  *)
(* downloaded, verified and installed by calls of their own, which look it up *)
(* in active_updates again after every await; a finished one moves to the     *)
(* history. download_update keeps the write guard of active_updates while it  *)
(* downloads.                                                                 *)
EXTENDS Integers, FiniteSets, Functions

CONSTANTS Packages,      \* package ids
          UpdateTasks,   \* calls under way at the same time
          MaxCreations   \* bound: creations of one id

ASSUME UpdatesAssumption == MaxCreations \in Nat

VARIABLES active,        \* active_updates: a record for each package in it
          updated,       \* update_history: what was moved there
          staged,        \* packages whose file is in the staging directory
          marker,        \* the package fuji_update_marker tells of
          calls,         \* what each call is doing
          creations      \* how often each id was created

UpdatesVars == <<active, updated, staged, marker, calls, creations>>

Stage == {"Pending", "Downloading", "Verifying", "Installing", "Completed", "Failed"}
\* renewed: created while an installation of the same id was under way.
Package == [status: Stage, download: Stage, verify: Stage, install: Stage,
            path: BOOLEAN, renewed: BOOLEAN]
NoPackage == "none"
Phases == {"idle", "download", "mark", "check", "conclude", "backup", "install",
           "complete", "move", "rollback", "fail"}
\* left: the checks of a verification still to come
NoCall == [at |-> "idle", on |-> NoPackage, valid |-> TRUE, left |-> 0]

UpdatesTypeOK ==
  /\ DOMAIN active \subseteq Packages
  /\ \A p \in DOMAIN active : active[p] \in Package
  /\ updated \subseteq [package: Packages, creation: 1..MaxCreations,
                         path: BOOLEAN, renewed: BOOLEAN]
  /\ staged \subseteq Packages /\ marker \in Packages \cup {NoPackage}
  /\ calls \in [UpdateTasks -> [at: Phases, on: Packages \cup {NoPackage},
                                valid: BOOLEAN, left: 0..4]]
  /\ creations \in [Packages -> 0..MaxCreations]

UpdatesInit ==
  /\ active = <<>> /\ updated = {} /\ staged = {} /\ marker = NoPackage
  /\ calls = [t \in UpdateTasks |-> NoCall] /\ creations = [p \in Packages |-> 0]

Listed == DOMAIN active
\* The guard of active_updates is free: nobody downloads.
ActiveFree == \A t \in UpdateTasks : calls[t].at # "download"
Installing(p) == \E t \in UpdateTasks :
  calls[t].on = p /\ calls[t].at \in {"backup", "install", "complete", "move"}
With(p, rec) == [q \in Listed \cup {p} |-> IF q = p THEN rec ELSE active[q]]
Begins(t, p, phase) ==
  /\ calls[t] = NoCall
  /\ calls' = [calls EXCEPT ![t] = [NoCall EXCEPT !.at = phase, !.on = p]]
GoesTo(t, phase) == calls' = [calls EXCEPT ![t].at = phase]
Returns(t) == calls' = [calls EXCEPT ![t] = NoCall]
\* update_stage_status: silent when the package is gone
SetStage(p, stage, status) ==
  active' = IF p \in Listed THEN With(p, [active[p] EXCEPT ![stage] = status])
            ELSE active

-----------------------------------------------------------------------------
(* create_update_package, download_update, cancel_update, cleanup_old_updates *)

\* Whatever stood under the id is replaced.
CreatePackage(p) ==
  /\ ActiveFree /\ creations[p] < MaxCreations
  /\ active' = With(p, [status |-> "Pending", download |-> "Pending",
                        verify |-> "Pending", install |-> "Pending",
                        path |-> FALSE, renewed |-> Installing(p)])
  /\ creations' = [creations EXCEPT ![p] = @ + 1]
  /\ UNCHANGED <<updated, staged, marker, calls>>

StartDownload(t, p) ==
  /\ ActiveFree /\ p \in Listed /\ Begins(t, p, "download")
  /\ active' = With(p, [active[p] EXCEPT !.status = "Downloading",
                                         !.download = "Downloading"])
  /\ UNCHANGED <<updated, staged, marker, creations>>

Downloaded(t) ==
  /\ calls[t].at = "download" /\ Returns(t)
  /\ LET p == calls[t].on
     IN /\ active' = With(p, [active[p] EXCEPT !.download = "Completed", !.path = TRUE])
        /\ staged' = staged \cup {p}
  /\ UNCHANGED <<updated, marker, creations>>

\* The guard is dropped and nothing is put back.
DownloadFails(t) ==
  /\ calls[t].at = "download" /\ Returns(t)
  /\ UNCHANGED <<active, updated, staged, marker, creations>>

\* The path stays although the file is removed.
CancelUpdate(p) ==
  /\ ActiveFree /\ p \in Listed
  /\ LET Cancelled(s) == IF s \in {"Pending", "Downloading", "Verifying"}
                         THEN "Failed" ELSE s
     IN active' = With(p, [active[p] EXCEPT !.status = "Failed",
                !.download = Cancelled(@), !.verify = Cancelled(@),
                !.install = Cancelled(@)])
  /\ staged' = IF active[p].path THEN staged \ {p} ELSE staged
  /\ UNCHANGED <<updated, marker, calls, creations>>

\* Staged files older than a day; backups are never read again.
CleanupOldUpdates(p) ==
  /\ p \in staged /\ staged' = staged \ {p}
  /\ UNCHANGED <<active, updated, marker, calls, creations>>

-----------------------------------------------------------------------------
(* verify_update: integrity, signatures, dependencies and the security scan, each *)
(* looking the package or its file up again                                       *)

StartVerify(t, p) ==
  /\ ActiveFree /\ p \in Listed /\ active[p].path /\ Begins(t, p, "mark")
  /\ UNCHANGED <<active, updated, staged, marker, creations>>

MarkVerifying(t) ==
  /\ calls[t].at = "mark" /\ ActiveFree
  /\ SetStage(calls[t].on, "verify", "Verifying")
  /\ calls' = [calls EXCEPT ![t] = [@ EXCEPT !.at = "check", !.left = 4]]
  /\ UNCHANGED <<updated, staged, marker, creations>>

NeedsFile(left) == left \in {4, 1}
Check(t, passed) ==
  LET c == calls[t] IN
  /\ c.at = "check" /\ (c.left > 1 => ActiveFree)
  /\ IF c.left > 1 /\ c.on \notin Listed THEN Returns(t)
     ELSE calls' = [calls EXCEPT ![t] =
            [c EXCEPT !.left = @ - 1, !.at = IF c.left = 1 THEN "conclude" ELSE @,
                      !.valid = @ /\ passed /\ (NeedsFile(c.left) => c.on \in staged)]]
  /\ UNCHANGED <<active, updated, staged, marker, creations>>

ConcludeVerify(t) ==
  /\ calls[t].at = "conclude" /\ ActiveFree /\ Returns(t)
  /\ SetStage(calls[t].on, "verify", IF calls[t].valid THEN "Completed" ELSE "Failed")
  /\ UNCHANGED <<updated, staged, marker, creations>>

-----------------------------------------------------------------------------
(* install_update, which asks for a path and for no verification *)

StartInstall(t, p) ==
  /\ ActiveFree /\ p \in Listed /\ active[p].path /\ Begins(t, p, "backup")
  /\ active' = With(p, [active[p] EXCEPT !.status = "Installing",
                                         !.install = "Installing"])
  /\ UNCHANGED <<updated, staged, marker, creations>>

\* A failed backup ends the call; the stage stays Installing.
MakeBackup(t) ==
  /\ calls[t].at = "backup" /\ (GoesTo(t, "install") \/ Returns(t))
  /\ UNCHANGED <<active, updated, staged, marker, creations>>

PerformInstallation(t) ==
  /\ calls[t].at = "install" /\ ActiveFree
  /\ \/ marker' = calls[t].on /\ GoesTo(t, "complete")
     \/ UNCHANGED marker /\ GoesTo(t, "rollback")
  /\ UNCHANGED <<active, updated, staged, creations>>

CompleteInstall(t) ==
  /\ calls[t].at = "complete" /\ ActiveFree /\ GoesTo(t, "move")
  /\ SetStage(calls[t].on, "install", "Completed")
  /\ UNCHANGED <<updated, staged, marker, creations>>

\* The history is a set of what was moved, each with the creation it came from; the
\* code keeps the last hundred, all with the status Completed.
ToHistory(p) == updated \cup {[package |-> p, creation |-> creations[p],
                               path |-> active[p].path, renewed |-> active[p].renewed]}

\* Faulty: the package stays active.
MoveKeeps(t) ==
  /\ calls[t].at = "move" /\ ActiveFree /\ Returns(t)
  /\ updated' = IF calls[t].on \in Listed THEN ToHistory(calls[t].on) ELSE updated
  /\ UNCHANGED <<active, staged, marker, creations>>

MoveToHistory(t) ==
  /\ calls[t].at = "move" /\ ActiveFree /\ Returns(t)
  /\ LET p == calls[t].on
     IN IF p \in Listed
        THEN updated' = ToHistory(p) /\ active' = Restrict(active, Listed \ {p})
        ELSE UNCHANGED <<active, updated>>
  /\ UNCHANGED <<staged, marker, creations>>

\* rollback_update removes the one marker, whichever package wrote it.
AutoRollback(t) ==
  /\ calls[t].at = "rollback" /\ GoesTo(t, "fail") /\ marker' = NoPackage
  /\ UNCHANGED <<active, updated, staged, creations>>

InstallFails(t) ==
  /\ calls[t].at = "fail" /\ ActiveFree /\ Returns(t)
  /\ SetStage(calls[t].on, "install", "Failed")
  /\ UNCHANGED <<updated, staged, marker, creations>>

RollbackUpdate ==
  /\ marker # NoPackage /\ marker' = NoPackage
  /\ UNCHANGED <<active, updated, staged, calls, creations>>

UpdatesNext ==
  \/ \E p \in Packages : CreatePackage(p) \/ CancelUpdate(p) \/ CleanupOldUpdates(p)
  \/ \E t \in UpdateTasks :
       \/ \E p \in Packages :
            StartDownload(t, p) \/ StartVerify(t, p) \/ StartInstall(t, p)
       \/ Downloaded(t) \/ DownloadFails(t) \/ MarkVerifying(t)
       \/ (\E passed \in BOOLEAN : Check(t, passed)) \/ ConcludeVerify(t)
       \/ MakeBackup(t) \/ PerformInstallation(t) \/ CompleteInstall(t)
       \/ MoveToHistory(t) \/ AutoRollback(t) \/ InstallFails(t)
  \/ RollbackUpdate

UpdatesSpec == UpdatesInit /\ [][UpdatesNext]_UpdatesVars

-----------------------------------------------------------------------------
(* Properties *)

\* However creations, downloads, verifications, cancellations and installations of
\* one id overlap, move_to_history moves each created package at most once, never
\* leaves it active as well, and moves nothing that was not downloaded unless the id
\* was created again while an older package of it was being installed.
MovedOnce ==
  /\ \A m, n \in updated : m.package = n.package /\ m.creation = n.creation => m = n
  /\ \A m \in updated : m.package \in Listed => m.creation < creations[m.package]
  /\ \A m \in updated : m.path \/ m.renewed
=============================================================================
