---------------------------- MODULE MountDaemon ----------------------------
(***************************************************************************)
(* The fuji daemon's core: the request handlers of daemon/mod.rs, the      *)
(* monitoring loop, and the shared configuration they all read, change and *)
(* save.                                                                   *)
(*                                                                         *)
(* Every handler is a tokio task that runs between two awaits without      *)
(* interruption, so one action is one stretch of code between two awaits.  *)
(* A task waits for the configuration's RwLock, for a mount permit, for an *)
(* external mount or umount command, or for one of the three file          *)
(* operations of Config::save_atomic.  The socket server drops a request   *)
(* that is 30 seconds old at whatever await it stands (TimeOut); the       *)
(* command or file operation it waited for goes on without it, at one of   *)
(* the "late" points.  The daemon may be stopped or killed at any point.   *)
(***************************************************************************)
EXTENDS Naturals, FiniteSets

CONSTANTS
    Shares,          \* the remote shares, each with its own mount id and mount point
    Clients,         \* the connections whose requests run at the same time
    Monitor,         \* the task of run_monitoring_loop
    Main,            \* the task of Daemon::start, which runs cleanup at the end
    NoTask, NoShare, \* no lock holder, no share in hand
    Absent,          \* no entry for a share in a configuration
    Torn,            \* a file opened with O_TRUNC whose content is not yet written
    NoFile,          \* no file under that name; no serialized text in hand
    Requests,        \* the kinds of request the clients send
    NoPersist,       \* the shares that are mounted with --no-persist
    Ephemeral,       \* the daemon was started with --ephemeral
    FirstPoints,     \* where the monitor starts: "boot", or "health" if --no-automount
    Ticking,         \* FALSE: only the 30 seconds before the monitor's first tick
    SlowDisk,        \* a file operation may outlast its request's 30 seconds
    MaxPermits,      \* resource_limits.max_concurrent_mounts
    MaxTries,        \* RetryPolicy::max_attempts
    MaxRestarts      \* bound: how often the daemon is restarted in a behaviour

Tasks == Clients \cup {Monitor, Main}

Statuses == {"Active", "Reconnecting", "Failed", "Disabled", "Error"}

Entry   == [enabled : BOOLEAN, status : Statuses]
Content == [Shares -> Entry \cup {Absent}]
Empty   == [s \in Shares |-> Absent]

\* "removeUnmount" is handle_unmount_request called by handle_remove_request.
ClientOps == {"mount", "mountDisabled", "unmount", "enable", "disable",
              "remove", "removeUnmount", "remount"}
Ops == ClientOps \cup {"auto", "health", "reconnect", "none"}

Job == [op : Ops, share : Shares \cup {NoShare}, prev : Entry \cup {Absent},
        tries : 0..MaxTries]

ASSUME ConstantsDistinct ==
    /\ Monitor \notin Clients /\ Main \notin Clients /\ Monitor # Main
    /\ NoTask \notin Tasks
    /\ NoShare \notin Shares
    /\ Absent \notin Entry
    /\ Torn \notin Content /\ NoFile \notin Content /\ Torn # NoFile

ASSUME ConstantsInRange ==
    /\ IsFiniteSet(Clients)
    /\ Requests \subseteq ClientOps \ {"removeUnmount"}
    /\ NoPersist \subseteq Shares /\ Ephemeral \in BOOLEAN
    /\ FirstPoints \subseteq {"boot", "health"}
    /\ Ticking \in BOOLEAN /\ SlowDisk \in BOOLEAN
    /\ MaxPermits \in Nat /\ MaxTries \in Nat \ {0} /\ MaxRestarts \in Nat

VARIABLES
    mem,      \* the Config behind Arc<RwLock<Config>>
    disk,     \* the content of mounts.toml
    tmp,      \* the content of mounts.tmp while some save uses it
    buf,      \* the text a task serialized for its save
    fd,       \* the file a task has open for writing: the temporary file, the
              \* configuration file once another task renamed it, or neither
    mounted,  \* the shares the kernel has mounted
    permits,  \* free permits of mount_semaphore
    readers, writer,  \* the holders of the RwLock
    waiting, ahead,   \* its FIFO queue: the waiting tasks, and who is before each
    pc, job,  \* where each task stands, and what it works on
    todo,     \* the monitor's snapshot of shares still to be handled
    closing,  \* cleanup's shares still to be unmounted
    boots     \* restarts so far

\* Variables of the properties only: no action reads them.
VARIABLES
    proved,   \* shares some mount command succeeded for, or added with --disable
    unsaved   \* "change": a change was not saved, a later save will write it;
              \* "stray": a half-done write may still replace later ones

lockVars  == <<readers, writer, waiting, ahead>>
fileVars  == <<disk, tmp, buf, fd>>
taskVars  == <<pc, job>>
roundVars == <<todo, closing>>
vars == <<mem, fileVars, mounted, permits, lockVars, taskVars, roundVars, boots,
          proved, unsaved>>

NewJob(op, s) == [op |-> op, share |-> s, prev |-> Absent, tries |-> 0]
NoJob == NewJob("none", NoShare)

-----------------------------------------------------------------------------
(* The RwLock: tokio's is fair, so a task that finds the lock unavailable   *)
(* joins a FIFO queue and every later task, readers too, queues behind it.  *)

ReadPoints  == {"exists", "lookup", "saveRead", "boot", "health", "reconnect",
                "closing"}
WritePoints == {"markActive", "add", "setDisabled", "toggle", "saveWrite",
                "erase", "rollback", "markFailed", "markReconnecting", "markError"}

MyTurn(t) == IF t \in waiting THEN ahead[t] = {} ELSE waiting = {}

CanRead(t)  == MyTurn(t) /\ writer = NoTask
CanWrite(t) == CanRead(t) /\ readers = {}

LeaveQueue(t) ==
    /\ waiting' = waiting \ {t}
    /\ ahead' = [u \in Tasks |-> IF u = t THEN {} ELSE ahead[u] \ {t}]

\* A critical section without an await inside: taken and released in one step.
ReadSection(t)  == CanRead(t)  /\ LeaveQueue(t) /\ UNCHANGED <<readers, writer>>
WriteSection(t) == CanWrite(t) /\ LeaveQueue(t) /\ UNCHANGED <<readers, writer>>

\* A guard that is kept over the awaits that follow.
HoldRead(t) ==
    CanRead(t) /\ LeaveQueue(t) /\ readers' = readers \cup {t} /\ UNCHANGED writer
HoldWrite(t) ==
    CanWrite(t) /\ LeaveQueue(t) /\ writer' = t /\ UNCHANGED readers

Unlock(t) ==
    /\ readers' = readers \ {t}
    /\ writer' = IF writer = t THEN NoTask ELSE writer
    /\ LeaveQueue(t)

AwaitLock(t) ==
    /\ t \notin waiting
    /\ \/ pc[t] \in ReadPoints /\ ~CanRead(t)
       \/ pc[t] \in WritePoints /\ ~CanWrite(t)
    /\ waiting' = waiting \cup {t}
    /\ ahead' = [ahead EXCEPT ![t] = waiting]
    /\ UNCHANGED <<mem, fileVars, mounted, permits, readers, writer, taskVars,
                   roundVars, boots, proved, unsaved>>

-----------------------------------------------------------------------------
(* Moving a task along its handler.                                         *)

Go(t, p) == pc' = [pc EXCEPT ![t] = p]

\* Where a task goes on when the function it called returns.
Caller(op) == CASE op = "auto"          -> "auto"
                [] op = "health"        -> "probe"
                [] op = "reconnect"     -> "redial"
                [] op = "removeUnmount" -> "erase"
                [] OTHER                -> "idle"

\* handle_remove_request ignores the outcome of the unmount it called.
Return(t) ==
    /\ Go(t, Caller(job[t].op))
    /\ job' = [job EXCEPT ![t] = IF job[t].op = "removeUnmount"
                                THEN NewJob("remove", job[t].share) ELSE NoJob]

Share(t) == job[t].share
Present(s) == mem[s] # Absent

SetStatus(s, st) ==
    mem' = [mem EXCEPT ![s] = IF @ = Absent THEN Absent ELSE [@ EXCEPT !.status = st]]

\* params.ephemeral: the daemon's flag, or --no-persist for a mount.
SkipsSave(t) ==
    \/ Ephemeral
    \/ job[t].op \in {"mount", "mountDisabled"} /\ Share(t) \in NoPersist

Unsaved == unsaved' = IF unsaved = "stray" THEN "stray" ELSE "change"

HoldsPermit(t) == /\ job[t].op = "mount"
                  /\ pc[t] \in {"preUnmount", "mountCmd", "markActive"}

\* Faulty: a permit is given back by attempts that never took one.
GiveBackPermitAlways(t) == permits' = permits + 1

\* release_mount_permit, reached on every path out of mount_with_retry.
GiveBackPermit(t) == permits' = IF HoldsPermit(t) THEN permits + 1 ELSE permits

-----------------------------------------------------------------------------
(* Requests                                                                 *)

Begin(c, op, s) ==
    /\ pc[c] = "idle"
    /\ Go(c, CASE op \in {"mount", "mountDisabled"} -> "exists"
               [] op \in {"enable", "disable"}      -> "toggle"
               [] OTHER                             -> "lookup")
    /\ job' = [job EXCEPT ![c] = NewJob(op, s)]
    /\ UNCHANGED <<mem, fileVars, mounted, permits, lockVars, roundVars, boots,
                   proved, unsaved>>

\* Faulty: the share is added before its mount command.
MountExistsAddsFirst(c) ==
    /\ pc[c] = "exists"
    /\ ReadSection(c)
    /\ ~Present(Share(c)) /\ Go(c, "add") /\ UNCHANGED job
    /\ UNCHANGED <<mem, fileVars, mounted, permits, roundVars, boots, proved, unsaved>>

\* A mount is refused when its id is taken or its mount point is not safe.
MountExists(c) ==
    /\ pc[c] = "exists"
    /\ ReadSection(c)
    /\ \/ Return(c)
       \/ /\ ~Present(Share(c))
          /\ Go(c, IF job[c].op = "mount" THEN "permit" ELSE "add")
          /\ UNCHANGED job
    /\ UNCHANGED <<mem, fileVars, mounted, permits, roundVars, boots, proved, unsaved>>

\* Faulty: nobody looks whether a permit is free.
AcquirePermitUnguarded(c) ==
    /\ pc[c] = "permit"
    /\ permits' = permits - 1
    /\ Go(c, "preUnmount")
    /\ UNCHANGED <<mem, fileVars, mounted, lockVars, job, roundVars, boots, proved,
                   unsaved>>

\* acquire_mount_permit forgets the permit: only its caller can give it back.
AcquirePermit(c) ==
    /\ pc[c] = "permit"
    /\ permits > 0
    /\ permits' = permits - 1
    /\ Go(c, "preUnmount")
    /\ UNCHANGED <<mem, fileVars, mounted, lockVars, job, roundVars, boots, proved,
                   unsaved>>

\* mount_single_attempt unmounts what is at the mount point and ignores failure.
PreUnmount(t) ==
    /\ pc[t] = "preUnmount"
    /\ mounted' \in {mounted, mounted \ {Share(t)}}
    /\ Go(t, "mountCmd")
    /\ job' = [job EXCEPT ![t].tries = @ + 1]
    /\ UNCHANGED <<mem, fileVars, permits, lockVars, roundVars, boots, proved, unsaved>>

\* mount_with_retry failed: the handlers return the error, attempt_reconnection
\* records it.
MountFailed(t) ==
    /\ GiveBackPermit(t)
    /\ IF job[t].op = "reconnect" THEN Go(t, "markError") /\ UNCHANGED job
                                  ELSE Return(t)

BreakerOpen(t) ==
    /\ pc[t] = "preUnmount"
    /\ MountFailed(t)
    /\ UNCHANGED <<mem, fileVars, mounted, lockVars, roundVars, boots, proved, unsaved>>

MountSucceeds(t) ==
    /\ pc[t] = "mountCmd"
    /\ mounted' = mounted \cup {Share(t)}
    /\ proved' = proved \cup {Share(t)}
    /\ Go(t, "markActive")
    /\ UNCHANGED <<mem, fileVars, permits, lockVars, job, roundVars, boots, unsaved>>

MountFails(t) ==
    /\ pc[t] = "mountCmd"
    /\ IF job[t].op # "remount" /\ job[t].tries < MaxTries
       THEN Go(t, "preUnmount") /\ UNCHANGED <<job, permits>>
       ELSE MountFailed(t)
    /\ UNCHANGED <<mem, fileVars, mounted, lockVars, roundVars, boots, proved, unsaved>>

\* update_status_after_success, or update_mount_status of a remount.
MarkActive(t) ==
    /\ pc[t] = "markActive"
    /\ WriteSection(t)
    /\ SetStatus(Share(t), "Active")
    /\ GiveBackPermit(t)
    /\ IF job[t].op = "mount" THEN Go(t, "add") /\ UNCHANGED job ELSE Return(t)
    /\ UNCHANGED <<fileVars, mounted, roundVars, boots, proved, unsaved>>

\* Only now does the share enter the configuration; nobody looks again whether
\* its id is still free.
Add(c) ==
    /\ pc[c] = "add"
    /\ WriteSection(c)
    /\ mem' = [mem EXCEPT ![Share(c)] =
                 IF job[c].op = "mount" THEN [enabled |-> TRUE, status |-> "Active"]
                                        ELSE [enabled |-> FALSE, status |-> "Disabled"]]
    /\ proved' = IF job[c].op = "mountDisabled" THEN proved \cup {Share(c)} ELSE proved
    /\ IF SkipsSave(c) THEN Return(c) /\ Unsaved
                       ELSE Go(c, "saveRead") /\ UNCHANGED <<job, unsaved>>
    /\ UNCHANGED <<fileVars, mounted, permits, roundVars, boots>>

\* The snapshot unmount, remove and remount work from.
Lookup(c) ==
    /\ pc[c] = "lookup"
    /\ ReadSection(c)
    /\ LET active == Present(Share(c)) /\ mem[Share(c)].status = "Active"
       IN  CASE job[c].op = "remove" /\ active ->
                   /\ job' = [job EXCEPT ![c].op = "removeUnmount"]
                   /\ UNCHANGED pc
             [] job[c].op = "remove" /\ ~active -> Go(c, "erase") /\ UNCHANGED job
             [] job[c].op = "remount" /\ Present(Share(c)) /\ ~active ->
                   Go(c, "mountCmd") /\ UNCHANGED job
             [] job[c].op # "remove" /\ active -> Go(c, "unmountCmd") /\ UNCHANGED job
             [] OTHER -> Return(c)
    /\ UNCHANGED <<mem, fileVars, mounted, permits, roundVars, boots, proved, unsaved>>

\* umount fails on a path that is not mounted, and may fail on one that is.
UnmountSucceeds(c) ==
    /\ pc[c] = "unmountCmd"
    /\ Share(c) \in mounted
    /\ mounted' = mounted \ {Share(c)}
    /\ CASE job[c].op \in {"unmount", "removeUnmount"} ->
               Go(c, "setDisabled") /\ UNCHANGED <<job, lockVars>>
         [] job[c].op = "remount" -> Go(c, "mountCmd") /\ UNCHANGED <<job, lockVars>>
         [] OTHER -> Return(c) /\ Unlock(c)
    /\ UNCHANGED <<mem, fileVars, permits, roundVars, boots, proved, unsaved>>

UnmountFails(c) ==
    /\ pc[c] = "unmountCmd"
    /\ CASE job[c].op \in {"unmount", "removeUnmount"} -> Return(c) /\ UNCHANGED lockVars
         [] job[c].op = "remount" -> Go(c, "mountCmd") /\ UNCHANGED <<job, lockVars>>
         [] OTHER -> Return(c) /\ Unlock(c)
    /\ UNCHANGED <<mem, fileVars, mounted, permits, roundVars, boots, proved, unsaved>>

\* First write guard of an unmount; the save takes a second one.
SetDisabled(c) ==
    /\ pc[c] = "setDisabled"
    /\ WriteSection(c)
    /\ IF Present(Share(c))
       THEN /\ mem' = [mem EXCEPT ![Share(c)] = [enabled |-> FALSE, status |-> "Disabled"]]
            /\ IF SkipsSave(c)
               THEN Return(c) /\ Unsaved
               ELSE /\ Go(c, "saveWrite")
                    /\ job' = [job EXCEPT ![c].prev = mem[Share(c)]]
                    /\ UNCHANGED unsaved
       ELSE Return(c) /\ UNCHANGED <<mem, unsaved>>
    /\ UNCHANGED <<fileVars, mounted, permits, roundVars, boots, proved>>

\* MountConfig::enable and disable: both set the status to Disabled.
Toggle(c) ==
    /\ pc[c] = "toggle"
    /\ WriteSection(c)
    /\ IF Present(Share(c))
       THEN /\ mem' = [mem EXCEPT ![Share(c)] =
                         [enabled |-> job[c].op = "enable", status |-> "Disabled"]]
            /\ IF SkipsSave(c)
               THEN Return(c) /\ Unsaved
               ELSE /\ Go(c, "saveWrite")
                    /\ job' = [job EXCEPT ![c].prev = mem[Share(c)]]
                    /\ UNCHANGED unsaved
       ELSE Return(c) /\ UNCHANGED <<mem, unsaved>>
    /\ UNCHANGED <<fileVars, mounted, permits, roundVars, boots, proved>>

\* remove_mount, under the guard that is kept for the save; also the first step
\* of a failed mount's rollback, which asks for the write guard while this very
\* task still holds a read guard.
Erase(c) ==
    /\ pc[c] \in {"erase", "rollback"}
    /\ mem' = [mem EXCEPT ![Share(c)] = Absent]
    /\ CASE pc[c] = "rollback" -> /\ WriteSection(c)
                                  /\ IF job[c].op = "mount"
                                     THEN Go(c, "unmountCmd") /\ UNCHANGED job
                                     ELSE Return(c)
                                  /\ UNCHANGED <<buf, unsaved>>
         [] SkipsSave(c) -> WriteSection(c) /\ Return(c) /\ Unsaved /\ UNCHANGED buf
         [] OTHER -> /\ HoldWrite(c) /\ Go(c, "trunc")
                     /\ buf' = [buf EXCEPT ![c] = mem']
                     /\ UNCHANGED <<job, unsaved>>
    /\ UNCHANGED <<disk, tmp, fd, mounted, permits, roundVars, boots, proved>>

-----------------------------------------------------------------------------
(* Config::save_atomic.  A mount saves under a read guard, so two mounts may *)
(* be here together, on one temporary file; the others save under a write    *)
(* guard.                                                                    *)

SavePoints == {"trunc", "data", "rename"}

\* What is left in the temporary file when no save is using it is never read: the
\* next save opens it with O_TRUNC.
LeftBy(c, content) ==
    IF \E u \in Clients \ {c} : pc[u] \in {"data", "rename", "lateData", "lateRename"}
    THEN content ELSE NoFile

\* Faulty: every save is made under a read guard.
BeginSaveUnderRead(c) ==
    /\ pc[c] \in {"saveRead", "saveWrite"} /\ HoldRead(c)
    /\ buf' = [buf EXCEPT ![c] = mem]
    /\ Go(c, "trunc")
    /\ UNCHANGED <<mem, disk, tmp, fd, mounted, permits, job, roundVars, boots,
                   proved, unsaved>>

\* Faulty: the guard is dropped once the text is serialized, before it is written.
BeginSaveUnguarded(c) ==
    /\ pc[c] \in {"saveRead", "saveWrite"} /\ ReadSection(c)
    /\ buf' = [buf EXCEPT ![c] = mem]
    /\ Go(c, "trunc")
    /\ UNCHANGED <<mem, disk, tmp, fd, mounted, permits, job, roundVars, boots,
                   proved, unsaved>>

BeginSave(c) ==
    /\ \/ pc[c] = "saveRead" /\ HoldRead(c)
       \/ pc[c] = "saveWrite" /\ HoldWrite(c)
    /\ buf' = [buf EXCEPT ![c] = mem]
    /\ Go(c, "trunc")
    /\ UNCHANGED <<mem, disk, tmp, fd, mounted, permits, job, roundVars, boots,
                   proved, unsaved>>

\* Faulty: the save opens mounts.toml itself.
OpenInPlace(c) ==
    /\ pc[c] \in {"trunc", "lateTrunc"}
    /\ disk' = Torn
    /\ fd' = [fd EXCEPT ![c] = "disk"]
    /\ Go(c, IF pc[c] = "trunc" THEN "data" ELSE "lateData")
    /\ UNCHANGED <<mem, tmp, buf, mounted, permits, lockVars, job, roundVars, boots,
                   proved, unsaved>>

\* fs::write runs on a blocking thread: open with O_TRUNC, then write.
OpenTmp(c) ==
    /\ pc[c] \in {"trunc", "lateTrunc"}
    /\ tmp' = Torn
    /\ fd' = [fd EXCEPT ![c] = "tmp"]
    /\ Go(c, IF pc[c] = "trunc" THEN "data" ELSE "lateData")
    /\ UNCHANGED <<mem, disk, buf, mounted, permits, lockVars, job, roundVars, boots,
                   proved, unsaved>>

\* The text goes to the file that was opened, whatever its name is by now.
WriteData(c) ==
    /\ pc[c] \in {"data", "lateData"}
    /\ LET written == IF fd[c] = "tmp" THEN buf[c] ELSE tmp
       IN  tmp' = IF pc[c] = "data" THEN written ELSE LeftBy(c, written)
    /\ disk' = IF fd[c] = "disk" THEN buf[c] ELSE disk
    /\ buf' = [buf EXCEPT ![c] = NoFile]
    /\ fd' = [fd EXCEPT ![c] = "none"]
    /\ IF pc[c] = "data" THEN Go(c, "rename") /\ UNCHANGED job ELSE Return(c)
    /\ UNCHANGED <<mem, mounted, permits, lockVars, roundVars, boots, proved, unsaved>>

\* rename(2) of mounts.tmp to mounts.toml, by name: files open elsewhere move too.
RenameTmp ==
    /\ tmp # NoFile
    /\ disk' = tmp
    /\ tmp' = NoFile
    /\ fd' = [u \in Tasks |-> CASE fd[u] = "tmp"  -> "disk"
                                [] fd[u] = "disk" -> "gone"
                                [] OTHER          -> fd[u]]

Rename(c) ==
    /\ pc[c] = "rename"
    /\ RenameTmp
    /\ unsaved' = IF unsaved = "stray" THEN "stray" ELSE "no"
    /\ Unlock(c)
    /\ Return(c)
    /\ UNCHANGED <<mem, buf, mounted, permits, roundVars, boots, proved>>

\* A save fails at any of its operations, the rename also because another save
\* took the temporary file away.  Each handler undoes its change in its own way:
\* an unmount restores the old status, enable and disable the old flag, a remove
\* nothing; a mount goes to its rollback with the read guard still in scope.
SaveFails(c) ==
    /\ pc[c] \in SavePoints
    /\ IF pc[c] = "data" THEN unsaved' = "stray" ELSE Unsaved
    /\ tmp' = LeftBy(c, tmp)
    /\ buf' = [buf EXCEPT ![c] = NoFile]
    /\ fd' = [fd EXCEPT ![c] = "none"]
    /\ LET s == Share(c)  old == job[c].prev
       IN  CASE job[c].op \in {"mount", "mountDisabled"} ->
                   Go(c, "rollback") /\ UNCHANGED <<mem, job, lockVars>>
             [] job[c].op \in {"unmount", "removeUnmount"} ->
                   SetStatus(s, old.status) /\ Return(c) /\ Unlock(c)
             [] job[c].op \in {"enable", "disable"} ->
                   /\ mem' = [mem EXCEPT ![s] = IF @ = Absent THEN Absent ELSE
                                                [@ EXCEPT !.enabled = old.enabled]]
                   /\ Return(c) /\ Unlock(c)
             [] OTHER -> Return(c) /\ Unlock(c) /\ UNCHANGED mem
    /\ UNCHANGED <<disk, mounted, permits, roundVars, boots, proved>>

-----------------------------------------------------------------------------
(* A request older than connection_timeout is dropped at the await it stands *)
(* at: its guard and its place in the queue go with it, the permit it forgot *)
(* does not come back.  SecureCommand starts its command without             *)
(* kill_on_drop and a blocking file operation cannot be cancelled, so either *)
(* may still take effect, later and without the lock.                        *)

LatePoints == {"lateTrunc", "lateData", "lateRename", "lateUmount", "lateMount"}

LateOf(p) == CASE p = "trunc"  -> "lateTrunc"
               [] p = "data"   -> "lateData"
               [] p = "rename" -> "lateRename"
               [] p \in {"preUnmount", "unmountCmd"} -> "lateUmount"
               [] p = "mountCmd" -> "lateMount"
               [] OTHER -> "idle"

\* Faulty: a request that waits in its rollback is not dropped.
TimeOutButRollback(c) ==
    /\ pc[c] \notin {"idle", "rollback"} \cup LatePoints
    /\ Go(c, LateOf(pc[c]))
    /\ job' = [job EXCEPT ![c] = IF LateOf(pc[c]) = "idle" THEN NoJob
                                ELSE [@ EXCEPT !.op = "none", !.prev = Absent]]
    /\ Unlock(c)
    /\ UNCHANGED <<mem, fileVars, mounted, permits, roundVars, boots, proved, unsaved>>

TimeOut(c) ==
    /\ pc[c] \notin {"idle"} \cup LatePoints
    /\ pc[c] \in SavePoints => SlowDisk
    /\ Go(c, LateOf(pc[c]))
    /\ job' = [job EXCEPT ![c] = IF LateOf(pc[c]) = "idle" THEN NoJob
                                ELSE [@ EXCEPT !.op = "none", !.prev = Absent]]
    /\ Unlock(c)
    /\ IF pc[c] \in SavePoints THEN unsaved' = "stray"
       ELSE IF pc[c] \in {"saveRead", "saveWrite", "rollback"} THEN Unsaved
       ELSE UNCHANGED unsaved
    /\ UNCHANGED <<mem, fileVars, mounted, permits, roundVars, boots, proved>>

LateRename(c) ==
    /\ pc[c] = "lateRename"
    /\ RenameTmp \/ (tmp' = LeftBy(c, tmp) /\ UNCHANGED <<disk, fd>>)
    /\ Return(c)
    /\ UNCHANGED <<mem, buf, mounted, permits, lockVars, roundVars, boots, proved,
                   unsaved>>

LateCommand(c) ==
    /\ \/ /\ pc[c] = "lateUmount"
          /\ mounted' \in {mounted, mounted \ {Share(c)}}
          /\ UNCHANGED proved
       \/ /\ pc[c] = "lateMount"
          /\ mounted' \in {mounted, mounted \cup {Share(c)}}
          /\ proved' = proved \cup mounted'
    /\ Return(c)
    /\ UNCHANGED <<mem, fileVars, permits, lockVars, roundVars, boots, unsaved>>

-----------------------------------------------------------------------------
(* The monitoring loop.  Each of its rounds works through snapshots of the   *)
(* configuration; nothing looks again at what changed meanwhile.             *)

WithStatus(st) == {s \in Shares : Present(s) /\ mem[s].status = st}
EnabledWith(st) == {s \in WithStatus(st) : mem[s].enabled}

Snapshot(p, next, shares) ==
    /\ pc[Monitor] = p
    /\ ReadSection(Monitor)
    /\ todo' = shares
    /\ Go(Monitor, next)
    /\ UNCHANGED <<mem, fileVars, mounted, permits, job, closing, boots, proved,
                   unsaved>>

\* auto_mount_enabled_shares, skipped with --no-automount.
AutoMountSet == Snapshot("boot", "auto", EnabledWith("Disabled"))
HealthSet    == Ticking /\ Snapshot("health", "probe", WithStatus("Active"))

\* Faulty: the round looks for the shares with an error.
ReconnectSetOfErrors ==
    \E due \in SUBSET EnabledWith("Error") :
        Snapshot("reconnect", "redial", due)

\* The failed shares whose backoff delay has passed.
ReconnectSet ==
    \E due \in SUBSET EnabledWith("Failed") :
        Snapshot("reconnect", "redial", due)

\* The monitor takes the next share of its snapshot and goes to p with it.
Take(s, op, from, to) ==
    /\ pc[Monitor] = from
    /\ todo' = todo \ {s}
    /\ Go(Monitor, to)
    /\ job' = [job EXCEPT ![Monitor] =
                 IF op = "none" THEN NoJob ELSE NewJob(op, s)]
    /\ UNCHANGED <<mem, fileVars, mounted, permits, lockVars, closing, boots, proved,
                   unsaved>>

AutoMount(s) == s \in todo /\ Take(s, "auto", "auto", "preUnmount")

\* The probe writes a file under the mount point and reads it back: it can fail
\* on a mounted share and can succeed on the bare directory.
Healthy(s)   == s \in todo /\ Take(s, "none", "probe", "probe")
Unhealthy(s) == s \in todo /\ Take(s, "health", "probe", "markFailed")

\* attempt_reconnection: nothing is done while the share's breaker is open.
SkipRedial(s) == s \in todo /\ Take(s, "none", "redial", "redial")
Redial(s)     == s \in todo /\ Take(s, "reconnect", "redial", "markReconnecting")

EndOfRound ==
    /\ todo = {}
    /\ \/ pc[Monitor] \in {"auto", "redial"} /\ Go(Monitor, "health")
       \/ pc[Monitor] = "probe" /\ Go(Monitor, "reconnect")
    /\ UNCHANGED <<mem, fileVars, mounted, permits, lockVars, job, roundVars, boots,
                   proved, unsaved>>

MarkFailed ==
    /\ pc[Monitor] = "markFailed"
    /\ WriteSection(Monitor)
    /\ SetStatus(Share(Monitor), "Failed")
    /\ Return(Monitor)
    /\ UNCHANGED <<fileVars, mounted, permits, roundVars, boots, proved, unsaved>>

MarkReconnecting ==
    /\ pc[Monitor] = "markReconnecting"
    /\ WriteSection(Monitor)
    /\ SetStatus(Share(Monitor), "Reconnecting")
    /\ Go(Monitor, "preUnmount")
    /\ UNCHANGED <<fileVars, mounted, permits, job, roundVars, boots, proved, unsaved>>

\* update_status_to_failed is always given the error's text, so the status is
\* Error, not Failed.
MarkError ==
    /\ pc[Monitor] = "markError"
    /\ WriteSection(Monitor)
    /\ SetStatus(Share(Monitor), "Error")
    /\ Return(Monitor)
    /\ UNCHANGED <<fileVars, mounted, permits, roundVars, boots, proved, unsaved>>

-----------------------------------------------------------------------------
(* Shutdown, crashes and restarts                                            *)

Signal ==
    /\ pc[Main] = "up"
    /\ boots < MaxRestarts
    /\ Go(Main, "closing")
    /\ UNCHANGED <<mem, fileVars, mounted, permits, lockVars, job, roundVars, boots,
                   proved, unsaved>>

\* cleanup keeps its read guard until the process ends; it saves nothing.
Cleanup ==
    /\ pc[Main] = "closing"
    /\ HoldRead(Main)
    /\ closing' = WithStatus("Active")
    /\ Go(Main, "closeCmd")
    /\ UNCHANGED <<mem, fileVars, mounted, permits, job, todo, boots, proved, unsaved>>

CloseShare(s) ==
    /\ pc[Main] = "closeCmd"
    /\ s \in closing
    /\ closing' = closing \ {s}
    /\ mounted' \in {mounted, mounted \ {s}}
    /\ UNCHANGED <<mem, fileVars, permits, lockVars, taskVars, todo, boots, proved,
                   unsaved>>

\* A new process: Config::load takes the defaults when the file does not parse.
Loaded == IF disk = Torn THEN Empty ELSE disk

Fresh(m) == [t \in Tasks |-> CASE t = Monitor -> m [] t = Main -> "up" [] OTHER -> "idle"]

Boot ==
    /\ mem' = Loaded
    /\ buf' = [t \in Tasks |-> NoFile]
    /\ fd' = [t \in Tasks |-> "none"]
    /\ permits' = MaxPermits
    /\ readers' = {} /\ writer' = NoTask
    /\ waiting' = {} /\ ahead' = [t \in Tasks |-> {}]
    /\ \E m \in FirstPoints : pc' = Fresh(m)
    /\ job' = [t \in Tasks |-> NoJob]
    /\ todo' = {} /\ closing' = {}
    /\ boots' = boots + 1
    /\ tmp' = NoFile
    /\ unsaved' = "no"
    /\ UNCHANGED <<disk, proved>>

Exit ==
    /\ pc[Main] = "closeCmd"
    /\ closing = {}
    /\ Boot
    /\ UNCHANGED mounted

\* The process is killed, or the whole host goes down and loses its mounts.
Crash ==
    /\ boots < MaxRestarts
    /\ Boot
    /\ mounted' \in {mounted, {}}

-----------------------------------------------------------------------------
Init ==
    /\ mem = Empty /\ disk = Empty /\ tmp = NoFile
    /\ buf = [t \in Tasks |-> NoFile]
    /\ fd = [t \in Tasks |-> "none"]
    /\ mounted = {}
    /\ permits = MaxPermits
    /\ readers = {} /\ writer = NoTask
    /\ waiting = {} /\ ahead = [t \in Tasks |-> {}]
    /\ \E m \in FirstPoints : pc = Fresh(m)
    /\ job = [t \in Tasks |-> NoJob]
    /\ todo = {} /\ closing = {}
    /\ boots = 0
    /\ proved = {} /\ unsaved = "no"

ClientStep(c) ==
    \/ MountExists(c) \/ AcquirePermit(c) \/ Add(c)
    \/ Lookup(c) \/ UnmountSucceeds(c) \/ UnmountFails(c)
    \/ SetDisabled(c) \/ Toggle(c) \/ Erase(c)
    \/ BeginSave(c) \/ OpenTmp(c) \/ WriteData(c) \/ Rename(c) \/ SaveFails(c)
    \/ LateRename(c) \/ LateCommand(c)

\* mount_with_retry, run by clients and by the monitor.
Attempt(t) ==
    \/ PreUnmount(t) \/ BreakerOpen(t) \/ MountSucceeds(t) \/ MountFails(t)
    \/ MarkActive(t)

MonitorStep ==
    \/ AutoMountSet \/ HealthSet \/ ReconnectSet
    \/ \E s \in Shares : \/ AutoMount(s) \/ Healthy(s) \/ Unhealthy(s)
                         \/ SkipRedial(s) \/ Redial(s)
    \/ EndOfRound \/ MarkFailed \/ MarkReconnecting \/ MarkError

MainStep == Cleanup \/ (\E s \in Shares : CloseShare(s)) \/ Exit

Next ==
    \/ \E c \in Clients : \/ \E op \in Requests, s \in Shares : Begin(c, op, s)
                          \/ ClientStep(c) \/ TimeOut(c)
    \/ \E t \in Clients \cup {Monitor} : Attempt(t)
    \/ MonitorStep
    \/ \E t \in Tasks : AwaitLock(t)
    \/ Signal \/ MainStep \/ Crash

Spec == Init /\ [][Next]_vars

\* Tasks that can go on do so: tokio schedules every ready task, commands end
\* within the 30 seconds of SecureCommand::output, file operations end, and the
\* server's timer drops what takes longer.  A backoff delay passes and an open
\* breaker lets an attempt through after its timeout, so neither can put off one
\* share for ever.  No client has to send a request and nobody has to stop the
\* daemon.
Fairness ==
    /\ \A c \in Clients : WF_vars(ClientStep(c)) /\ WF_vars(TimeOut(c))
    /\ \A t \in Clients \cup {Monitor} : WF_vars(Attempt(t))
    /\ \A t \in Tasks : WF_vars(AwaitLock(t))
    /\ WF_vars(MonitorStep) /\ WF_vars(MainStep)
    /\ \A s \in Shares : /\ SF_vars(ReconnectSet /\ s \in todo')
                         /\ SF_vars(Redial(s))

FairSpec == Spec /\ Fairness

-----------------------------------------------------------------------------
Points == ReadPoints \cup WritePoints \cup SavePoints \cup LatePoints \cup
          {"idle", "permit", "preUnmount", "mountCmd", "unmountCmd", "auto", "probe",
           "redial", "up", "closeCmd"}

\* Every variable has its type.
TypeOK ==
    /\ mem \in Content
    /\ disk \in Content \cup {Torn}
    /\ tmp \in Content \cup {Torn, NoFile}
    /\ buf \in [Tasks -> Content \cup {NoFile}]
    /\ fd \in [Tasks -> {"none", "tmp", "disk", "gone"}]
    /\ mounted \subseteq Shares /\ proved \subseteq Shares
    /\ permits \in Nat
    /\ readers \subseteq Tasks /\ writer \in Tasks \cup {NoTask}
    /\ waiting \subseteq Tasks /\ ahead \in [Tasks -> SUBSET Tasks]
    /\ pc \in [Tasks -> Points]
    /\ job \in [Tasks -> Job]
    /\ todo \subseteq Shares /\ closing \subseteq Shares
    /\ boots \in Nat
    /\ unsaved \in {"no", "change", "stray"}

\* The guards of the RwLock are where the handlers believe to have them, no more
\* and no less: a save keeps the one it was entered with until it is over, a mount
\* takes its read guard into the rollback, and a request that returned, failed or
\* was dropped has none.
Saving(t) == pc[t] \in SavePoints
ByMount(t) == job[t].op \in {"mount", "mountDisabled"}
KeepsReadGuard(t) == ByMount(t) /\ (Saving(t) \/ pc[t] = "rollback")
KeepsWriteGuard(t) == ~ByMount(t) /\ Saving(t)
LockDiscipline ==
    /\ writer # NoTask => readers = {}
    /\ writer \in Clients \cup {NoTask}
    /\ \A c \in Clients : /\ c \in readers <=> KeepsReadGuard(c)
                          /\ writer = c <=> KeepsWriteGuard(c)
    /\ Monitor \notin readers
    /\ Main \in readers <=> pc[Main] = "closeCmd"

\* mount_semaphore never has more permits than it began with, whichever way a
\* mount ends: a permit is given back at most once.
Holders == {c \in Clients : HoldsPermit(c)}
PermitsBounded == permits + Cardinality(Holders) <= MaxPermits

\* "Config is only saved AFTER successful mount operations": a share that was
\* never mounted, nor added with --disable, is in no configuration, no file and
\* no text being saved, through crashes, failed saves and concurrent mounts.
Stored == {mem, disk, tmp} \cup {buf[t] : t \in Tasks}
OnlyProven ==
    \A content \in Stored \ {Torn, NoFile} :
        \A s \in Shares : content[s] # Absent => s \in proved

\* What the user asked for: which shares there are, and which are enabled.
Intent(content) == [s \in Shares |-> IF content = Torn \/ content[s] = Absent
                                      THEN "absent"
                                      ELSE IF content[s].enabled THEN "enabled"
                                                                 ELSE "disabled"]

\* When no request is under way and none of the changes since the start failed
\* to be saved, the file says what the daemon's memory says, so that a crash now
\* loses nothing, however the requests interleaved.
DurableIntent ==
    (unsaved = "no" /\ \A c \in Clients : pc[c] = "idle")
        => Intent(disk) = Intent(mem)

\* No task waits for the configuration for ever, whoever holds it: a guard kept
\* by a mount whose rollback waits for itself goes when its request is dropped.
LockGranted == \A t \in Tasks : t \in waiting ~> t \notin waiting

Wanted(s, st) == Present(s) /\ mem[s].enabled /\ mem[s].status = st

\* A share the health check found broken does not stay so: a later round tries to
\* reconnect it, or a request changes it.
FailedIsRetried == \A s \in Shares : Wanted(s, "Failed") ~> ~Wanted(s, "Failed")

\* What a crash can lose: mounts.toml is only ever replaced by what the daemon's
\* memory says at that moment, and a start brings back exactly what was stored.
Store == INSTANCE ConfigStore
           WITH current <- Intent(mem), stored <- Intent(disk), starts <- boots
StoreSpec == Store!Spec

\* Claims of the documents and comments that the code does not keep.

\* The configuration file never loses its content to a save that is under way.
NeverTorn == disk # Torn

\* A mount that could not be saved is taken out of the configuration again before
\* its request ends.
RolledBack ==
    [][\A c \in Clients : (pc[c] = "rollback" /\ pc'[c] = "idle" /\ boots' = boots)
                             => mem'[Share(c)] = Absent]_vars

\* A share mounted with --no-persist does not get into the configuration file.
NoPersistStaysOffDisk == disk # Torn => \A s \in NoPersist : disk[s] = Absent

\* After a restart with auto-mounting every enabled share that is not mounted is
\* mounted, or at least tried, or the user no longer wants it.
Trying(s) == \E t \in Tasks : Share(t) = s /\ pc[t] \in {"preUnmount", "mountCmd"}
Enabled(s) == Present(s) /\ mem[s].enabled
RemountedAfterRestart ==
    \A s \in Shares :
        (boots > 0 /\ pc[Monitor] = "boot" /\ Enabled(s))
            ~> (s \in mounted \/ Trying(s) \/ ~Enabled(s))
=============================================================================
