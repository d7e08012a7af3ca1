# fuji: models and proofs

fuji mounts network shares (NFS, SMB, SSHFS) and keeps them mounted. One daemon
holds a configuration in memory, saves it to `mounts.toml`, answers requests of
the command line on a Unix socket, checks the shares every 30 seconds and
reconnects those that failed. Around it stand a cluster that synchronises
configurations, a health scheduler, and a library of security services: path
checks, credential stores, a secured configuration, audit, updates, filters and
isolation. This directory holds TLA+ modules of these parts where steps of several tasks,
failures, restarts or tables with many cases meet, the TLC configurations that
check them, and proofs checked by TLAPS.

Paths below are relative to the repository's sources; `daemon/mod.rs` is
`src/daemon/mod.rs` and so on.

## 1. Inventory

| Component | State | Operations | Talks to |
|---|---|---|---|
| Daemon (`daemon/mod.rs`) | `Arc<RwLock<Config>>`, one task per request, the monitoring task, `start` | mount, unmount, enable, disable, remove, remount, (status, list, doctor, ... only read), the rounds of the monitor, shutdown | everything below |
| Configuration file (`config/mod.rs`) | `mounts.toml`, `mounts.tmp` | `save_atomic`, `load` | called under the configuration's lock |
| Retry coordinator (`monitoring/mount_retry.rs`) and breaker (`monitoring/retry.rs`) | circuit breaker and policy per share | `mount_with_retry`, `attempt_reconnection`, `execute_with_retry` | drivers, the configuration's lock |
| Mount permits, resource monitors (`security/resource_limits.rs`) | semaphores; usage, violations and stamps behind four locks | acquire, release; sample, report, `enforce_limits` | mount requests |
| Drivers and commands (`mount/drivers/`) | one process-wide profile; the kernel's mounts | checks, `mount`, `unmount`, `SecureCommand::output` | external commands |
| Options (`mount/options.rs`, `mount/drivers/options.rs`) | none | parse, validate, merge with defaults | mount requests, drivers |
| Names (`mount/mod.rs`, `mount/drivers/validation.rs`) | the ids and mount points configured | url checks, `generate_id`, `generate_mount_point` | mount requests |
| Path security (`security/path_security.rs`) | registered mounts, blocked paths, a log of events | `validate_path`, `register_mount`, integrity report | mount requests, the monitor |
| Socket server, limiter (`socket/mod.rs`) | semaphore, `client_connections`, `metrics` | accept, refuse, release, cleanup | spawns one task per connection, drops it after 30 s |
| State machine (`mount/state_machine.rs`) | state, history | `transition` | nothing: the handlers set the status directly |
| Sync coordinator (`sync/coordinator.rs`), merge (`sync/merge.rs`) | pending syncs, version, peers' answers | start a sync, answer, merge, propagate | cluster, configuration |
| Cluster (`cluster/`, `network/tcp.rs`, `cli/cluster.rs`) | peers, instance ids, connections | join, leave, update, connect, send | sync coordinator, configuration file |
| Health scheduler, dependencies (`monitoring/`) | registry and jobs; the graph and its two indexes | add, remove, start, stop, trigger; order | daemon |
| Credential providers (`security/mod.rs`, `file_provider.rs`, `keyring_provider.rs`, `env_provider.rs`) | the environment, an encrypted file, the keyring | store, get, delete | drivers |
| Encryption, key derivation, hardware keys (`security/encryption.rs`, `key_derivation.rs`, `hardware_credential_provider.rs`) | sealed records, parameters, key store and cache | encrypt, decrypt, tune, store, rotate | credential providers |
| Credential backups (`security/credential_backup.rs`) | the list and what each strategy stores | create, delete, clean up | stores |
| Secured configuration (`security/config_security.rs`) | file, backups, history, lock table | save, load, restore, roll back, lock | files |
| Secure socket (`security/secure_socket.rs`) | message history, sessions, a stream | verify, count, send, receive | its two ends |
| Filters, isolation (`security/seccomp.rs`, `process_isolation.rs`) | programs in the kernel; processes and what is known of them | initialise, execute, terminate, clean up | the system |
| Audit, monitoring, intrusion detection, dashboard, runtime integrity (`security/audit_logging.rs`, `audit_monitoring.rs`, `intrusion_detection.rs`, `security_dashboard.rs`, `integrity.rs`) | chain and log files; histories, rules, alerts; metrics; a baseline | log, rotate, analyse, alert, export, check | one another's events |
| Secure updates (`security/secure_updates.rs`) | active updates and history | create, download, verify, install, roll back, cancel | files |
| Command line, platform, progress, probes, discovery, small security helpers | see `PROJECT.json` | | |

### What is hard here, and what makes a component correct

* **Daemon.** Every handler is an async function that reads the configuration,
  releases its lock, runs commands that may take seconds, and comes back to a
  configuration others have changed. A request is dropped at any await when it
  is 30 seconds old; a command or file operation it waited for goes on without
  it. Correct: guards are held where the handlers believe (`LockDiscipline`),
  permits are not multiplied (`PermitsBounded`), only shares that were mounted
  get into the configuration (`OnlyProven`), nobody waits for ever
  (`LockGranted`), a broken share is tried again (`FailedIsRetried`).
* **Configuration file.** Four steps with three awaits, any of which may fail, be
  overtaken, or be the last one before a crash. Correct: the file always holds
  what the memory held at one moment (`StoreSpec`), and when nothing is under
  way it holds what the memory holds (`DurableIntent`).
* **Connection limiter.** Counts kept in three places under two mutexes and a
  semaphore, released by a task of its own after the connection is gone, and
  forgotten by a cleanup task. Correct: no permit is lost (`NoPermitLost`), the
  limits hold (`ClientsBounded`), the metric follows (`MetricsClose`).
* **Cluster.** State read under one guard and applied under another; a write guard
  held over an await that asks for the read guard; a flag that survives a restart
  in a file; processes that create the same identity; entries made and dropped by
  two tasks; the command line writing the file beside the daemon.
* **Services.** Checks and effects in separate awaits (breaker, state machine,
  scheduler, locks, backups, audit chain, updates, message history), tables whose
  slots replace each other, lists that two clean-ups sort, buffers that are trimmed
  while they are counted.
* **The way of a mount request.** Three lists of options, three namings and two
  checks of a path are computed apart and must agree about one share; the process
  keeps a profile from its first command; links change between the looks at a path.
* **Secrets.** A whole file is loaded, changed in a copy and renamed without a lock,
  with a fallback to the next provider; what was sealed must open for its writer
  alone.

`PROJECT.json` lists each place in the code where something of this kind can go
wrong ("hazards") and the properties that would notice.

## 2. Modules

Each component has a module of its own, which says in its head what one step is.

| Module | What it models |
|---|---|
| `MountDaemon` | the request handlers, the monitoring loop, shutdown and restart, the configuration's lock, permits, `save_atomic` |
| `ConfigStore` | what the configuration file promises, in three actions: a change, a save of all of it, a start with what was stored (counted, so that nothing but a start brings stored content back) |
| `ConnectionLimiter` | the accept loop, the limiter, its release and cleanup tasks |
| `SyncCoordinator` | periodic and forced syncs, their tasks and timers, answers, the flag in the file, restarts |
| `ClusterState` | the peer table, the messages that touch it, the version updates raise |
| `InstanceIdentity` | the id of each member, in all its processes |
| `ClusterTransport` | accept loop, connection tasks, dialling, the table of connections |
| `CommandLine` | `mounts.toml` between the daemon and the cluster commands |
| `ConfigMerge` | `merge_configs`, against what a merge promises |
| `RetryBreaker` | callers of one mount and the breaker they share |
| `MountStateMachine` | `transition` in its three awaits |
| `DependencyGraph` | the graph with petgraph's renumbering, and the two indexes |
| `HealthScheduler` | registration, removal, triggered checks |
| `ResourceMonitor` | the monitors, the report and `enforce_limits` on four fair locks |
| `MountOptions` | parser, defaults, allowlist, merge: operators over lists of options |
| `MountCommand` | a request from the driver's checks to the command's end and the answer |
| `MountNaming` | url checks, the two ids, the mount point |
| `PathSecurity` | one `validate_path` call while links change |
| `MountIntegrity` | one share's directory, registration, loop and report |
| `CredentialStore` | the three providers behind the manager, step by step |
| `SealedStore` | the record on disk, written, altered and opened |
| `HardwareCredentials` | store, get and rotate over a key store and its cache |
| `KeyDerivation` | parameters per function and level, the cache, `auto_tune` |
| `CredentialBackup` | creating, deleting and cleaning up backups |
| `ConfigSecurity`, `ConfigLocks` | one secured file; the lock table and access list |
| `SecureSocket` | verification and sessions of a context; frames of a stream |
| `Seccomp` | the program of a profile, its verdicts, the filters installed |
| `ProcessIsolation` | processes made by clone or unshare, what is tracked, sandboxes |
| `RuntimeIntegrity` | monitoring rounds against a baseline; the memory protector |
| `SecurityDashboard` | events, alerts, snapshots, score and export |
| `AuditLog`, `AuditMonitor`, `IntrusionDetection` | the chain and its files; alerts over a history; rules over a buffer |
| `SecureUpdates` | packages between the calls that work on them |
| `MC...` and `.cfg` | the instances for TLC |
| `MountDaemonProofs`, `MountDaemonSafety`, `MountDaemonDurability` | proofs about the daemon: types and guards; locks, permits and what gets stored; the file |
| `ConnectionLimiterProofs`, `ServiceProofs`, `SecurityProofs`, `ComponentProofs` | proofs about the limiter, the ten parts of `MCServices`, the security library, and the cluster with the parts of `MCComponents` together |

Which definition stands for which lines is in `PROJECT.json` "map". Common to all
modules: one action is the code between two awaits (or between two system calls,
where the file system or the kernel may change in between); a guard kept over an
await is in the state; where a failing call leaves something behind (a flag, an
entry, half a file, a job) or changes what comes next, the failure is an action of its own
or a choice; a failure that ends a call with nothing changed is the action not taken;
time is the age of what ages, no further than it matters.

### MountDaemon

One action is the code a task runs between two awaits. `pc[t]` names the await
at which task `t` stands and `job[t]` what it works on: the request, the share,
the entry it replaced (for the undo of a failed save) and the attempts so far.

| In the module | In the code |
|---|---|
| `mem` | the `Config` behind `Arc<RwLock<Config>>`; of each entry the `enabled` flag and the `status` |
| `readers`, `writer`, `waiting`, `ahead` | tokio's `RwLock`: its holders, and its FIFO queue (who waits, and who is before whom). Readers queue behind a waiting writer |
| `disk`, `tmp`, `buf`, `fd` | `mounts.toml`, `mounts.tmp`, the serialized text of each save, and the file each save has open. A file keeps its writer when it is renamed |
| `permits` | `mount_semaphore` |
| `mounted` | what the kernel has mounted |
| `todo`, `closing` | the monitor's and the shutdown's snapshots |
| `proved`, `unsaved` | history, for the properties only |

`ClientStep`, `Attempt` (`mount_with_retry`, shared by requests and monitor),
`MonitorStep` and `MainStep` are the handlers. `Erase` is both the removal of a
`remove` request, under the guard its save keeps, and the rollback of a mount,
under a guard of its own. `TimeOut` drops a request; a save that was at a file
operation or a request that was at a command goes on at one of the `LatePoints`,
without a guard. The wait for a permit has a timeout of its own, of the same 30
seconds and with the same effect, so it is `TimeOut` too. `Crash` may happen
between any two steps, with the kernel's mounts (the process is killed) or
without (the host restarts). `Boot` loads what the file holds, the defaults if
it does not parse.

Left to a choice: whether a command, a file operation, a check of a mount
request or a probe succeeds; whether the circuit breaker refuses; which shares'
backoff has passed; every delay. The only reachable branch of
`acquire_mount_permit` is the queuing one (`enable_queuing` is true in the only
configuration the daemon uses). Shares stand for mount ids: the handlers derive
the id from the url, so one share is one id and one mount point.

### ConnectionLimiter

`acc` is the accept loop, which handles one connection attempt at a time;
`conn[k]` is first a connection, then the task its permit spawns when it is
dropped; `cleaner` is the cleanup task. Two mutexes guard the map of clients and
the metrics. The points where a task holds one and waits for the other are
states of their own (`"refuse"`, `"settle"`, `"sum"`), so who holds a mutex
follows from where the tasks stand. `known` is the set of clients in the map and
`entry` what it says of them. Time is kept as the age of connections, timestamps and
clients, each no further than it matters; a tick passes only while nobody
computes.


### The cluster

`SyncCoordinator`: a sync is a task that asks, sleeps and times out, and an entry
of `pending_syncs`; the table's guards that are kept over an await are states of
the sync that keeps them, so a handler that waits for its own guard is a state
from which nothing leads. A forced sync runs in a request, which the socket drops
after 30 s (`DropForced`); any answer to an outstanding sync counts, whoever sends it.
`ClusterState`: one member's peer table; a message is
one action for each guard its handler takes, and the appliers of a version are
tasks of their own because they read under one guard and write under the next.
`InstanceIdentity`: each host has its file and processes that read it, make an id
and write it. `ClusterTransport`: a link is a connection with the task that
reads it; the entry of the table and the task end apart. `CommandLine`: a command
is a load, a change, and a write in place of two steps (truncate, write), beside the
daemon's own copy. `ConfigMerge` is `merge_configs` as an operator over the members'
configurations, in the order the map gives them, which is a choice. These
modules and the daemon share the configuration file and the cluster's messages only; where one
module needs what another does, it has the other's effect as a choice (a peer
answers or not, a save has happened or not).

### The services

`RetryBreaker`: callers of one mount between the breaker's admission and the
outcome they record. `MountStateMachine`: the three awaits of `transition` (check,
set, note). `DependencyGraph`: petgraph moves the last node into the place of a
removed one, which the two maps do not follow; two nodes may have several edges, and
which of them a removal meets depends on numbers that move with every edge removed, so
that up to half of a pair's edges may stay once the numbers do not follow the edges' age.
`HealthScheduler`: `add_mount` as the four awaits it has, with a removal (which the
scheduler may refuse), a stop and a triggered check between them.
`ResourceMonitor`: monitors, report and `enforce_limits` on four of tokio's locks,
each with its queue. `ConfigLocks`: a lock table with one slot for each
file, and beside it what each user believes to hold. `CredentialBackup`: creation and
clean-up, which reads the list, sorts it and deletes, each under a guard of its own; a
file may refuse to go, and the clean-up goes on to the next. `AuditLog`: a call reads the
last hash, sets it, fills the buffer, writes, looks at the size, closes the writer and
renames the files under a guard of its own for each step; opening, writing and each
rename may fail. `IntrusionDetection` and `AuditMonitor`: an event is put in a
buffer, trimmed, and then matched, by tasks that overlap. `SecureUpdates`: a
call looks its package up in the active table again after every await, works on it,
and writes it back or moves it to the history. `ConfigSecurity`: one file and its
backups; a save is a copy to a backup, a check, a temporary file of a fixed name and
a rename, without a lock; a crash may fall between any two, and each may fail with half
of what it was writing left. `SecurityDashboard`: what an event adds under the metrics'
guard, what it adds to the alerts under theirs, and an export that reads the parts in
turn, of the events as many as it lists. `RuntimeIntegrity`: a round is four looks, the
one at the data files and the renewal of the baseline file by file, while files change
or are put back; the `MemoryProtector`'s record follows its system call.

### The way of a mount request

`MountOptions` has the parser, defaults and merges as operators; an option is a key
and a number, no value or one that does not parse; a list of options is a sequence.
`MountCommand` runs a request through the driver: the checks, the profile the
process took from its first command, the command with its time limit, the answer,
the unmount; a command that outlives its request ends later. `MountNaming` has the
ways a url is cut up (the check, the daemon's id, the configuration's id, the mount
point) over urls made of words. `PathSecurity` is one call of
`validate_path` as its separate looks at the file system, with one link changing
between any two. `MountIntegrity` is one share: the handler makes the directory,
reads its time, registers, mounts; the loop and the report look at it later.

### Secrets and confinement

`CredentialStore`: a call tries its providers in the order of the manager; in
the file provider a change is a load, a temporary file opened, written and renamed, any
of which may fail or be the last before the process dies. `SealedStore`: what was
sealed is a term that remembers key, algorithm and iterations; one field of the
record is then altered and the record opened. `KeyDerivation`: parameters as the
code derives them, with the manager's cache and `auto_tune` under any measured
times. `HardwareCredentials`: the key store first, then the cache; a rotation
reads and stores in two steps. `SecureSocket`: a message is looked up in the
history and noted in it under two guards; a frame is a length and a body. `Seccomp`:
the program is compiled as the code compiles it, with its relative jumps, and run on
each call of each machine. `ProcessIsolation`: clone with any configuration and any step of
the set-up failing, unshare with what it leaves out; the system's calls for a host name,
a private mount, mount points, root, network, user and group are told apart only by
whether they were done. A pid is given again once its process is gone.

### The modules for TLC

`MCComponents` and `MCServices` hold one component each per behaviour: the initial
state chooses a `part`, that component moves, the others stay as they began
(`MCComponents.cfg` has TLC compare states by the part that moves, `Moving`). So a
run explores the sum of its components, not their product, and no property of one is
read in the states of another. Six invariants are conjunctions of the properties of
related parts, each conjunct stated and explained in its own module:

| Invariant | Its parts |
|---|---|
| `MountsStand` | `CommandStands` (`LastWordStands`, `StoppedByProfile`), `NamesAgree`, `VerdictsStand`, `MountedIsWatched` |
| `SecretsStand` | `UpdatesApartStand`, `RotationKeepsLatest`, `StrengthFollowsLevel`, `SealHolds` |
| `SocketStands` | `AcceptedOnce`, `FramesStandApart` |
| `ConfinementStands` | `FiltersStand`, `ClonedAreConfined` |
| `WatchersStand` | `ViolationsAreFounded`, `RecordFollowsRegion`, `DashboardAddsUp` |
| `AlarmsStand` | `BurstsAreSeen`, `AlertsSpaced` |

## 3. Runs

| Run | Instance | Shows |
|---|---|---|
| `daemon_requests` | 2 clients, 1 share, every request, 1 permit, slow disk, no monitor | `TypeOK`, `LockDiscipline`, `PermitsBounded`, `OnlyProven`, `DurableIntent` for all interleavings of two requests |
| `daemon_restarts` | 1 client, 1 share, monitor, shutdown, 1 restart, slow disk | the file implements `ConfigStore` (`StoreSpec`) |
| `daemon_liveness` | 1 client, 1 share, mount/enable/disable, monitor, fair | `LockGranted`, `FailedIsRetried` |
| `limiter` | 2 clients, 4 connections, 3 permits, 2 per client, 3 per window | `NoPermitLost`, `ClientsBounded`, `MetricsClose` |
| `components` | 23 parts: cluster state and files, mount requests, secrets, socket, confinement, watchers, secured configuration, updates, resource limits | what each of them must keep, whatever steps of others, failures and restarts fall between its own |
| `services` | 10 parts: syncs, breaker, states, dependencies, scheduler, locks, backups, audit, intrusion, monitoring; fair where it says so | the same, and that syncs, calls and registrations end |
| `torn_file` | 2 clients, `mount --disable` only | **violated**: `NeverTorn` |
| `no_rollback` | 1 client | **violated**: `RolledBack` |
| `no_persist_saved` | 1 client, 2 shares, one with `--no-persist` | **violated**: `NoPersistStaysOffDisk` |
| `not_remounted` | 1 client, 1 restart, fair | **violated**: `RemountedAfterRestart` |
| `limiter_stuck` | 1 client, 2 connections, fair | **violated**: `ServerGoesOn` |
| `sync_stuck` | 2 peers, 1 periodic and 1 forced sync, fair | **violated**: `SyncEnds` |

**What the violated ones say.** They are claims of the documentation, of comments
or of the code's plain purpose that the code does not keep; `PROJECT.json`
"findings" quotes each. Two mounts that save at the same time can publish an empty
file; the rollback of a mount whose save failed waits for its own read guard;
`--no-persist` only lasts until the next save; a share saved as Active is not
mounted after a reboot; the limiter's cleanup and release tasks take their two
mutexes in opposite orders; the handler of a sync's last answer waits for a guard it
holds. The further findings are divergences met while modelling for which no run of
their own is kept: the models have the code's behaviour, and the property named with
most of them is stated with the exception the code makes (`AcceptedOnce` counts a
session's messages for its life, `StoppedByProfile` says which mount after which is
refused, `FiltersStand` that on x86_64 no call returns).

**How the properties are stated.** Where the code keeps a promise only under a
condition, the property names the condition instead of leaving the case out of the
model: `LostOnlyToReader`, `VersionFallsOnlyOnStaleRead`,
`ForbiddenStepNeedsOverlap`, `SoundUntilRenumbered`, `NothingLostApart`,
`FileIsLastSave`, `RegistryMatchesJobs`, `RetentionHolds`, `LogStands`,
`SyncsAreWhole`, `SyncEndsUnlessMerging` say exactly which interleaving or failure breaks
what one would like, and that no other does. The history variables that record it
(`overlapped`, `raced`, `halved`, `dropped`, `surviving`, `refused`, `undeleted`,
`slips`, ...) are never read by a guard. Such a property does not catch the interleaving
it names, which the code does not prevent; the hazard's note in `PROJECT.json` says so.
What these exceptions say of the code: a forced sync whose request is dropped leaves its
flag up or its entry behind; an edge added twice may outlive its removal; a job the
scheduler does not give up stays with a mount the registry has forgotten; a backup whose file cannot be
removed stays listed; two calls that both saw the log full rotate one after the
other, and a file to be kept is lost; an event whose writing fails is in the chain and in no file; an export counts
more events than the 100 it lists; a configuration with a root and no mount namespace
runs without that root.

**Bounds, and why they are enough.** Two clients are what it takes for a handler
to be overtaken between two awaits, for two saves to meet on one temporary file
and for one to wait behind another in the lock's queue. One share makes every
two requests conflict; entries of different shares only meet in the file, which
is written as a whole, and `no_persist_saved` has two. One permit makes the
second mount wait. One attempt (`MaxTries`) keeps the retry loop from repeating
what it has already done. One restart is enough to load what any earlier state
left. `daemon_requests` leaves the monitor out: it is the first 30 seconds of
the daemon, before the first tick (`Ticking = FALSE`). `daemon_restarts` has one
client because two saves at a time do publish a torn file (`torn_file`). In the
limiter, three permits for four connection tasks let a new connection take the
place of one whose release still runs, and the times are the smallest in the
order of the defaults (30 s connection timeout <= 60 s rate window < 300 s idle time).
`SlowDisk` says whether a file operation may outlast its request; where it is
FALSE the run asks about something else.

In the two large runs every part has two tasks (three where one must overtake two
others, as the three syncs), two of each key (three shares in the dependency graph,
so that a removal can move a third one; three members in a merge, so that orders
differ) and limits of 2 where the code has 5 to 10000: buffers, thresholds, permits,
histories and backups are then full, trimmed and exceeded within a behaviour. Counters
that only grow (`MaxVersion`, `MaxProcessed`, `MaxReceived`, `MaxChanges`, ...) are
bounded in the guards of the actions that make new work, never of those that finish
it. `MaxEdges = 4` lets one pair have two parallel edges beside the one whose removal
mixes up the numbers. The audit log has three events, files of one event and two
backups, so that a second rotation of what was just rotated pushes a kept file out. The
dashboard keeps two events and lists one, so that it lists fewer than it keeps. Each file
has two contents, so that it can be put back. Every subset of `Asks` is a configuration;
the host name is left out of `Asks` for the size of the run (the proof has it). Option lists have at most two options, over keys chosen so that pairs contradict,
have a default, or are refused; urls and paths at most two words, among them the ones
the checks refuse. `MaxDepth = 1` nests one link in another.

**Fairness.** Weak fairness of every task's steps: tokio schedules ready tasks,
its lock is FIFO (the queue is in the model, not assumed), each command ends
within `SecureCommand`'s 30 seconds and each request is dropped after its own.
Strong fairness that one share's backoff passes and its breaker lets an attempt
through, since both end by the clock. In the limiter tokio's mutexes are fair, so
a task that waits is granted if the mutex is free again and again (strong
fairness). In the services: `SyncFairness` is weak fairness of each sync's own
task, whose sleeps end; no peer must ever answer. `BreakerFairness` is weak fairness
of each caller's step, because an operation ends one way or the other and a backoff
by the clock, and of the ageing of the breaker. `SchedulerFairness` is weak
fairness of `add_mount` alone; nothing starts, stops or triggers by it. No client must
ever send anything, and no failure must ever happen.

**Deadlock.** `daemon_requests` and its sisters check for it. The limiter's runs and
`sync_stuck` do not, because the deadlocks of `limiter_stuck` and `sync_stuck` are
real. `components` and `services` do not, because most of their parts come to an end
(all ids made, all events logged); `SomeoneGoesOn` states the absence of deadlock
for the part with four locks.

**Mutants.** Operators whose comment begins with "Faulty:" are not part of the
specification. Each is a plausible mistake in the operator that follows it; put
in its place, it makes the named property fail, which shows the property depends
on the code.

## 4. Proofs

The theorems hold for every value of the constants that the named assumptions
allow. In each module the invariant of the run is not inductive, and what is added
says why the code keeps it. An assumption is named in the module that declares the
constants. Most say that a limit or a bound of the instance is a number; the others
that names the code keeps apart are apart (`ConstantsDistinct`, `IdentityAssumption`,
`TransportAssumption`, `LocksAssumption`, `ResourceAssumption`), that a set is finite
because it is counted or sorted (`FiniteInstance`, `MergeAssumption`,
`GraphAssumption`), that times are numbers with 0 for none (`IntegrityAssumption`), or
that limits are in the order of the defaults (`LimitsInOrder`).

* **`MountDaemonProofs`, `MountDaemonSafety`**: any number of shares and clients (a
  finite set of clients), any number of permits, attempts and restarts, from
  `ConstantsDistinct` and `ConstantsInRange`.
  * `TypeCorrect`: `Spec => []TypeOK`. `TypeOK` does not say that a task about to
    write has a text to write, that one with an undo has an entry to restore, or that
    the tries are below their limit where they are counted. `Placed` states for each
    point what the handler relies on there; `IndInv == TypeOK /\ Placed` is
    inductive, one lemma per action.
  * `LockCorrect`: `Spec => []LockDiscipline`, inductive given `IndInv`. `LockFrame`
    says when a step of one client keeps it.
  * `RollbackBlocked`: a task at its rollback cannot get the write guard. A
    consequence of `LockDiscipline`: it holds the read guard itself. So the rollback
    of `handle_mount_request` is never run, in any configuration.
  * `PermitsCorrect`: free permits and holders together never exceed `MaxPermits`.
    The two move in opposite directions (`Exchange`); dropped requests only lose
    permits.
  * `OnlyProvenCorrect`: `OnlyProven` speaks of what is stored; what makes it
    inductive (`ProvenInv`) is that a request that is about to add a share has a
    mount command behind it, and that an undo restores an entry that was there.
* **`ConnectionLimiterProofs`** (`LimiterTypes`, `LimiterPermits`,
  `LimiterClients`, `LimiterMetrics`, and the two bounds the third joins): every
  invariant of the limiter, for any finite sets of clients and connections
  (`FiniteInstance`) and any limits with connection timeout < idle time and rate
  window <= idle time (`LimitsInOrder`). The cleanup task forgets clients without a
  look at their counts, so none of the bounds is inductive. `LimiterInv` adds why
  forgetting loses nothing: a client with a connection or with a timestamp in the
  window has been idle no longer than that connection or timestamp is old
  (`Recent`), so one idle for longer than the idle time has neither. With it the
  counts are those of the connections not yet released (`Exact`), the timestamps kept
  are those of the admissions in the window, in order (`Stamped`), and the metric
  differs from the sum by the releases under way (`Drift`, `OneHolder`). `ForgetEarly`
  shows that the limits fail without the assumption.
* **`MountDaemonDurability`**, from the same assumptions:
  * `DurableIntentCorrect`. `DurableIntent` says nothing while a request is under way.
    `DurableInv` says who answers for a difference between file and memory then: a
    request that has changed the memory and not saved it (`Debtor`); and, as long as no
    write was left half-done, every text on its way to the file is what the memory says
    now. The key is that a change of the memory needs the write guard and finds no save
    under way (`WriterAlone`).
  * `StoreImplemented`: every step of the daemon is a change, a save, a start or a
    stutter of `ConfigStore`. It holds under `OneSaver`: there is one connection (the
    instance of `daemon_restarts`), or no save is made under a read guard (no mounts)
    and no file operation outlives its request. Without the assumption it is false:
    `torn_file` shows two mounts sharing `mounts.tmp`.
  * `NeverTornAlone`: under the same assumption `NeverTorn`, which `torn_file` refutes
    without it, holds. So two savers at a time are the only way to tear the file.
* **`ComponentProofs`**, for any peers, hosts, processes, ids, commands, links and
  members:
  * `IdsStayDistinct` (`IdentityInv`: an id that a host bears, in a file or a
    process, was created and no other host bears it).
  * `VersionRises` and `SpeakersStayHealthy` (`StateInv`: an applier about to
    apply carries a newer version than the one it read, and who spoke is known and not
    disconnected).
  * `ApartLosesNothing` (`ApartInv`: while commands run apart, at most one holds
    a copy, the copy is the latest, and the file has all that was saved).
  * `ServerStaysQuiet` (`ServerInv`: late links are counted only once the server
    was stopped).
  * `MergesAreSound`: what the merge chooses by sorting and folding a list is the
    winner `ConfigMerge` defines without an order (`ChosenIsWinner`), so it is the
    same for every order, and a version it drops is older, equal or reported.
  * `ClonesStayConfined` (`IsolationInv`: what clone made and did not end is confined as
    its configuration says, `ConfinedAs`, and the isolator's entry for it never goes),
    `FiltersStayLoaded` (`SeccompInv`:
    no more filters are real than programs are loaded, and each of these answers "kill"
    on x86_64). That a program does so is by induction on its run, as a least number
    of steps for which it would be otherwise (`RunExists`, `CheckKills`).
  * `VerdictsFollowFiles` (`PathInv`: as long as nothing changed, the walk is on the links
    of the path asked for, and at their end if they end at a file),
    `NamesStayTogether` (`NamingInv`: a share has the directory of its URL unless it
    chose one, and no id twice), `ProfileStopsLatecomers` (`ProfileInv`: the executor has
    the profile of the first kind that ran a command).
  * `LastWordHolds`. The list of an NFS command is the driver's list of the request
    (`BuiltFromRequest`). That this list is what stands of the defaults and the request,
    in order, is shown step by step of the driver's loop (`MergedStands`), from what one
    `retain` keeps (`WithoutKeeps`) and how lists in order are joined
    (`AppendInOrder`, `FilterInOrder`). That the parser accepts it follows from what the
    parser knows after so many options (`ReadSoFar`, `ParsingEnds`): a number it holds is
    that of the last option with the key, and it refuses only a number it cannot read or
    `ro` with `rw`, of which the list keeps one (`ParserFollows`).
  * `LocksFormNoCircle` (`ResourceInv`: where each kind of task may stand). The tasks
    that stand furthest in the order of the four locks wait for nobody
    (`FurthestGoesOn`), so one of them may go on, except where an enforcement waits for
    the guard it holds itself. What a step asks of the state is `MayGoOn`; that a task
    has a step exactly then is `StepsAreGoingOn`.
  * `ComponentsStayTyped`: `ComponentTypes`, all twenty-three type invariants. Some
    are about bounds that need more than the types: that a new file finds a free number
    counts the numbers in use (`InodeIsLeft`), that a round keeps no more than it found
    is part of `RoundInv`, that the merge of settings is among the
    values given is about the greatest of a finite set (`MaxOf`).
  * `SecretsStaySafe`, `WatchersStayTrue`, `ConfinementHolds` and `MountsAreSound`: the
    four conjunctions of `components`. A behaviour of `MCComponents` is, for each part, a
    behaviour of that part (`ComponentsStart`, `ComponentsStep`); so what is shown of the
    parts holds of the whole.
* **`ServiceProofs`**: every safety property of the run `services`, for any tasks,
  shares, mounts, events, addresses and limits:
  * `SyncsStayOwned`, `MergesAreComplete` and both as `SyncsStayWhole` (`SyncInv`: a
    sync is outstanding exactly while its task sends or sleeps or its request was dropped
    while sending, `TasksMatch`; answers and senders are as many until somebody answers
    twice, and never more than were asked for, `AnswersCounted`).
  * `ForbiddenNeedsOverlap` (`MachineInv`: whoever is about to set a state has checked
    it against the table, from the state it read), `OnlyReadersDisplace` (`LocksInv`:
    whoever counts on a lock has the slot, or it is recorded what took it),
    `OverrunStaysBounded` (`BreakerInv`: the breaker is closed only below the
    threshold; the counting of callers is by the theorems on finite sets).
  * `RegistryKeepsUp` (`SchedulerInv`: a mount being added has its configuration until a
    removal overtakes the call; a job id in the registry belongs to an entry; a job that
    does not have its id there was refused its removal or its mount registered again).
  * `OrdersAreSound` (`GraphInv`: until a removal renumbers, the two maps are each
    other's inverse, and the pairs joined by an edge are the numbers of the dependencies
    asked for and of those whose parallel edges outlived a removal, which takes that the
    edges' numbers were mixed up before).
  * `BackupsAreKept` (`BackupInv`). That no strategy has too many backups listed when
    all is quiet holds because of somebody: whatever is too old is to be found by a
    clean-up that has yet to sort, or is doomed by one, or is being struck off, or its
    file was refused its removal (`CleanInv`). That a clean-up's list may be outdated does no harm because backups
    that others add are newer than any it dooms (`DoomedInv`).
  * `LogCanBeReliedUpon` (`ChainInv`: the last hash is that of the last event, or of the
    one before it while the last is being chained; `FileInv`: the files that are full
    are `log.1`, `log.2`, ... from the newest, unless a rotation failed halfway; while a
    task renames, nobody else does or writes, unless they raced; and an event in no file
    has yet to be written or failed to be).
  * `AlertsStaySpaced` (`MonitorInv`: what an event found is as young as its analysis
    and no alert is younger; it has raised no more than it has sent, which is tested after
    each alert and so never passes the limit, or one where that is 0), `BurstsStaySeen`
    (`IntrusionInv`: of the events of a burst without an alert, the last one checked
    saw all the others), and both as `AlarmsStayUseful`, for the composed specification.
  * `ServicesStayTyped`: the ten type invariants, with the bounds stated in them (no more
    files than events, no buffer above its size), for the composed specification.
* **`SecurityProofs`**, for any tasks, ids, messages, sessions, frames, times and limits:
  * `MountedStayWatched` (`IntegrityInv`: the handler comes to its mount only past the
    registration), `RecordsFollowRegions` (`MemoryInv`: without an
    overlap at most one task is about to record, and it carries the region's protection),
    `RotationsKeepLatest` (`HsmInv`:
    while operations on an id do not overlap, one task changes it, and the key store
    and what that task carries are the latest).
  * `MessagesAcceptedOnce`
    (`SessionInv`: a message accepted is the context's own and in the history, and
    without an overlap one task verifies it and has not accepted it before; from
    `SocketAssumption`, that the rate is a number), `FramesStayApart` (`FrameInv`: the
    stream is the rest of a frame and the frames after it, `Aligned`, unless something
    slipped), and both as `SocketsStand`.
  * `UpdatesApartKeep` (`CredentialInv`: while updates keep apart at most one is past
    its load, and its copy is the file with its change), `StrengthStays` (`KeyInv`),
    `SealsHold` (`SealInv`: what was not altered still says what was written).
  * `PackagesMoveOnce` (`UpdatesInv`: what is
    being installed was downloaded or created again, and nothing moves that was not
    created), `FileStaysTheLastSave` (`SaveInv`: a save that nobody overlapped finds in
    its backup and its temporary file what it put there, and one that failed half-way has
    left the file itself alone unless it was restoring it).
  * `ViolationsStayFounded` (`RoundInv`: no baseline is stored during a round, so what
    was found differs from the one in force though the file be put back; a file that has
    differed since the round began is found or still ahead of the round, for a data file
    unless another was found), `DashboardStaysSound` (`DashboardInv`: the
    alerts raised and the one being raised are those owed for the counts; an export's
    parts are each as old as its metrics or younger, and it lists the newest of the events
    kept, as many as it may).

A theorem without a property of its own in `PROJECT.json` is about a conjunct of an
invariant that a run checks.

**What the proofs changed in the models.** `TuneMemory` was guarded by a memory cost
other than 0, where `auto_tune` matches on the function: after tuning with factor 1/2
down to 0 the model stopped tuning and the code does not; the invariant was false there.
`DashboardAddsUp` now counts a threshold of 0 as 1, which is what the first failed
authentication does with it. `ConfigStore` counts its starts: without the count
a save could be taken for a start with equal content. With one snapshot kept
(`MaxSnapshots = 1`) the order of snapshots was vacuous; the instance keeps two.
`ConfigMerge` says with sets what it said with folds; the set of versions and the stable
sort's first are definitions of their own. `Seccomp` runs a program step by step, as a
function of the number of steps, and builds its checks as a function of their place;
`PathSecurity` says where links lead by the least set that holds them; `MountNaming`
counts the components that are kept; `MergeSettings` names the last
configuration to take over, without a fold over the list, and `LatestSync` starts from 0 as
the code does. `MountOptions` reads, keeps and merges options as functions of how many
were read, one entry per turn of the loop, and `LastWord` says which options stand and in
which order without building the list a second time. What they compute is the same (each
pair was compared on the instance before the older one went); a fold or a `SelectSeq`
cannot be reasoned about. An induction over a list is a least number of steps for which
the claim would be false (`LeastNumber`); that a function defined by its earlier values
exists is shown that way for each (`ParsedStepwise`, `KeptStepwise`, `MergedStepwise`).

**Only model-checked**, and why:

* Liveness (`LockGranted`, `FailedIsRetried`, `SyncEndsUnlessMerging`, `CallEnds`,
  `AddEnds`): out of the prover's reach.
* `SomeoneGoesOn` as it stands, because of its ENABLED; `LocksFormNoCircle` is the same
  with the condition of a step written out.

Every other invariant and action property that a passing run checks is a theorem.

## 5. Not modelled, and why

* Requests that only read, `--dry-run`, wording, layout and parsing of command lines:
  no state depends on them.
* Progress reporting: a registry of texts for the client's progress bar, on which
  nothing else depends.
* The platform layer and the health probes: file operations and commands whose result
  is a choice where the models need it.
* Peer discovery: broadcasts and prints.
* Checks of a peer's user id and of file modes, texts of errors, the simple monitor:
  each is one step with no protocol between operations.
* Cryptography: a ciphertext is a term, a hash differs when its input does. Timing
  and randomness are choices; a poor random number is one of them where the code
  checks for it.
* Parts of modelled components that are left out are named with the component in
  `PROJECT.json` (certificates, key audits, listing of credentials, secure boot).

## 6. What is left

The parts are composed through choices, not by running two modules together: a
composition of `SyncCoordinator` with `ClusterTransport`, and of `MountCommand` with
`MountDaemon`'s permits, would turn two of those choices into steps. The safety
properties the runs check are proved; what the prover could still be asked is that
further components implement an abstract specification, as `MountDaemon` does
`ConfigStore`.
