------------------------- MODULE MountDaemonSafety -------------------------
(***************************************************************************)
(* The safety invariants of MountDaemon, proved from the inductive         *)
(* invariant IndInv of MountDaemonProofs.                                  *)
(***************************************************************************)
EXTENDS MountDaemonProofs, FiniteSetTheorems

-----------------------------------------------------------------------------
(* The lock                                                                 *)

\* The steps of a client leave every other task where it is.
LEMMA ClientStays ==
    ASSUME IndInv, NEW c \in Clients,
           \/ \E op \in Requests, s \in Shares : Begin(c, op, s)
           \/ ClientStep(c) \/ TimeOut(c) \/ Attempt(c)
    PROVE  OthersStay(c)
<1>1. CASE ClientStep(c)
  BY <1>1, MountExistsInd, AcquirePermitInd, AddInd, LookupInd, UnmountSucceedsInd,
     UnmountFailsInd, SetDisabledInd, ToggleInd, EraseInd, BeginSaveInd, OpenTmpInd,
     WriteDataInd, RenameInd, SaveFailsInd, LateRenameInd, LateCommandInd DEF ClientStep
<1>2. CASE Attempt(c)
  BY <1>2, PreUnmountInd, BreakerOpenInd, MountSucceedsInd, MountFailsInd, MarkActiveInd
  DEF Attempt
<1> QED
  BY <1>1, <1>2, BeginInd, TimeOutInd

\* A step of c that changes the guards of c only, and changes them as its points
\* demand, keeps the discipline.
LEMMA LockFrame ==
    ASSUME IndInv, LockDiscipline, NEW c \in Clients, OthersStay(c),
           readers' \ {c} = readers \ {c},
           writer' = writer \/ {writer, writer'} \subseteq {c, NoTask},
           writer' # NoTask => readers' = {},
           c \in readers' <=> KeepsReadGuard(c)',
           writer' = c <=> KeepsWriteGuard(c)'
    PROVE  LockDiscipline'
<1>1. /\ c \in Tasks /\ c # Monitor /\ c # Main /\ Clients \subseteq Tasks /\ Main \in Tasks
      /\ NoTask \notin Clients
  BY ConstantsDistinct DEF Tasks
<1>2. ASSUME NEW d \in Clients, d # c
      PROVE  /\ d \in readers' <=> KeepsReadGuard(d)'
             /\ writer' = d <=> KeepsWriteGuard(d)'
  <2>1. /\ KeepsReadGuard(d)' <=> KeepsReadGuard(d)
        /\ KeepsWriteGuard(d)' <=> KeepsWriteGuard(d)
    BY <1>1, <1>2 DEF OthersStay, KeepsReadGuard, KeepsWriteGuard, ByMount, Saving
  <2>2. d \in readers' <=> d \in readers
    BY <1>2
  <2>3. writer' = d <=> writer = d
    BY <1>1, <1>2
  <2> QED
    BY <2>1, <2>2, <2>3
    DEF LockDiscipline, KeepsReadGuard, KeepsWriteGuard, ByMount, Saving
<1>3. Monitor \notin readers' /\ (Main \in readers' <=> pc'[Main] = "closeCmd")
  BY <1>1 DEF LockDiscipline, OthersStay
<1>4. writer' \in Clients \cup {NoTask}
  BY DEF LockDiscipline
<1> QED
  BY <1>2, <1>3, <1>4 DEF LockDiscipline

\* Steps of a client that neither take nor leave a guard and move it between points
\* that keep none or the same one.
LEMMA LockUntouched ==
    ASSUME IndInv, LockDiscipline, NEW c \in Clients, OthersStay(c),
           UNCHANGED <<readers, writer>>,
           KeepsReadGuard(c)' <=> KeepsReadGuard(c),
           KeepsWriteGuard(c)' <=> KeepsWriteGuard(c)
    PROVE  LockDiscipline'
  BY LockFrame
  DEF LockDiscipline, KeepsReadGuard, KeepsWriteGuard, ByMount, Saving

\* A step of a request: which guard it has before and after.
LEMMA LockClientStep ==
    ASSUME IndInv, IndInv', LockDiscipline, NEW c \in Clients, OthersStay(c),
           \/ \E op \in Requests, s \in Shares : Begin(c, op, s)
           \/ ClientStep(c) \/ TimeOut(c) \/ Attempt(c)
    PROVE  LockDiscipline'
<1>1. /\ c \in Tasks /\ ClientPlaced(c) /\ ClientPlaced(c)' /\ TypeOK /\ TypeOK'
      /\ job[c] \in Job /\ c # NoTask
  BY ConstantsDistinct DEF Tasks, IndInv, Placed, TypeOK
<1>2. /\ c \in readers <=> KeepsReadGuard(c)
      /\ writer = c <=> KeepsWriteGuard(c)
      /\ writer # NoTask => readers = {}
  BY DEF LockDiscipline, KeepsReadGuard, KeepsWriteGuard, ByMount, Saving
<1>3. CASE \E op \in Requests, s \in Shares : Begin(c, op, s)
  <2>1. pc[c] = "idle" /\ pc'[c] \in {"exists", "toggle", "lookup"}
        /\ UNCHANGED <<readers, writer>>
    BY <1>1, <1>3 DEF Begin, Go, TypeOK, lockVars
  <2> QED
    BY <2>1, LockUntouched DEF KeepsReadGuard, KeepsWriteGuard, Saving, SavePoints
<1>4. CASE pc[c] \notin SavePoints \cup {"rollback"} /\ pc'[c] \notin SavePoints \cup {"rollback"}
           /\ ((UNCHANGED <<readers, writer>>) \/ Unlock(c))
  <2>1. c \notin readers /\ writer # c /\ ~KeepsReadGuard(c)' /\ ~KeepsWriteGuard(c)'
    BY <1>2, <1>4 DEF KeepsReadGuard, KeepsWriteGuard, Saving
  <2>2. readers' = readers /\ writer' = writer
    BY <1>4, <2>1 DEF Unlock
  <2> QED
    BY <1>2, <2>1, <2>2, LockUntouched DEF KeepsReadGuard, KeepsWriteGuard
<1>5. CASE \/ MountExists(c) \/ AcquirePermit(c) \/ Add(c) \/ Lookup(c) \/ SetDisabled(c)
           \/ Toggle(c) \/ LateRename(c) \/ LateCommand(c) \/ Attempt(c)
           \/ UnmountSucceeds(c) \/ UnmountFails(c)
  <2>1. CASE Add(c)
    <3>1. pc'[c] \in {"saveRead", "auto", "probe", "redial", "erase", "idle"}
      BY <1>1, <2>1, CallerType DEF Add, Go, Return, TypeOK
    <3> QED
      BY <1>4, <2>1, <3>1 DEF Add, WriteSection, SavePoints
  <2>2. CASE MountExists(c) \/ Lookup(c) \/ AcquirePermit(c)
    <3>1. pc'[c] \in {"permit", "add", "lookup", "erase", "mountCmd", "unmountCmd",
                      "preUnmount", "auto", "probe", "redial", "idle"}
      BY <1>1, <2>2, CallerType DEF MountExists, Lookup, AcquirePermit, Go, Return, TypeOK
    <3> QED
      BY <1>4, <2>2, <3>1
      DEF MountExists, Lookup, AcquirePermit, ReadSection, SavePoints, lockVars
  <2>3. CASE SetDisabled(c) \/ Toggle(c)
    <3>1. pc'[c] \in {"saveWrite", "auto", "probe", "redial", "erase", "idle"}
      BY <1>1, <2>3, CallerType DEF SetDisabled, Toggle, Go, Return, TypeOK
    <3> QED
      BY <1>4, <2>3, <3>1 DEF SetDisabled, Toggle, WriteSection, SavePoints
  <2>4. CASE LateRename(c) \/ LateCommand(c)
    <3>1. pc'[c] \in {"auto", "probe", "redial", "erase", "idle"}
      BY <1>1, <2>4, CallerType DEF LateRename, LateCommand, Go, Return, TypeOK
    <3> QED
      BY <1>4, <2>4, <3>1 DEF LateRename, LateCommand, SavePoints, lockVars
  <2>5. CASE Attempt(c)
    <3>1. pc'[c] \in {"mountCmd", "markActive", "add", "preUnmount", "markError",
                      "auto", "probe", "redial", "erase", "idle"}
      BY <1>1, <2>5, CallerType DEF Attempt, PreUnmount, BreakerOpen, MountSucceeds,
         MountFails, MarkActive, MountFailed, Go, Return, TypeOK
    <3> QED
      BY <1>4, <2>5, <3>1 DEF Attempt, PreUnmount, BreakerOpen, MountSucceeds,
         MountFails, MarkActive, WriteSection, SavePoints, lockVars
  <2>6. CASE UnmountSucceeds(c) \/ UnmountFails(c)
    <3>1. pc'[c] \in {"setDisabled", "mountCmd", "auto", "probe", "redial", "erase", "idle"}
      BY <1>1, <2>6, CallerType DEF UnmountSucceeds, UnmountFails, Go, Return, TypeOK
    <3> QED
      BY <1>4, <2>6, <3>1 DEF UnmountSucceeds, UnmountFails, SavePoints, lockVars
  <2> QED
    BY <1>5, <2>1, <2>2, <2>3, <2>4, <2>5, <2>6
<1>6. CASE OpenTmp(c)
  <2>1. /\ pc'[c] = IF pc[c] = "trunc" THEN "data" ELSE "lateData"
        /\ pc[c] \in {"trunc", "lateTrunc"}
        /\ UNCHANGED <<job, readers, writer>>
    BY <1>1, <1>6 DEF OpenTmp, Go, TypeOK, lockVars
  <2> QED
    BY <2>1, LockUntouched DEF KeepsReadGuard, KeepsWriteGuard, Saving, SavePoints, ByMount
<1>7. CASE WriteData(c)
  <2>1. CASE pc[c] = "data"
    <3>1. pc'[c] = "rename" /\ UNCHANGED <<job, readers, writer>>
      BY <1>1, <1>7, <2>1 DEF WriteData, Go, TypeOK, lockVars
    <3> QED
      BY <2>1, <3>1, LockUntouched
      DEF KeepsReadGuard, KeepsWriteGuard, Saving, SavePoints, ByMount
  <2>2. CASE pc[c] = "lateData"
    <3>1. pc'[c] \in {"auto", "probe", "redial", "erase", "idle"}
      BY <1>1, <1>7, <2>2, CallerType DEF WriteData, Go, Return, TypeOK
    <3> QED
      BY <1>4, <1>7, <2>2, <3>1 DEF WriteData, SavePoints, lockVars
  <2> QED
    BY <1>7, <2>1, <2>2 DEF WriteData
<1>8. CASE BeginSave(c)
  <2>1. pc'[c] = "trunc" /\ UNCHANGED job
    BY <1>1, <1>8 DEF BeginSave, Go, TypeOK
  <2>2. writer = NoTask
    BY <1>8 DEF BeginSave, HoldRead, HoldWrite, CanRead, CanWrite
  <2>3. CASE pc[c] = "saveRead"
    <3>1. readers' = readers \cup {c} /\ writer' = writer /\ ByMount(c)
      BY <1>1, <1>8, <2>3 DEF BeginSave, HoldRead, ClientPlaced
    <3> QED
      BY <1>1, <2>1, <2>2, <3>1, LockFrame
      DEF KeepsReadGuard, KeepsWriteGuard, Saving, SavePoints, ByMount
  <2>4. CASE pc[c] = "saveWrite"
    <3>1. readers = {} /\ readers' = {} /\ writer' = c /\ ~ByMount(c)
      BY <1>1, <1>8, <2>4
      DEF BeginSave, HoldWrite, CanWrite, ClientPlaced, Restorable, ByMount
    <3> QED
      BY <1>1, <2>1, <2>2, <3>1, LockFrame
      DEF KeepsReadGuard, KeepsWriteGuard, Saving, SavePoints, ByMount
  <2> QED
    BY <1>8, <2>3, <2>4 DEF BeginSave
<1>9. CASE Erase(c)
  <2>1. pc[c] # "rollback"
    <3>1. pc[c] = "rollback" => c \in readers
      BY <1>1, <1>2 DEF ClientPlaced, KeepsReadGuard
    <3>2. pc[c] = "rollback" => readers = {}
      BY <1>9 DEF Erase, WriteSection, CanWrite
    <3> QED
      BY <3>1, <3>2
  <2>2. pc[c] = "erase" /\ job[c].op = "remove"
    BY <1>1, <1>9, <2>1 DEF Erase, ClientPlaced
  <2>3. CASE SkipsSave(c)
    <3>1. pc'[c] \in {"auto", "probe", "redial", "erase", "idle"}
      BY <1>1, <1>9, <2>2, <2>3, CallerType DEF Erase, Go, Return, TypeOK
    <3> QED
      BY <1>4, <1>9, <2>2, <2>3, <3>1 DEF Erase, WriteSection, SavePoints
  <2>4. CASE ~SkipsSave(c)
    <3>1. pc'[c] = "trunc" /\ UNCHANGED job /\ HoldWrite(c)
      BY <1>1, <1>9, <2>2, <2>4 DEF Erase, Go, TypeOK
    <3>2. readers = {} /\ readers' = {} /\ writer = NoTask /\ writer' = c
      BY <3>1 DEF HoldWrite, CanWrite, CanRead
    <3> QED
      BY <1>1, <2>2, <3>1, <3>2, LockFrame
      DEF KeepsReadGuard, KeepsWriteGuard, Saving, SavePoints, ByMount
  <2> QED
    BY <2>3, <2>4
<1>10. ASSUME Unlock(c), ~KeepsReadGuard(c)', ~KeepsWriteGuard(c)'
       PROVE  LockDiscipline'
  <2>1. readers' = readers \ {c} /\ writer' = IF writer = c THEN NoTask ELSE writer
    BY <1>10 DEF Unlock
  <2> QED
    BY <1>1, <1>2, <1>10, <2>1, LockFrame
<1>11. CASE Rename(c)
  <2>1. pc'[c] \in {"auto", "probe", "redial", "erase", "idle"}
    BY <1>1, <1>11, CallerType DEF Rename, Go, Return, TypeOK
  <2> QED
    BY <1>10, <1>11, <2>1 DEF Rename, KeepsReadGuard, KeepsWriteGuard, Saving, SavePoints
<1>12. CASE TimeOut(c)
  <2>1. pc'[c] \in {"idle"} \cup LatePoints
    BY <1>1, <1>12, LateType DEF TimeOut, Go, TypeOK
  <2> QED
    BY <1>10, <1>12, <2>1
    DEF TimeOut, KeepsReadGuard, KeepsWriteGuard, Saving, SavePoints, LatePoints
<1>13. CASE SaveFails(c)
  <2>1. CASE ByMount(c)
    <3>1. pc'[c] = "rollback" /\ UNCHANGED <<job, readers, writer>> /\ pc[c] \in SavePoints
      BY <1>1, <1>13, <2>1 DEF SaveFails, ByMount, Go, TypeOK, lockVars
    <3> QED
      BY <2>1, <3>1, LockUntouched
      DEF KeepsReadGuard, KeepsWriteGuard, Saving, SavePoints, ByMount
  <2>2. CASE ~ByMount(c)
    <3>1. Return(c) /\ Unlock(c)
      BY <1>13, <2>2 DEF SaveFails, ByMount
    <3>2. pc'[c] \in {"auto", "probe", "redial", "erase", "idle"}
      BY <1>1, <3>1, CallerType DEF Go, Return, TypeOK
    <3> QED
      BY <1>10, <3>1, <3>2 DEF KeepsReadGuard, KeepsWriteGuard, Saving, SavePoints
  <2> QED
    BY <2>1, <2>2
<1> QED
  BY <1>3, <1>5, <1>6, <1>7, <1>8, <1>9, <1>11, <1>12, <1>13 DEF ClientStep

\* Steps that leave the guards and the clients where they are.
LEMMA LockElsewhere ==
    ASSUME LockDiscipline, UNCHANGED <<readers, writer>>,
           \A c \in Clients : pc'[c] = pc[c] /\ job'[c] = job[c],
           pc'[Main] = "closeCmd" <=> pc[Main] = "closeCmd"
    PROVE  LockDiscipline'
  BY DEF LockDiscipline, KeepsReadGuard, KeepsWriteGuard, ByMount, Saving

\* The monitor never keeps a guard over an await.
LEMMA LockMonitorStep ==
    ASSUME IndInv, LockDiscipline, Attempt(Monitor) \/ MonitorStep
    PROVE  LockDiscipline'
<1>1. OthersStay(Monitor)
  BY MonitorAttemptInd, MonitorStepInd
<1>2. /\ \A c \in Clients : c \in Tasks \ {Monitor}
      /\ Main \in Tasks \ {Monitor}
  BY ConstantsDistinct DEF Tasks
<1>3. UNCHANGED <<readers, writer>>
  <2>1. CASE Attempt(Monitor)
    BY <2>1 DEF Attempt, PreUnmount, BreakerOpen, MountSucceeds, MountFails, MarkActive,
       WriteSection, lockVars
  <2>2. CASE MonitorStep
    BY <2>2 DEF MonitorStep, AutoMountSet, HealthSet, ReconnectSet, Snapshot, AutoMount,
       Healthy, Unhealthy, SkipRedial, Redial, Take, EndOfRound, MarkFailed,
       MarkReconnecting, MarkError, ReadSection, WriteSection, lockVars
  <2> QED
    BY <2>1, <2>2
<1> QED
  BY <1>1, <1>2, <1>3, LockElsewhere DEF OthersStay

\* A new process starts with a free lock and without requests.
LEMMA LockBoot ==
    ASSUME readers' = {}, writer' = NoTask, \E m \in FirstPoints : pc' = Fresh(m)
    PROVE  LockDiscipline'
<1>1. /\ Main \in Tasks /\ Main # Monitor /\ NoTask \notin Clients
      /\ \A c \in Clients : c \in Tasks /\ c # Monitor /\ c # Main
  BY ConstantsDistinct DEF Tasks
<1>2. pc'[Main] = "up" /\ \A c \in Clients : pc'[c] = "idle"
  BY <1>1 DEF Fresh
<1> QED
  BY <1>1, <1>2 DEF LockDiscipline, KeepsReadGuard, KeepsWriteGuard, Saving, SavePoints

\* The lock is free at the start.
LEMMA LockInit == Init => LockDiscipline
<1>1. /\ Main \in Tasks /\ Main # Monitor /\ NoTask \notin Clients
      /\ \A c \in Clients : c \in Tasks /\ c # Monitor /\ c # Main
  BY ConstantsDistinct DEF Tasks
<1>2. ASSUME Init PROVE pc[Main] = "up" /\ \A c \in Clients : pc[c] = "idle"
  BY <1>1, <1>2 DEF Init, Fresh
<1> QED
  BY <1>1, <1>2 DEF Init, LockDiscipline, KeepsReadGuard, KeepsWriteGuard, Saving, SavePoints

\* Shutdown keeps one read guard, a restart none.
LEMMA LockMainStep ==
    ASSUME IndInv, LockDiscipline, Signal \/ MainStep \/ Crash
    PROVE  LockDiscipline'
<1>1. /\ Main \in Tasks /\ Main # Monitor /\ pc \in [Tasks -> Points]
      /\ \A c \in Clients : c \in Tasks /\ c # Main /\ c # NoTask
  BY ConstantsDistinct DEF Tasks, IndInv, TypeOK
<1>2. CASE Signal
  BY <1>1, <1>2, LockElsewhere DEF Signal, Go, lockVars
<1>3. CASE Cleanup
  <2>1. /\ pc'[Main] = "closeCmd" /\ pc[Main] = "closing"
        /\ \A c \in Clients : pc'[c] = pc[c] /\ job'[c] = job[c]
        /\ readers' = readers \cup {Main} /\ writer' = writer /\ writer = NoTask
    BY <1>1, <1>3 DEF Cleanup, Go, HoldRead, CanRead
  <2> QED
    BY <1>1, <2>1 DEF LockDiscipline, KeepsReadGuard, KeepsWriteGuard, ByMount, Saving
<1>4. ASSUME NEW s \in Shares, CloseShare(s)
      PROVE  LockDiscipline'
  BY <1>4, LockElsewhere DEF CloseShare, lockVars, taskVars
<1>5. CASE Exit \/ Crash
  BY <1>5, LockBoot DEF Exit, Crash, Boot
<1> QED
  BY <1>2, <1>3, <1>4, <1>5 DEF MainStep

\* Every step keeps the discipline.
LEMMA LockNext ==
    ASSUME IndInv, LockDiscipline, [Next]_vars
    PROVE  LockDiscipline'
<1>1. IndInv'
  BY NextInd
<1>2. ASSUME NEW c \in Clients,
             \/ \E op \in Requests, s \in Shares : Begin(c, op, s)
             \/ ClientStep(c) \/ TimeOut(c) \/ Attempt(c)
      PROVE  LockDiscipline'
  BY <1>1, <1>2, ClientStays, LockClientStep
<1>3. CASE Attempt(Monitor) \/ MonitorStep
  BY <1>3, LockMonitorStep
<1>4. CASE \E t \in Tasks : AwaitLock(t)
  BY <1>4, LockElsewhere DEF AwaitLock, taskVars
<1>5. CASE Signal \/ MainStep \/ Crash
  BY <1>5, LockMainStep
<1>6. CASE UNCHANGED vars
  BY <1>6, LockElsewhere DEF vars, lockVars, taskVars
<1> QED
  BY <1>2, <1>3, <1>4, <1>5, <1>6 DEF Next

\* In every reachable state the guards of the configuration's lock are exactly
\* where the handlers believe to have them: no path through a failed save, a
\* dropped request, a rollback or a restart keeps one too long or loses one.
THEOREM LockCorrect == Spec => []LockDiscipline
<1>1. Init => LockDiscipline
  BY LockInit
<1>2. IndInv /\ LockDiscipline /\ [Next]_vars => LockDiscipline'
  BY LockNext
<1>3. Spec => []IndInv
  BY TypeCorrect DEF IndInv
<1> QED
  BY <1>1, <1>2, <1>3, PTL DEF Spec

\* The rollback of a mount that could not be saved asks for the write guard while
\* its own read guard is still there: it is never granted, so the rollback of
\* handle_mount_request never runs.
THEOREM RollbackBlocked ==
    Spec => [](\A c \in Clients : pc[c] = "rollback" => ~CanWrite(c))
<1>1. IndInv /\ LockDiscipline => \A c \in Clients : pc[c] = "rollback" => ~CanWrite(c)
  BY DEF IndInv, Placed, ClientPlaced, LockDiscipline, KeepsReadGuard, CanWrite
<1>2. Spec => []IndInv
  BY TypeCorrect DEF IndInv
<1> QED
  BY <1>1, <1>2, LockCorrect, PTL

-----------------------------------------------------------------------------
(* A mount between its permit and its entry in the configuration            *)

Mounting == {"preUnmount", "mountCmd", "markActive", "add"}

\* What returns is no mount any more.
LEMMA ReturnOp ==
    ASSUME TypeOK, NEW t \in Tasks, Return(t)
    PROVE  job'[t].op \in {"none", "remove"}
<1>1. job[t].share \in Shares \cup {NoShare}
  BY DEF TypeOK, Job
<1>2. NewJob("remove", job[t].share).op = "remove"
  BY <1>1, NewJobType DEF Ops, ClientOps
<1> QED
  BY <1>2, ReturnType, NoJobType DEF Share

\* Only the permit lets a request begin to mount, and only mount_with_retry moves
\* it on from there.
LEMMA OtherSteps ==
    ASSUME IndInv, NEW c \in Clients,
           \/ \E op \in Requests, s \in Shares : Begin(c, op, s)
           \/ ClientStep(c) \/ TimeOut(c),
           ~AcquirePermit(c)
    PROVE  /\ permits' = permits
           /\ job'[c].op = "mount" => pc'[c] \notin Mounting
<1>1. c \in Tasks /\ ClientPlaced(c) /\ TypeOK /\ job[c] \in Job
  BY DEF Tasks, IndInv, Placed, TypeOK
<1>2. ASSUME Return(c) PROVE job'[c].op # "mount"
  BY <1>1, <1>2, ReturnOp
<1>3. ASSUME NEW p \in Points \ Mounting, Go(c, p) PROVE pc'[c] \notin Mounting
  BY <1>1, <1>3, GoType
<1>4. CASE \E op \in Requests, s \in Shares : Begin(c, op, s)
  <2>1. pc'[c] \in {"exists", "toggle", "lookup"} /\ permits' = permits
    BY <1>1, <1>4 DEF Begin, Go, TypeOK
  <2> QED
    BY <2>1 DEF Mounting
<1>5. CASE MountExists(c)
  BY <1>1, <1>2, <1>5 DEF MountExists, Go, TypeOK, Mounting
<1>6. CASE Add(c)
  BY <1>1, <1>2, <1>6 DEF Add, Go, TypeOK, Mounting
<1>7. CASE Lookup(c)
  <2>1. job[c].op # "mount"
    BY <1>1, <1>7 DEF Lookup, ClientPlaced
  <2>2. permits' = permits
    BY <1>7 DEF Lookup
  <2>3. CASE Return(c)
    BY <1>2, <2>2, <2>3
  <2>4. CASE job' = job
    BY <2>1, <2>2, <2>4
  <2>5. CASE job' = [job EXCEPT ![c].op = "removeUnmount"]
    BY <1>1, <2>2, <2>5 DEF TypeOK, Job
  <2> QED
    BY <1>7, <2>3, <2>4, <2>5 DEF Lookup
<1>8. CASE UnmountSucceeds(c) \/ UnmountFails(c)
  <2>1. permits' = permits
    BY <1>8 DEF UnmountSucceeds, UnmountFails
  <2>2. CASE Return(c)
    BY <1>2, <2>1, <2>2
  <2>3. CASE job' = job /\ job[c].op # "mount"
    BY <2>1, <2>3
  <2> QED
    BY <1>8, <2>2, <2>3 DEF UnmountSucceeds, UnmountFails
<1>9. CASE SetDisabled(c) \/ Toggle(c)
  BY <1>1, <1>2, <1>9 DEF SetDisabled, Toggle, Go, TypeOK, Mounting
<1>10. CASE Erase(c)
  <2>1. permits' = permits
    BY <1>10 DEF Erase
  <2>2. CASE Return(c)
    BY <1>2, <2>1, <2>2
  <2>3. CASE Go(c, "unmountCmd") \/ Go(c, "trunc")
    BY <1>1, <2>1, <2>3 DEF Go, TypeOK, Mounting
  <2> QED
    BY <1>10, <2>2, <2>3 DEF Erase
<1>11. CASE BeginSave(c) \/ OpenTmp(c) \/ WriteData(c)
  BY <1>1, <1>2, <1>11 DEF BeginSave, OpenTmp, WriteData, Go, TypeOK, Mounting
<1>12. CASE Rename(c) \/ LateRename(c) \/ LateCommand(c)
  BY <1>2, <1>12 DEF Rename, LateRename, LateCommand
<1>13. CASE SaveFails(c)
  <2>1. permits' = permits
    BY <1>13 DEF SaveFails
  <2>2. CASE Go(c, "rollback")
    BY <1>1, <2>1, <2>2 DEF Go, TypeOK, Mounting
  <2> QED
    BY <1>2, <1>13, <2>1, <2>2 DEF SaveFails
<1>14. CASE TimeOut(c)
  <2>1. job'[c].op = "none" /\ permits' = permits
    BY <1>1, <1>14, NoJobType DEF TimeOut, TypeOK, Job
  <2> QED
    BY <2>1
<1> QED
  BY <1>4, <1>5, <1>6, <1>7, <1>8, <1>9, <1>10, <1>11, <1>12, <1>13, <1>14
  DEF ClientStep

-----------------------------------------------------------------------------
(* Permits                                                                  *)

\* Replacing i by j in a sum.
LEMMA Exchange ==
    ASSUME NEW p \in Nat, NEW q \in Nat, NEW n \in Nat, NEW max \in Nat,
           NEW i \in 0..1, NEW j \in 0..1, p + (n + i) <= max, q + j <= p + i
    PROVE  q + (n + j) <= max
  OBVIOUS

\* A step of c that frees no more permits than c gives up.
LEMMA PermitsFrame ==
    ASSUME TypeOK, TypeOK', PermitsBounded, NEW c \in Clients,
           \A d \in Clients \ {c} : HoldsPermit(d)' <=> HoldsPermit(d),
           permits' + (IF HoldsPermit(c)' THEN 1 ELSE 0)
               <= permits + (IF HoldsPermit(c) THEN 1 ELSE 0)
    PROVE  PermitsBounded'
<1> DEFINE others == {d \in Clients \ {c} : HoldsPermit(d)}
<1>1. IsFiniteSet(others) /\ c \notin others
  BY ConstantsInRange, FS_Subset
<1>2. Cardinality(others) \in Nat /\ Cardinality(others \cup {c}) = Cardinality(others) + 1
  BY <1>1, FS_CardinalityType, FS_AddElement
<1>3. Holders = IF HoldsPermit(c) THEN others \cup {c} ELSE others
  BY DEF Holders
<1>4. Holders' = IF HoldsPermit(c)' THEN others \cup {c} ELSE others
  BY DEF Holders
<1>5. permits \in Nat /\ permits' \in Nat /\ MaxPermits \in Nat
  BY ConstantsInRange DEF TypeOK
<1>6. Cardinality(Holders) = Cardinality(others) + IF HoldsPermit(c) THEN 1 ELSE 0
  BY <1>2, <1>3
<1>7. Cardinality(Holders') = Cardinality(others) + IF HoldsPermit(c)' THEN 1 ELSE 0
  BY <1>2, <1>4
<1>8. permits + Cardinality(Holders) <= MaxPermits
  BY DEF PermitsBounded
<1>9. permits' + Cardinality(Holders') <= MaxPermits
  <2> DEFINE n == Cardinality(others)
             held == IF HoldsPermit(c) THEN 1 ELSE 0
             held1 == IF HoldsPermit(c)' THEN 1 ELSE 0
  <2>1. /\ n \in Nat /\ held \in 0..1 /\ held1 \in 0..1
        /\ permits + (n + held) <= MaxPermits /\ permits' + held1 <= permits + held
    BY <1>2, <1>6, <1>8
  <2>2. Cardinality(Holders') = n + held1
    BY <1>7
  <2> HIDE DEF n, held, held1
  <2>3. permits' + (n + held1) <= MaxPermits
    BY <1>5, <2>1, Exchange
  <2> QED
    BY <2>2, <2>3
<1> QED
  BY <1>9 DEF PermitsBounded

\* Steps that touch neither the permits nor a request.
LEMMA PermitsElsewhere ==
    ASSUME PermitsBounded, permits' = permits,
           \A c \in Clients : pc'[c] = pc[c] /\ job'[c] = job[c]
    PROVE  PermitsBounded'
<1>1. Holders' = Holders
  BY DEF Holders, HoldsPermit
<1> QED
  BY <1>1 DEF PermitsBounded

\* mount_with_retry gives back what it stops to hold, and no more.
LEMMA PermitsAttempt ==
    ASSUME IndInv, NEW c \in Clients, Attempt(c)
    PROVE  permits' + (IF HoldsPermit(c)' THEN 1 ELSE 0)
               <= permits + (IF HoldsPermit(c) THEN 1 ELSE 0)
<1>1. /\ c \in Tasks /\ ClientPlaced(c) /\ TypeOK /\ job[c] \in Job /\ permits \in Nat
      /\ pc \in [Tasks -> Points] /\ job \in [Tasks -> Job]
  BY DEF Tasks, IndInv, Placed, TypeOK
<1>2. ASSUME Return(c) PROVE ~HoldsPermit(c)'
  BY <1>1, <1>2, ReturnOp DEF HoldsPermit
<1>3. ASSUME GiveBackPermit(c), ~HoldsPermit(c)'
      PROVE  permits' + (IF HoldsPermit(c)' THEN 1 ELSE 0)
                 <= permits + (IF HoldsPermit(c) THEN 1 ELSE 0)
  BY <1>1, <1>3 DEF GiveBackPermit
<1>4. ASSUME MountFailed(c) PROVE GiveBackPermit(c) /\ ~HoldsPermit(c)'
  <2>1. CASE Go(c, "markError")
    BY <1>1, <1>4, <2>1 DEF MountFailed, Go, HoldsPermit
  <2> QED
    BY <1>2, <1>4, <2>1 DEF MountFailed
<1>5. CASE PreUnmount(c)
  <2>1. pc[c] = "preUnmount" /\ pc'[c] = "mountCmd" /\ permits' = permits
    BY <1>1, <1>5 DEF PreUnmount, Go
  <2>2. job'[c].op = job[c].op
    BY <1>1, <1>5 DEF PreUnmount, Job
  <2> QED
    BY <1>1, <2>1, <2>2 DEF HoldsPermit
<1>6. CASE BreakerOpen(c)
  BY <1>3, <1>4, <1>6 DEF BreakerOpen
<1>7. CASE MountSucceeds(c)
  BY <1>1, <1>7 DEF MountSucceeds, Go, HoldsPermit
<1>8. CASE MountFails(c)
  <2>1. CASE Go(c, "preUnmount") /\ UNCHANGED <<job, permits>>
    BY <1>1, <1>8, <2>1 DEF MountFails, Go, HoldsPermit
  <2> QED
    BY <1>3, <1>4, <1>8, <2>1 DEF MountFails
<1>9. CASE MarkActive(c)
  <2>1. CASE Go(c, "add")
    BY <1>1, <1>3, <1>9, <2>1 DEF MarkActive, Go, HoldsPermit
  <2> QED
    BY <1>2, <1>3, <1>9, <2>1 DEF MarkActive
<1> QED
  BY <1>5, <1>6, <1>7, <1>8, <1>9 DEF Attempt

\* A step of a request.
LEMMA PermitsClient ==
    ASSUME IndInv, TypeOK', PermitsBounded, NEW c \in Clients,
           \/ \E op \in Requests, s \in Shares : Begin(c, op, s)
           \/ ClientStep(c) \/ TimeOut(c) \/ Attempt(c)
    PROVE  PermitsBounded'
<1>1. /\ c \in Tasks /\ ClientPlaced(c) /\ TypeOK /\ permits \in Nat
      /\ pc \in [Tasks -> Points] /\ Clients \subseteq Tasks
  BY DEF Tasks, IndInv, Placed, TypeOK
<1>2. \A d \in Clients \ {c} : HoldsPermit(d)' <=> HoldsPermit(d)
  BY <1>1, ClientStays DEF OthersStay, HoldsPermit
<1>3. permits' + (IF HoldsPermit(c)' THEN 1 ELSE 0)
         <= permits + (IF HoldsPermit(c) THEN 1 ELSE 0)
  <2>1. CASE AcquirePermit(c)
    BY <1>1, <2>1 DEF AcquirePermit, Go, HoldsPermit
  <2>2. CASE Attempt(c)
    BY <2>2, PermitsAttempt
  <2>3. CASE ~AcquirePermit(c) /\ ~Attempt(c)
    <3>1. permits' = permits /\ ~HoldsPermit(c)'
      BY <2>3, OtherSteps DEF HoldsPermit, Mounting
    <3> QED
      BY <1>1, <3>1
  <2> QED
    BY <2>1, <2>2, <2>3
<1> QED
  BY <1>1, <1>2, <1>3, PermitsFrame

\* The monitor mounts without a permit, and gives none back.
LEMMA PermitsMonitor ==
    ASSUME IndInv, PermitsBounded, Attempt(Monitor) \/ MonitorStep
    PROVE  PermitsBounded'
<1>1. OthersStay(Monitor)
  BY MonitorAttemptInd, MonitorStepInd
<1>2. \A c \in Clients : c \in Tasks \ {Monitor}
  BY ConstantsDistinct DEF Tasks
<1>3. permits' = permits
  <2>1. ~HoldsPermit(Monitor)
    BY DEF IndInv, Placed, MonitorPlaced, HoldsPermit
  <2>2. CASE Attempt(Monitor)
    BY <2>1, <2>2 DEF Attempt, PreUnmount, BreakerOpen, MountSucceeds, MountFails,
       MarkActive, MountFailed, GiveBackPermit
  <2>3. CASE MonitorStep
    BY <2>3 DEF MonitorStep, AutoMountSet, HealthSet, ReconnectSet, Snapshot, AutoMount,
       Healthy, Unhealthy, SkipRedial, Redial, Take, EndOfRound, MarkFailed,
       MarkReconnecting, MarkError
  <2> QED
    BY <2>2, <2>3
<1> QED
  BY <1>1, <1>2, <1>3, PermitsElsewhere DEF OthersStay

\* At a start all permits are free and no request holds one.
LEMMA AllPermits ==
    ASSUME \A c \in Clients : pc[c] = "idle", permits = MaxPermits
    PROVE  PermitsBounded
<1>1. Holders = {}
  BY DEF Holders, HoldsPermit
<1> QED
  BY <1>1, FS_EmptySet, ConstantsInRange DEF PermitsBounded

\* A restart begins with all permits.
LEMMA PermitsMain ==
    ASSUME IndInv, PermitsBounded, Signal \/ MainStep \/ Crash
    PROVE  PermitsBounded'
<1>1. pc \in [Tasks -> Points] /\ \A c \in Clients : c \in Tasks /\ c # Main /\ c # Monitor
  BY ConstantsDistinct DEF Tasks, IndInv, TypeOK
<1>2. CASE Signal \/ Cleanup
  BY <1>1, <1>2, PermitsElsewhere DEF Signal, Cleanup, Go
<1>3. ASSUME NEW s \in Shares, CloseShare(s) PROVE PermitsBounded'
  BY <1>3, PermitsElsewhere DEF CloseShare, taskVars
<1>4. CASE Exit \/ Crash
  <2>1. permits' = MaxPermits /\ \A c \in Clients : pc'[c] = "idle"
    BY <1>1, <1>4 DEF Exit, Crash, Boot, Fresh
  <2>2. Holders' = {}
    BY <2>1 DEF Holders, HoldsPermit
  <2> QED
    BY <2>1, <2>2, FS_EmptySet, ConstantsInRange DEF PermitsBounded
<1> QED
  BY <1>2, <1>3, <1>4 DEF MainStep

\* Every step keeps the bound.
LEMMA PermitsNext ==
    ASSUME IndInv, PermitsBounded, [Next]_vars
    PROVE  PermitsBounded'
<1>1. TypeOK'
  BY NextInd DEF IndInv
<1>2. ASSUME NEW c \in Clients,
             \/ \E op \in Requests, s \in Shares : Begin(c, op, s)
             \/ ClientStep(c) \/ TimeOut(c) \/ Attempt(c)
      PROVE  PermitsBounded'
  BY <1>1, <1>2, PermitsClient
<1>3. CASE Attempt(Monitor) \/ MonitorStep
  BY <1>3, PermitsMonitor
<1>4. CASE \E t \in Tasks : AwaitLock(t)
  BY <1>4, PermitsElsewhere DEF AwaitLock, taskVars
<1>5. CASE Signal \/ MainStep \/ Crash
  BY <1>5, PermitsMain
<1>6. CASE UNCHANGED vars
  BY <1>6, PermitsElsewhere DEF vars, taskVars
<1> QED
  BY <1>2, <1>3, <1>4, <1>5, <1>6 DEF Next

\* However mounts end - success, failure, an open breaker, a dropped request - the
\* semaphore never has more permits than max_concurrent_mounts.
THEOREM PermitsCorrect == Spec => []PermitsBounded
<1>1. ASSUME Init PROVE PermitsBounded
  <2>1. \A c \in Clients : pc[c] = "idle"
    BY <1>1, ConstantsDistinct DEF Init, Fresh, Tasks
  <2> QED
    BY <1>1, <2>1, AllPermits DEF Init
<1>2. IndInv /\ PermitsBounded /\ [Next]_vars => PermitsBounded'
  BY PermitsNext
<1>3. Spec => []IndInv
  BY TypeCorrect DEF IndInv
<1> QED
  BY <1>1, <1>2, <1>3, PTL DEF Spec

-----------------------------------------------------------------------------
(* Only proven shares are stored                                            *)

\* Every entry of a content is of a share in p; markers hold no entries.
Backed(content, p) ==
    content \in {Torn, NoFile} \/ \A s \in Shares : content[s] # Absent => s \in p

\* OnlyProven is not inductive: it does not say that a mount which is about to
\* add its share has seen its command succeed.
ProvenInv ==
    /\ Backed(mem, proved) /\ Backed(disk, proved) /\ Backed(tmp, proved)
    /\ \A t \in Tasks : Backed(buf[t], proved)
    /\ \A c \in Clients :
          job[c].op = "mount" /\ pc[c] \in {"markActive", "add"} => Share(c) \in proved

\* The strengthened invariant implies the one that is checked.
LEMMA ProvenImplies == ProvenInv => OnlyProven
  BY DEF ProvenInv, OnlyProven, Stored, Backed

\* More proven shares back the same content.
LEMMA BackedGrows ==
    ASSUME NEW p, NEW q, p \subseteq q, NEW content, Backed(content, p)
    PROVE  Backed(content, q)
  BY DEF Backed

\* Files and serialized texts are only ever copied from what is already stored.
Copied ==
    /\ disk' \in {disk, tmp} \cup {buf[t] : t \in Tasks}
    /\ tmp' \in {tmp, Torn, NoFile} \cup {buf[t] : t \in Tasks}
    /\ \A t \in Tasks : buf'[t] \in {buf[t], NoFile, mem, mem'}

\* A step that proves shares and copies contents.
LEMMA ProvenFrame ==
    ASSUME ProvenInv, proved \subseteq proved', Copied, Backed(mem', proved'),
           \A c \in Clients :
               job'[c].op = "mount" /\ pc'[c] \in {"markActive", "add"}
                   => Share(c)' \in proved'
    PROVE  ProvenInv'
<1>1. /\ Backed(mem, proved') /\ Backed(disk, proved') /\ Backed(tmp, proved')
      /\ \A t \in Tasks : Backed(buf[t], proved')
  BY BackedGrows DEF ProvenInv
<1>2. Backed(Torn, proved') /\ Backed(NoFile, proved')
  BY DEF Backed
<1>3. Backed(disk', proved') /\ Backed(tmp', proved')
  BY <1>1, <1>2 DEF Copied
<1>4. \A t \in Tasks : Backed(buf'[t], proved')
  BY <1>1, <1>2 DEF Copied
<1> QED
  BY <1>3, <1>4 DEF ProvenInv

\* Setting the entry of one share that is present, or proven.
LEMMA BackedUpdate ==
    ASSUME NEW old \in Content, NEW p, Backed(old, p), NEW s \in Shares, NEW e,
           s \in p \/ e = Absent
    PROVE  Backed([old EXCEPT ![s] = e], p)
<1>1. old \notin {Torn, NoFile}
  BY ConstantsDistinct
<1> QED
  BY <1>1 DEF Backed, Content

\* A change of status adds no entry.
LEMMA BackedStatus ==
    ASSUME TypeOK, ProvenInv, NEW s \in Shares, NEW st, SetStatus(s, st)
    PROVE  Backed(mem', proved)
<1>1. mem \in Content /\ Backed(mem, proved) /\ mem \notin {Torn, NoFile}
  BY ConstantsDistinct DEF TypeOK, ProvenInv
<1>2. mem' = [mem EXCEPT ![s] = IF mem[s] = Absent THEN Absent
                               ELSE [mem[s] EXCEPT !.status = st]]
  BY DEF SetStatus
<1>3. s \in proved \/ mem[s] = Absent
  BY <1>1 DEF Backed
<1> QED
  BY <1>1, <1>2, <1>3, BackedUpdate

\* What a step of a request does to the configuration and to the files.
LEMMA ProvenMem ==
    ASSUME IndInv, ProvenInv, NEW c \in Clients,
           \/ \E op \in Requests, s \in Shares : Begin(c, op, s)
           \/ ClientStep(c) \/ TimeOut(c) \/ Attempt(c)
    PROVE  Backed(mem', proved') /\ proved \subseteq proved' /\ Copied
<1>1. /\ c \in Tasks /\ ClientPlaced(c) /\ TypeOK /\ mem \in Content
      /\ buf \in [Tasks -> Content \cup {NoFile}] /\ Backed(mem, proved)
  BY DEF Tasks, IndInv, Placed, TypeOK, ProvenInv
<1>2. CASE \/ \E op \in Requests, s \in Shares : Begin(c, op, s)
           \/ MountExists(c) \/ AcquirePermit(c) \/ Lookup(c) \/ PreUnmount(c)
           \/ BreakerOpen(c) \/ MountFails(c) \/ UnmountSucceeds(c) \/ UnmountFails(c)
           \/ TimeOut(c)
  <2>1. UNCHANGED <<mem, disk, tmp, buf, proved>>
    BY <1>2 DEF Begin, MountExists, AcquirePermit, Lookup, PreUnmount, BreakerOpen,
       MountFails, UnmountSucceeds, UnmountFails, TimeOut, fileVars
  <2> QED
    BY <1>1, <2>1 DEF Copied
<1>3. CASE MountSucceeds(c) \/ LateCommand(c)
  <2>1. UNCHANGED <<mem, disk, tmp, buf>> /\ proved \subseteq proved'
    BY <1>3 DEF MountSucceeds, LateCommand, fileVars
  <2> QED
    BY <1>1, <2>1, BackedGrows DEF Copied
<1>4. CASE MarkActive(c)
  <2>1. Share(c) \in Shares /\ UNCHANGED <<disk, tmp, buf, proved>>
    BY <1>1, <1>4 DEF MarkActive, ClientPlaced, fileVars
  <2>2. Backed(mem', proved)
    BY <1>1, <1>4, <2>1, BackedStatus DEF MarkActive
  <2> QED
    BY <2>1, <2>2 DEF Copied
<1>5. CASE Add(c)
  <2>1. Share(c) \in Shares /\ ByMount(c) /\ UNCHANGED <<disk, tmp, buf>>
    BY <1>1, <1>5 DEF Add, ClientPlaced, fileVars
  <2>2. proved \subseteq proved' /\ Share(c) \in proved'
    BY <1>5, <2>1 DEF Add, ByMount, ProvenInv
  <2>3. PICK e : mem' = [mem EXCEPT ![Share(c)] = e]
    BY <1>5 DEF Add
  <2>4. Backed(mem', proved')
    BY <1>1, <2>1, <2>2, <2>3, BackedGrows, BackedUpdate
  <2> QED
    BY <2>1, <2>2, <2>4 DEF Copied
<1>6. CASE SetDisabled(c) \/ Toggle(c)
  <2>1. Share(c) \in Shares /\ UNCHANGED <<disk, tmp, buf, proved>>
    BY <1>1, <1>6 DEF SetDisabled, Toggle, ClientPlaced, fileVars
  <2>2. CASE mem' = mem
    BY <1>1, <2>1, <2>2 DEF Copied
  <2>3. CASE mem' # mem
    <3>1. PICK e : Present(Share(c)) /\ mem' = [mem EXCEPT ![Share(c)] = e]
      BY <1>6, <2>3 DEF SetDisabled, Toggle
    <3>2. Share(c) \in proved
      BY <1>1, <2>1, <3>1, ConstantsDistinct DEF Present, Backed
    <3>3. Backed(mem', proved)
      BY <1>1, <2>1, <3>1, <3>2, BackedUpdate
    <3> QED
      BY <2>1, <3>3 DEF Copied
  <2> QED
    BY <2>2, <2>3
<1>7. CASE Erase(c)
  <2>1. Share(c) \in Shares /\ UNCHANGED <<disk, tmp, proved>>
    BY <1>1, <1>7 DEF Erase, ClientPlaced
  <2>2. Backed(mem', proved)
    BY <1>1, <1>7, <2>1, BackedUpdate DEF Erase
  <2>3. buf' = buf \/ buf' = [buf EXCEPT ![c] = mem']
    BY <1>7 DEF Erase
  <2> QED
    BY <1>1, <2>1, <2>2, <2>3 DEF Copied
<1>8. CASE BeginSave(c)
  BY <1>1, <1>8 DEF BeginSave, Copied
<1>9. CASE OpenTmp(c)
  BY <1>1, <1>9 DEF OpenTmp, Copied
<1>10. CASE WriteData(c)
  <2>1. /\ UNCHANGED <<mem, proved>> /\ buf' = [buf EXCEPT ![c] = NoFile]
        /\ disk' \in {disk, buf[c]} /\ tmp' \in {tmp, buf[c], NoFile}
    BY <1>10 DEF WriteData, LeftBy
  <2> QED
    BY <1>1, <2>1 DEF Copied
<1>11. CASE Rename(c) \/ LateRename(c)
  <2>1. UNCHANGED <<mem, buf, proved>> /\ disk' \in {disk, tmp} /\ tmp' \in {tmp, NoFile}
    BY <1>11 DEF Rename, LateRename, RenameTmp, LeftBy
  <2> QED
    BY <1>1, <2>1 DEF Copied
<1>12. CASE SaveFails(c)
  <2>1. /\ UNCHANGED <<disk, proved>> /\ tmp' \in {tmp, NoFile}
        /\ buf' = [buf EXCEPT ![c] = NoFile] /\ Share(c) \in Shares
    BY <1>1, <1>12 DEF SaveFails, LeftBy, ClientPlaced, SavePoints
  <2>2. Backed(mem', proved)
    <3>1. CASE \E st : SetStatus(Share(c), st)
      BY <1>1, <2>1, <3>1, BackedStatus
    <3>2. CASE mem' = [mem EXCEPT ![Share(c)] =
                         IF mem[Share(c)] = Absent THEN Absent
                         ELSE [mem[Share(c)] EXCEPT !.enabled = job[c].prev.enabled]]
      <4>1. Share(c) \in proved \/ mem[Share(c)] = Absent
        BY <1>1, <2>1, ConstantsDistinct DEF Backed
      <4> QED
        BY <1>1, <2>1, <3>2, <4>1, BackedUpdate
    <3> QED
      BY <1>1, <1>12, <3>1, <3>2 DEF SaveFails
  <2> QED
    BY <1>1, <2>1, <2>2 DEF Copied
<1> QED
  BY <1>2, <1>3, <1>4, <1>5, <1>6, <1>7, <1>8, <1>9, <1>10, <1>11, <1>12
  DEF ClientStep, Attempt

\* A mount comes to the points after its command only through a success.
LEMMA ProvenPoint ==
    ASSUME IndInv, ProvenInv, NEW c \in Clients,
           \/ \E op \in Requests, s \in Shares : Begin(c, op, s)
           \/ ClientStep(c) \/ TimeOut(c) \/ Attempt(c),
           job'[c].op = "mount", pc'[c] \in {"markActive", "add"}
    PROVE  Share(c)' \in proved'
<1>1. /\ c \in Tasks /\ TypeOK /\ pc \in [Tasks -> Points] /\ job \in [Tasks -> Job]
  BY DEF Tasks, IndInv, TypeOK
<1>2. ~Return(c)
  BY <1>1, ReturnOp
<1>3. AcquirePermit(c) \/ Attempt(c)
  BY OtherSteps DEF Mounting
<1>4. CASE MountSucceeds(c)
  BY <1>4 DEF MountSucceeds, Share
<1>5. CASE MarkActive(c)
  BY <1>2, <1>5 DEF MarkActive, Share, ProvenInv
<1>6. CASE AcquirePermit(c) \/ PreUnmount(c)
  BY <1>1, <1>6 DEF AcquirePermit, PreUnmount, Go
<1>7. CASE BreakerOpen(c) \/ MountFails(c)
  BY <1>1, <1>2, <1>7 DEF BreakerOpen, MountFails, MountFailed, Go
<1> QED
  BY <1>3, <1>4, <1>5, <1>6, <1>7 DEF Attempt

\* A step of a request.
LEMMA ProvenClient ==
    ASSUME IndInv, ProvenInv, NEW c \in Clients,
           \/ \E op \in Requests, s \in Shares : Begin(c, op, s)
           \/ ClientStep(c) \/ TimeOut(c) \/ Attempt(c)
    PROVE  ProvenInv'
<1>1. Backed(mem', proved') /\ proved \subseteq proved' /\ Copied
  BY ProvenMem
<1>2. ASSUME NEW d \in Clients,
             job'[d].op = "mount" /\ pc'[d] \in {"markActive", "add"}
      PROVE  Share(d)' \in proved'
  <2>1. CASE d = c
    BY <1>2, <2>1, ProvenPoint
  <2>2. CASE d # c
    BY <1>1, <1>2, <2>2, ClientStays DEF OthersStay, ProvenInv, Share, Tasks
  <2> QED
    BY <2>1, <2>2
<1> QED
  BY <1>1, <1>2, ProvenFrame

\* Steps that leave files and requests alone.
LEMMA ProvenElsewhere ==
    ASSUME ProvenInv, proved \subseteq proved', UNCHANGED <<disk, tmp, buf>>,
           Backed(mem', proved'),
           \A c \in Clients : pc'[c] = pc[c] /\ job'[c] = job[c]
    PROVE  ProvenInv'
<1>1. Copied
  BY DEF Copied
<1> QED
  BY <1>1, ProvenFrame DEF ProvenInv, Share

\* The monitor sets statuses only.
LEMMA ProvenMonitor ==
    ASSUME IndInv, ProvenInv, Attempt(Monitor) \/ MonitorStep
    PROVE  ProvenInv'
<1>1. OthersStay(Monitor)
  BY MonitorAttemptInd, MonitorStepInd
<1>2. \A c \in Clients : c \in Tasks \ {Monitor}
  BY ConstantsDistinct DEF Tasks
<1>3. UNCHANGED <<disk, tmp, buf>> /\ proved \subseteq proved'
  <2>1. CASE Attempt(Monitor)
    BY <2>1 DEF Attempt, PreUnmount, BreakerOpen, MountSucceeds, MountFails, MarkActive,
       fileVars
  <2>2. CASE MonitorStep
    BY <2>2 DEF MonitorStep, AutoMountSet, HealthSet, ReconnectSet, Snapshot, AutoMount,
       Healthy, Unhealthy, SkipRedial, Redial, Take, EndOfRound, MarkFailed,
       MarkReconnecting, MarkError, fileVars
  <2> QED
    BY <2>1, <2>2
<1>4. Backed(mem', proved)
  <2>1. TypeOK /\ MonitorPlaced /\ Backed(mem, proved)
    BY DEF IndInv, Placed, ProvenInv
  <2>2. CASE MarkActive(Monitor) \/ MarkFailed \/ MarkReconnecting \/ MarkError
    <3>1. Share(Monitor) \in Shares
      BY <2>1, <2>2
      DEF MonitorPlaced, MarkActive, MarkFailed, MarkReconnecting, MarkError
    <3>2. \E st : SetStatus(Share(Monitor), st)
      BY <2>2 DEF MarkActive, MarkFailed, MarkReconnecting, MarkError
    <3> QED
      BY <2>1, <3>1, <3>2, BackedStatus
  <2>3. CASE mem' = mem
    BY <2>1, <2>3
  <2>4. CASE Attempt(Monitor)
    BY <2>2, <2>3, <2>4
    DEF Attempt, PreUnmount, BreakerOpen, MountSucceeds, MountFails
  <2>5. CASE MonitorStep
    BY <2>2, <2>3, <2>5
    DEF MonitorStep, AutoMountSet, HealthSet, ReconnectSet, Snapshot, AutoMount,
        Healthy, Unhealthy, SkipRedial, Redial, Take, EndOfRound
  <2> QED
    BY <2>4, <2>5
<1> QED
  BY <1>1, <1>2, <1>3, <1>4, BackedGrows, ProvenElsewhere DEF OthersStay

\* A restart loads what was stored, or nothing.
LEMMA ProvenMain ==
    ASSUME IndInv, ProvenInv, Signal \/ MainStep \/ Crash
    PROVE  ProvenInv'
<1>1. pc \in [Tasks -> Points] /\ \A c \in Clients : c \in Tasks /\ c # Main /\ c # Monitor
  BY ConstantsDistinct DEF Tasks, IndInv, TypeOK
<1>2. Backed(mem, proved) /\ Backed(disk, proved)
  BY DEF ProvenInv
<1>3. CASE Signal \/ Cleanup
  BY <1>1, <1>2, <1>3, ProvenElsewhere DEF Signal, Cleanup, Go, fileVars
<1>4. ASSUME NEW s \in Shares, CloseShare(s) PROVE ProvenInv'
  BY <1>2, <1>4, ProvenElsewhere DEF CloseShare, taskVars, fileVars
<1>5. CASE Exit \/ Crash
  <2>1. /\ mem' = Loaded /\ disk' = disk /\ tmp' = NoFile /\ proved' = proved
        /\ \A t \in Tasks : buf'[t] = NoFile
        /\ \A c \in Clients : pc'[c] = "idle"
    BY <1>1, <1>5 DEF Exit, Crash, Boot, Fresh
  <2>2. Backed(NoFile, proved) /\ Backed(Empty, proved)
    BY DEF Backed, Empty
  <2>3. Backed(mem', proved)
    BY <1>2, <2>1, <2>2 DEF Loaded
  <2> QED
    BY <1>2, <2>1, <2>2, <2>3 DEF ProvenInv
<1> QED
  BY <1>3, <1>4, <1>5 DEF MainStep

\* Every step keeps the strengthened invariant.
LEMMA ProvenNext ==
    ASSUME IndInv, ProvenInv, [Next]_vars
    PROVE  ProvenInv'
<1>1. ASSUME NEW c \in Clients,
             \/ \E op \in Requests, s \in Shares : Begin(c, op, s)
             \/ ClientStep(c) \/ TimeOut(c) \/ Attempt(c)
      PROVE  ProvenInv'
  BY <1>1, ProvenClient
<1>2. CASE Attempt(Monitor) \/ MonitorStep
  BY <1>2, ProvenMonitor
<1>3. Backed(mem, proved)
  BY DEF ProvenInv
<1>4. CASE \E t \in Tasks : AwaitLock(t)
  BY <1>3, <1>4, ProvenElsewhere DEF AwaitLock, taskVars, fileVars
<1>5. CASE Signal \/ MainStep \/ Crash
  BY <1>5, ProvenMain
<1>6. CASE UNCHANGED vars
  BY <1>3, <1>6, ProvenElsewhere DEF vars, taskVars, fileVars
<1> QED
  BY <1>1, <1>2, <1>4, <1>5, <1>6 DEF Next

\* A share that no mount command ever succeeded for, and nobody added with
\* --disable, never gets into the configuration, mounts.toml, the temporary file or
\* a text being saved.
THEOREM OnlyProvenCorrect == Spec => []OnlyProven
<1>1. ASSUME Init PROVE ProvenInv
  <2>1. \A c \in Clients : pc[c] = "idle"
    BY <1>1, ConstantsDistinct DEF Init, Fresh, Tasks
  <2> QED
    BY <1>1, <2>1 DEF Init, ProvenInv, Backed, Empty
<1>2. IndInv /\ ProvenInv /\ [Next]_vars => ProvenInv'
  BY ProvenNext
<1>3. Spec => []IndInv
  BY TypeCorrect DEF IndInv
<1> QED
  BY <1>1, <1>2, <1>3, ProvenImplies, PTL DEF Spec
=============================================================================
