------------------------- MODULE MountDaemonProofs -------------------------
(***************************************************************************)
(* Proofs about MountDaemon for any number of shares, clients, permits,    *)
(* attempts and restarts, and for every kind of daemon the other constants *)
(* describe.                                                               *)
(*                                                                         *)
(* TypeOK is not inductive: it does not say that a task which is about to  *)
(* write a text has one, or which share a task works on.  Placed adds what *)
(* each point of a handler relies on; their conjunction is inductive.      *)
(***************************************************************************)
EXTENDS MountDaemon, TLAPS

ClientPoints == {"idle", "exists", "permit", "preUnmount", "mountCmd", "markActive",
                 "add", "saveRead", "saveWrite", "trunc", "data", "rename", "rollback",
                 "lookup", "unmountCmd", "setDisabled", "toggle", "erase"} \cup LatePoints

Restorable == {"unmount", "removeUnmount", "enable", "disable"}

\* What a client's task relies on at the point where it stands.
ClientPlaced(c) ==
    /\ pc[c] \in ClientPoints
    /\ job[c].op \in ClientOps \cup {"none"}
    /\ pc[c] # "idle" => Share(c) \in Shares
    /\ job[c].op = "none" => pc[c] \in {"idle"} \cup LatePoints
    /\ pc[c] \in {"exists", "add", "saveRead", "rollback"} => ByMount(c)
    /\ pc[c] \in {"permit", "preUnmount"} => job[c].op = "mount" /\ job[c].tries < MaxTries
    /\ pc[c] = "exists" => job[c].tries = 0
    /\ pc[c] \in {"mountCmd", "markActive"} => job[c].op \in {"mount", "remount"}
    /\ pc[c] = "lookup" => job[c].op \in {"unmount", "remove", "removeUnmount", "remount"}
    /\ pc[c] = "setDisabled" => job[c].op \in {"unmount", "removeUnmount"}
    /\ pc[c] = "toggle" => job[c].op \in {"enable", "disable"}
    /\ pc[c] = "saveWrite" => job[c].op \in Restorable /\ job[c].prev \in Entry
    /\ pc[c] = "erase" => job[c].op = "remove"
    /\ pc[c] \in SavePoints =>
          \/ ByMount(c) \/ job[c].op = "remove"
          \/ job[c].op \in Restorable /\ job[c].prev \in Entry
    /\ pc[c] \in {"trunc", "data", "lateTrunc", "lateData"} => buf[c] \in Content
    /\ fd[c] # "none" => pc[c] \in {"data", "lateData"}

MonitorPoints == {"boot", "auto", "health", "probe", "reconnect", "redial", "preUnmount",
                  "mountCmd", "markActive", "markFailed", "markReconnecting", "markError"}

MonitorPlaced ==
    /\ pc[Monitor] \in MonitorPoints
    /\ job[Monitor].op \in {"none", "auto", "health", "reconnect"}
    /\ job[Monitor].op # "none" => Share(Monitor) \in Shares
    /\ pc[Monitor] \in {"preUnmount", "mountCmd", "markActive"} =>
          job[Monitor].op \in {"auto", "reconnect"}
    /\ pc[Monitor] = "preUnmount" => job[Monitor].tries < MaxTries
    /\ pc[Monitor] = "markFailed" => job[Monitor].op = "health"
    /\ pc[Monitor] \in {"markReconnecting", "markError"} =>
          job[Monitor].op = "reconnect"
    /\ pc[Monitor] = "markReconnecting" => job[Monitor].tries = 0

Placed ==
    /\ \A c \in Clients : ClientPlaced(c)
    /\ MonitorPlaced
    /\ pc[Main] \in {"up", "closing", "closeCmd"}

IndInv == TypeOK /\ Placed

-----------------------------------------------------------------------------
\* The initial state satisfies the inductive invariant.
LEMMA InitInd == Init => IndInv
<1> SUFFICES ASSUME Init PROVE IndInv
  OBVIOUS
<1> USE ConstantsDistinct, ConstantsInRange
<1>1. TypeOK
  BY DEF Init, TypeOK, Fresh, Points, ReadPoints, WritePoints, SavePoints, LatePoints,
         Empty, Content, Job, NoJob, NewJob, Ops, ClientOps, Tasks
<1>2. Placed
  BY DEF Init, Placed, ClientPlaced, MonitorPlaced, ClientPoints, MonitorPoints, Fresh,
         NoJob, NewJob, Tasks, SavePoints
<1> QED
  BY <1>1, <1>2 DEF IndInv

-----------------------------------------------------------------------------
(* The pieces actions are made of.                                          *)

\* A new job is a job, with the fields it was made from.
LEMMA NewJobType ==
    ASSUME NEW op \in Ops, NEW s \in Shares \cup {NoShare}
    PROVE  /\ NewJob(op, s) \in Job
           /\ NewJob(op, s).op = op /\ NewJob(op, s).share = s
           /\ NewJob(op, s).tries = 0
  BY ConstantsInRange DEF NewJob, Job

\* A task between requests has a job too, of kind "none".
LEMMA NoJobType == NoJob \in Job /\ NoJob.op = "none"
  BY NewJobType DEF NoJob, Ops

\* A job that differs from a good one in one field.
LEMMA JobFields ==
    ASSUME NEW j \in Job, NEW op \in Ops, NEW e \in Entry \cup {Absent},
           NEW n \in 0..MaxTries
    PROVE  /\ [j EXCEPT !.op = op] \in Job
           /\ [j EXCEPT !.prev = e] \in Job
           /\ [j EXCEPT !.tries = n] \in Job
           /\ [j EXCEPT !.op = op, !.prev = e] \in Job
  BY DEF Job

OthersStay(t) ==
    \A u \in Tasks \ {t} :
        /\ pc'[u] = pc[u] /\ job'[u] = job[u] /\ buf'[u] = buf[u]
        /\ fd'[u] # "none" => fd[u] # "none"

\* Go moves one task, to the point it is given.
LEMMA GoType ==
    ASSUME TypeOK, NEW t \in Tasks, NEW p \in Points, Go(t, p)
    PROVE  /\ pc' \in [Tasks -> Points]
           /\ pc'[t] = p
           /\ \A u \in Tasks \ {t} : pc'[u] = pc[u]
  BY DEF TypeOK, Go

\* A function returns to one of five points.
LEMMA CallerType == \A op : Caller(op) \in {"auto", "probe", "redial", "erase", "idle"}
  BY DEF Caller

\* Return moves one task to its caller and leaves it no job, or a remove.
LEMMA ReturnType ==
    ASSUME TypeOK, NEW t \in Tasks, Return(t)
    PROVE  /\ pc' \in [Tasks -> Points] /\ job' \in [Tasks -> Job]
           /\ pc'[t] = Caller(job[t].op)
           /\ job'[t] = IF job[t].op = "removeUnmount"
                       THEN NewJob("remove", Share(t)) ELSE NoJob
           /\ \A u \in Tasks \ {t} : pc'[u] = pc[u] /\ job'[u] = job[u]
<1>1. Caller(job[t].op) \in Points
  BY CallerType DEF Points, WritePoints
<1>2. job[t].share \in Shares \cup {NoShare}
  BY DEF TypeOK, Job
<1>3. NewJob("remove", job[t].share) \in Job /\ NoJob \in Job
  BY <1>2, NewJobType, NoJobType DEF Ops, ClientOps
<1> QED
  BY <1>1, <1>3, GoType DEF Return, TypeOK, Share

\* Leaving the queue keeps the types of its variables.
LEMMA QueueType ==
    ASSUME TypeOK, NEW t \in Tasks, LeaveQueue(t)
    PROVE  waiting' \subseteq Tasks /\ ahead' \in [Tasks -> SUBSET Tasks]
  BY DEF TypeOK, LeaveQueue

\* So does every way to take or give back the lock.
LEMMA LockType ==
    ASSUME TypeOK, NEW t \in Tasks,
           ReadSection(t) \/ WriteSection(t) \/ HoldRead(t) \/ HoldWrite(t) \/ Unlock(t)
    PROVE  /\ readers' \subseteq Tasks /\ writer' \in Tasks \cup {NoTask}
           /\ waiting' \subseteq Tasks /\ ahead' \in [Tasks -> SUBSET Tasks]
  BY QueueType DEF TypeOK, ReadSection, WriteSection, HoldRead, HoldWrite, Unlock

\* After a step of c alone, the invariant of c and the types are enough.
LEMMA ClientFrame ==
    ASSUME IndInv, NEW c \in Clients, TypeOK', OthersStay(c), ClientPlaced(c)'
    PROVE  IndInv'
<1>1. ASSUME NEW d \in Clients PROVE ClientPlaced(d)'
  <2>1. CASE d = c
    BY <2>1
  <2>2. CASE d # c
    BY <2>2 DEF IndInv, Placed, OthersStay, ClientPlaced, Share, ByMount, Tasks
  <2> QED
    BY <2>1, <2>2
<1>2. MonitorPlaced' /\ pc'[Main] \in {"up", "closing", "closeCmd"}
  BY ConstantsDistinct DEF IndInv, Placed, OthersStay, MonitorPlaced, Share, Tasks
<1> QED
  BY <1>1, <1>2 DEF IndInv, Placed

\* The same for a step of the monitor.
LEMMA MonitorFrame ==
    ASSUME IndInv, TypeOK', OthersStay(Monitor), MonitorPlaced'
    PROVE  IndInv'
<1>1. ASSUME NEW d \in Clients PROVE ClientPlaced(d)'
  BY ConstantsDistinct DEF IndInv, Placed, OthersStay, ClientPlaced, Share, ByMount, Tasks
<1>2. pc'[Main] \in {"up", "closing", "closeCmd"}
  BY ConstantsDistinct DEF IndInv, Placed, OthersStay, Tasks
<1> QED
  BY <1>1, <1>2 DEF IndInv, Placed

\* Begin preserves the inductive invariant.
LEMMA BeginInd ==
    ASSUME IndInv, NEW c \in Clients, NEW op \in Requests, NEW s \in Shares,
           Begin(c, op, s)
    PROVE  IndInv' /\ OthersStay(c)
<1>1. c \in Tasks /\ op \in Ops /\ op \in ClientOps
  BY ConstantsInRange DEF Tasks, Ops
<1> DEFINE p == CASE op \in {"mount", "mountDisabled"} -> "exists"
                 [] op \in {"enable", "disable"}      -> "toggle"
                 [] OTHER                             -> "lookup"
<1>2. p \in {"exists", "toggle", "lookup"}
  OBVIOUS
<1>3. p \in Points
  BY <1>2 DEF Points, ReadPoints, WritePoints
<1>4. /\ pc' \in [Tasks -> Points] /\ pc'[c] = p
      /\ \A u \in Tasks \ {c} : pc'[u] = pc[u]
  BY <1>1, <1>3, GoType DEF Begin, IndInv
<1>5. job' \in [Tasks -> Job] /\ job'[c] = NewJob(op, s)
      /\ \A u \in Tasks \ {c} : job'[u] = job[u]
  BY <1>1, NewJobType DEF Begin, IndInv, TypeOK
<1>6. TypeOK'
  BY <1>4, <1>5 DEF Begin, IndInv, TypeOK, fileVars, lockVars, roundVars
<1>7. ClientPlaced(c)'
  BY <1>1, <1>2, <1>4, <1>5, NewJobType DEF Begin, IndInv, Placed, ClientPlaced,
     ClientPoints, LatePoints, SavePoints, ClientOps, Share, ByMount, fileVars
<1>8. OthersStay(c)
  BY <1>4, <1>5 DEF OthersStay, Begin, fileVars
<1> QED
  BY <1>6, <1>7, <1>8, ClientFrame

\* MountExists preserves the inductive invariant.
LEMMA MountExistsInd ==
    ASSUME IndInv, NEW c \in Clients, MountExists(c)
    PROVE  IndInv' /\ OthersStay(c)
<1>1. c \in Tasks /\ pc[c] = "exists" /\ job[c].op \in ClientOps
  BY DEF Tasks, MountExists, IndInv, Placed, ClientPlaced, LatePoints
<1>2. CASE Return(c)
  <2>1. TypeOK'
    BY <1>1, <1>2, ReturnType, LockType DEF MountExists, IndInv, TypeOK, fileVars, roundVars
  <2>2. ClientPlaced(c)'
    BY <1>1, <1>2, ReturnType, NewJobType, NoJobType, ConstantsDistinct
    DEF MountExists, IndInv, Placed, ClientPlaced, ClientPoints, LatePoints,
        SavePoints, ClientOps, Share, ByMount, fileVars, Caller, Tasks
  <2>3. OthersStay(c)
    BY <1>1, <1>2, ReturnType DEF IndInv, OthersStay, MountExists, fileVars
  <2> QED
    BY <2>1, <2>2, <2>3, ClientFrame
<1>3. CASE /\ ~Present(Share(c))
           /\ Go(c, IF job[c].op = "mount" THEN "permit" ELSE "add")
           /\ UNCHANGED job
  <2>1. /\ pc' \in [Tasks -> Points] /\ pc'[c] \in {"permit", "add"}
        /\ pc'[c] = IF job[c].op = "mount" THEN "permit" ELSE "add"
        /\ \A u \in Tasks \ {c} : pc'[u] = pc[u]
    BY <1>1, <1>3, GoType DEF IndInv, Points, WritePoints
  <2>2. TypeOK'
    BY <1>1, <1>3, <2>1, LockType DEF MountExists, IndInv, TypeOK, fileVars, roundVars
  <2>3. ClientPlaced(c)'
    BY <1>1, <1>3, <2>1, ConstantsInRange
    DEF MountExists, IndInv, Placed, ClientPlaced, ClientPoints, LatePoints,
        SavePoints, ClientOps, Share, fileVars, ByMount
  <2>4. OthersStay(c)
    BY <1>1, <1>3, <2>1 DEF IndInv, OthersStay, MountExists, fileVars
  <2> QED
    BY <2>2, <2>3, <2>4, ClientFrame
<1> QED
  BY <1>2, <1>3 DEF MountExists

\* The points of clients and of the monitor are points.
LEMMA PointTypes == ClientPoints \subseteq Points /\ MonitorPoints \subseteq Points
  BY DEF ClientPoints, MonitorPoints, Points, ReadPoints, WritePoints, SavePoints,
         LatePoints

\* A task that returns to its caller relies on nothing but its share.
LEMMA ReturnPlaced ==
    ASSUME IndInv, NEW c \in Clients, Return(c), pc[c] # "idle", fd'[c] = "none"
    PROVE  ClientPlaced(c)'
<1>1. c \in Tasks /\ Share(c) \in Shares /\ job[c].op \in ClientOps \cup {"none"}
  BY DEF Tasks, IndInv, Placed, ClientPlaced
<1>2. CASE job[c].op = "removeUnmount"
  <2>1. pc'[c] = "erase" /\ job'[c].op = "remove" /\ job'[c].share = Share(c)
    BY <1>1, <1>2, ReturnType, NewJobType DEF IndInv, Caller, Ops, ClientOps
  <2> QED
    BY <1>1, <2>1
    DEF ClientPlaced, ClientPoints, LatePoints, SavePoints, ClientOps, Share, ByMount
<1>3. CASE job[c].op # "removeUnmount"
  <2>1. pc'[c] = "idle" /\ job'[c].op = "none"
    BY <1>1, <1>3, ReturnType, NoJobType DEF IndInv, Caller, ClientOps
  <2> QED
    BY <1>1, <2>1
    DEF ClientPlaced, ClientPoints, LatePoints, SavePoints, ClientOps, Share, ByMount
<1> QED
  BY <1>2, <1>3

\* A change of the job of one task leaves a job for each.
LEMMA JobUpdate ==
    ASSUME TypeOK, NEW t \in Tasks, NEW op \in Ops, NEW e \in Entry \cup {Absent}
    PROVE  /\ [job EXCEPT ![t].op = op] \in [Tasks -> Job]
           /\ [job EXCEPT ![t].prev = e] \in [Tasks -> Job]
           /\ job[t].tries < MaxTries => [job EXCEPT ![t].tries = @ + 1] \in [Tasks -> Job]
<1>1. job[t] \in Job /\ job \in [Tasks -> Job]
  BY DEF TypeOK
<1>2. [job[t] EXCEPT !.op = op] \in Job /\ [job[t] EXCEPT !.prev = e] \in Job
  BY <1>1, JobFields, ConstantsInRange DEF Job
<1>3. ASSUME job[t].tries < MaxTries
      PROVE  [job[t] EXCEPT !.tries = @ + 1] \in Job
  <2>1. job[t].tries + 1 \in 0..MaxTries
    BY <1>1, <1>3, ConstantsInRange DEF Job
  <2> QED
    BY <1>1, <2>1 DEF Job
<1> QED
  BY <1>1, <1>2, <1>3

\* Statuses and flags that replace each other leave an entry an entry.
LEMMA EntryFields ==
    ASSUME NEW e \in Entry, NEW st \in Statuses, NEW b \in BOOLEAN
    PROVE  [e EXCEPT !.status = st] \in Entry /\ [e EXCEPT !.enabled = b] \in Entry
  BY DEF Entry

\* SetStatus leaves a configuration.
LEMMA StatusType ==
    ASSUME TypeOK, NEW s \in Shares, NEW st \in Statuses, SetStatus(s, st)
    PROVE  mem' \in Content
<1>1. mem[s] # Absent => [mem[s] EXCEPT !.status = st] \in Entry
  BY EntryFields DEF TypeOK, Content
<1> QED
  BY <1>1 DEF SetStatus, TypeOK, Content

\* The entry of a share that is set disabled.
LEMMA NewEntryType == \A b \in BOOLEAN : [enabled |-> b, status |-> "Disabled"] \in Entry
  BY DEF Entry, Statuses

\* Setting one entry of a configuration leaves a configuration.
LEMMA EntryType ==
    ASSUME TypeOK, NEW s \in Shares, NEW e \in Entry \cup {Absent},
           mem' = [mem EXCEPT ![s] = e]
    PROVE  mem' \in Content
  BY DEF TypeOK, Content

\* AcquirePermit preserves the inductive invariant.
LEMMA AcquirePermitInd ==
    ASSUME IndInv, NEW c \in Clients, AcquirePermit(c)
    PROVE  IndInv' /\ OthersStay(c)
<1>1. c \in Tasks /\ ClientPlaced(c) /\ TypeOK /\ job[c] \in Job
  BY DEF Tasks, IndInv, Placed, TypeOK
<1>2. Go(c, "preUnmount") /\ UNCHANGED job
  BY <1>1 DEF AcquirePermit
<1>3. /\ pc' \in [Tasks -> Points] /\ job' \in [Tasks -> Job]
      /\ \A u \in Tasks \ {c} : pc'[u] = pc[u] /\ job'[u] = job[u]
  BY <1>1, <1>2, GoType, PointTypes DEF TypeOK, ClientPoints, LatePoints, SavePoints
<1>4. TypeOK'
  BY <1>1, <1>3, LockType
  DEF AcquirePermit, ClientPlaced, TypeOK, fileVars, lockVars, roundVars
<1>5. OthersStay(c)
  BY <1>1, <1>3 DEF AcquirePermit, OthersStay, TypeOK, fileVars
<1>6. ClientPlaced(c)'
  <2>1. CASE Go(c, "preUnmount") /\ UNCHANGED job
    <3>1. pc'[c] = "preUnmount" /\ job'[c] = job[c]
      BY <1>1, <2>1, GoType, PointTypes DEF ClientPoints, LatePoints, SavePoints, TypeOK
    <3> QED
      BY <1>1, <2>1, <3>1
      DEF AcquirePermit, ClientPlaced, ClientPoints, LatePoints, SavePoints, Share,
          ByMount, fileVars
  <2> QED
    BY <1>2, <2>1
<1> QED
  BY <1>4, <1>5, <1>6, ClientFrame

\* PreUnmount preserves the inductive invariant.
LEMMA PreUnmountInd ==
    ASSUME IndInv, NEW c \in Clients, PreUnmount(c)
    PROVE  IndInv' /\ OthersStay(c)
<1>1. c \in Tasks /\ ClientPlaced(c) /\ TypeOK /\ job[c] \in Job
  BY DEF Tasks, IndInv, Placed, TypeOK
<1>2. Go(c, "mountCmd") /\ job' = [job EXCEPT ![c].tries = @ + 1] /\ job[c].tries < MaxTries
  BY <1>1 DEF PreUnmount, ClientPlaced
<1>jobs. job[c].tries < MaxTries => [job EXCEPT ![c].tries = @ + 1] \in [Tasks -> Job]
  BY <1>1, JobUpdate DEF Ops, ClientOps
<1>3. /\ pc' \in [Tasks -> Points] /\ job' \in [Tasks -> Job]
      /\ \A u \in Tasks \ {c} : pc'[u] = pc[u] /\ job'[u] = job[u]
  BY <1>1, <1>2, GoType, PointTypes, <1>jobs
  DEF TypeOK, ClientPoints, LatePoints, SavePoints, ClientPlaced
<1>4. TypeOK'
  BY <1>1, <1>3, LockType
  DEF PreUnmount, ClientPlaced, TypeOK, fileVars, lockVars, roundVars
<1>5. OthersStay(c)
  BY <1>1, <1>3 DEF PreUnmount, OthersStay, TypeOK, fileVars
<1>6. ClientPlaced(c)'
  <2>1. CASE Go(c, "mountCmd") /\ job' = [job EXCEPT ![c].tries = @ + 1] /\ job[c].tries < MaxTries
    <3>1. pc'[c] = "mountCmd" /\ job'[c].op = job[c].op /\ job'[c].share = job[c].share
      BY <1>1, <2>1, GoType, PointTypes, JobFields
      DEF ClientPoints, LatePoints, SavePoints, TypeOK, Job
    <3> QED
      BY <1>1, <2>1, <3>1
      DEF PreUnmount, ClientPlaced, ClientPoints, LatePoints, SavePoints, Share,
          ByMount, fileVars
  <2> QED
    BY <1>2, <2>1
<1> QED
  BY <1>4, <1>5, <1>6, ClientFrame

\* BreakerOpen preserves the inductive invariant.
LEMMA BreakerOpenInd ==
    ASSUME IndInv, NEW c \in Clients, BreakerOpen(c)
    PROVE  IndInv' /\ OthersStay(c)
<1>1. c \in Tasks /\ ClientPlaced(c) /\ TypeOK /\ job[c] \in Job
  BY DEF Tasks, IndInv, Placed, TypeOK
<1>2. Return(c)
  BY <1>1 DEF BreakerOpen, MountFailed, ClientPlaced
<1>3. /\ pc' \in [Tasks -> Points] /\ job' \in [Tasks -> Job]
      /\ \A u \in Tasks \ {c} : pc'[u] = pc[u] /\ job'[u] = job[u]
  BY <1>1, <1>2, ReturnType DEF TypeOK
<1>4. TypeOK'
  BY <1>1, <1>3, LockType
  DEF BreakerOpen, ClientPlaced, TypeOK, fileVars, lockVars, roundVars, MountFailed,
      GiveBackPermit
<1>5. OthersStay(c)
  BY <1>1, <1>3 DEF BreakerOpen, OthersStay, TypeOK, fileVars, MountFailed
<1>6. ClientPlaced(c)'
  <2>1. CASE Return(c)
    BY <1>1, <2>1, ReturnPlaced DEF BreakerOpen, ClientPlaced, fileVars, MountFailed
  <2> QED
    BY <1>2, <2>1
<1> QED
  BY <1>4, <1>5, <1>6, ClientFrame

\* MountSucceeds preserves the inductive invariant.
LEMMA MountSucceedsInd ==
    ASSUME IndInv, NEW c \in Clients, MountSucceeds(c)
    PROVE  IndInv' /\ OthersStay(c)
<1>1. c \in Tasks /\ ClientPlaced(c) /\ TypeOK /\ job[c] \in Job
  BY DEF Tasks, IndInv, Placed, TypeOK
<1>2. Go(c, "markActive") /\ UNCHANGED job
  BY <1>1 DEF MountSucceeds
<1>3. /\ pc' \in [Tasks -> Points] /\ job' \in [Tasks -> Job]
      /\ \A u \in Tasks \ {c} : pc'[u] = pc[u] /\ job'[u] = job[u]
  BY <1>1, <1>2, GoType, PointTypes DEF TypeOK, ClientPoints, LatePoints, SavePoints
<1>4. TypeOK'
  BY <1>1, <1>3, LockType
  DEF MountSucceeds, ClientPlaced, TypeOK, fileVars, lockVars, roundVars
<1>5. OthersStay(c)
  BY <1>1, <1>3 DEF MountSucceeds, OthersStay, TypeOK, fileVars
<1>6. ClientPlaced(c)'
  <2>1. CASE Go(c, "markActive") /\ UNCHANGED job
    <3>1. pc'[c] = "markActive" /\ job'[c] = job[c]
      BY <1>1, <2>1, GoType, PointTypes DEF ClientPoints, LatePoints, SavePoints, TypeOK
    <3> QED
      BY <1>1, <2>1, <3>1
      DEF MountSucceeds, ClientPlaced, ClientPoints, LatePoints, SavePoints, Share,
          ByMount, fileVars
  <2> QED
    BY <1>2, <2>1
<1> QED
  BY <1>4, <1>5, <1>6, ClientFrame

\* MountFails preserves the inductive invariant.
LEMMA MountFailsInd ==
    ASSUME IndInv, NEW c \in Clients, MountFails(c)
    PROVE  IndInv' /\ OthersStay(c)
<1>1. c \in Tasks /\ ClientPlaced(c) /\ TypeOK /\ job[c] \in Job
  BY DEF Tasks, IndInv, Placed, TypeOK
<1>2. \/ Return(c)
      \/ Go(c, "preUnmount") /\ UNCHANGED job /\ job[c].op # "remount" /\ job[c].tries < MaxTries
  BY <1>1 DEF MountFails, MountFailed, ClientPlaced
<1>3. /\ pc' \in [Tasks -> Points] /\ job' \in [Tasks -> Job]
      /\ \A u \in Tasks \ {c} : pc'[u] = pc[u] /\ job'[u] = job[u]
  BY <1>1, <1>2, ReturnType, GoType, PointTypes
  DEF TypeOK, ClientPoints, LatePoints, SavePoints
<1>4. TypeOK'
  BY <1>1, <1>3, LockType
  DEF MountFails, ClientPlaced, TypeOK, fileVars, lockVars, roundVars, MountFailed,
      GiveBackPermit
<1>5. OthersStay(c)
  BY <1>1, <1>3 DEF MountFails, OthersStay, TypeOK, fileVars, MountFailed
<1>6. ClientPlaced(c)'
  <2>1. CASE Return(c)
    BY <1>1, <2>1, ReturnPlaced DEF MountFails, ClientPlaced, fileVars, MountFailed
  <2>2. CASE Go(c, "preUnmount") /\ UNCHANGED job /\ job[c].op # "remount" /\ job[c].tries < MaxTries
    <3>1. pc'[c] = "preUnmount" /\ job'[c] = job[c]
      BY <1>1, <2>2, GoType, PointTypes DEF ClientPoints, LatePoints, SavePoints, TypeOK
    <3> QED
      BY <1>1, <2>2, <3>1
      DEF MountFails, ClientPlaced, ClientPoints, LatePoints, SavePoints, Share,
          ByMount, fileVars
  <2> QED
    BY <1>2, <2>1, <2>2
<1> QED
  BY <1>4, <1>5, <1>6, ClientFrame

\* MarkActive preserves the inductive invariant.
LEMMA MarkActiveInd ==
    ASSUME IndInv, NEW c \in Clients, MarkActive(c)
    PROVE  IndInv' /\ OthersStay(c)
<1>1. c \in Tasks /\ ClientPlaced(c) /\ TypeOK /\ job[c] \in Job
  BY DEF Tasks, IndInv, Placed, TypeOK
<1>2. \/ Return(c)
      \/ Go(c, "add") /\ UNCHANGED job /\ job[c].op = "mount"
  BY <1>1 DEF MarkActive
<1>3. /\ pc' \in [Tasks -> Points] /\ job' \in [Tasks -> Job]
      /\ \A u \in Tasks \ {c} : pc'[u] = pc[u] /\ job'[u] = job[u]
  BY <1>1, <1>2, ReturnType, GoType, PointTypes
  DEF TypeOK, ClientPoints, LatePoints, SavePoints
<1>4. TypeOK'
  BY <1>1, <1>3, LockType
  DEF MarkActive, ClientPlaced, TypeOK, fileVars, lockVars, roundVars, SetStatus,
      GiveBackPermit, Content, Entry, Statuses
<1>5. OthersStay(c)
  BY <1>1, <1>3 DEF MarkActive, OthersStay, TypeOK, fileVars
<1>6. ClientPlaced(c)'
  <2>1. CASE Return(c)
    BY <1>1, <2>1, ReturnPlaced DEF MarkActive, ClientPlaced, fileVars
  <2>2. CASE Go(c, "add") /\ UNCHANGED job /\ job[c].op = "mount"
    <3>1. pc'[c] = "add" /\ job'[c] = job[c]
      BY <1>1, <2>2, GoType, PointTypes DEF ClientPoints, LatePoints, SavePoints, TypeOK
    <3> QED
      BY <1>1, <2>2, <3>1
      DEF MarkActive, ClientPlaced, ClientPoints, LatePoints, SavePoints, Share,
          ByMount, fileVars
  <2> QED
    BY <1>2, <2>1, <2>2
<1> QED
  BY <1>4, <1>5, <1>6, ClientFrame

\* Add preserves the inductive invariant.
LEMMA AddInd ==
    ASSUME IndInv, NEW c \in Clients, Add(c)
    PROVE  IndInv' /\ OthersStay(c)
<1>1. c \in Tasks /\ ClientPlaced(c) /\ TypeOK /\ job[c] \in Job
  BY DEF Tasks, IndInv, Placed, TypeOK
<1>2. \/ Return(c)
      \/ Go(c, "saveRead") /\ UNCHANGED job
  BY <1>1 DEF Add
<1>3. /\ pc' \in [Tasks -> Points] /\ job' \in [Tasks -> Job]
      /\ \A u \in Tasks \ {c} : pc'[u] = pc[u] /\ job'[u] = job[u]
  BY <1>1, <1>2, ReturnType, GoType, PointTypes
  DEF TypeOK, ClientPoints, LatePoints, SavePoints
<1>4. TypeOK'
  BY <1>1, <1>3, LockType
  DEF Add, ClientPlaced, TypeOK, fileVars, lockVars, roundVars, SkipsSave, Unsaved,
      Content, Entry, Statuses
<1>5. OthersStay(c)
  BY <1>1, <1>3 DEF Add, OthersStay, TypeOK, fileVars
<1>6. ClientPlaced(c)'
  <2>1. CASE Return(c)
    BY <1>1, <2>1, ReturnPlaced DEF Add, ClientPlaced, fileVars
  <2>2. CASE Go(c, "saveRead") /\ UNCHANGED job
    <3>1. pc'[c] = "saveRead" /\ job'[c] = job[c]
      BY <1>1, <2>2, GoType, PointTypes DEF ClientPoints, LatePoints, SavePoints, TypeOK
    <3> QED
      BY <1>1, <2>2, <3>1
      DEF Add, ClientPlaced, ClientPoints, LatePoints, SavePoints, Share, ByMount,
          fileVars
  <2> QED
    BY <1>2, <2>1, <2>2
<1> QED
  BY <1>4, <1>5, <1>6, ClientFrame

\* Lookup preserves the inductive invariant.
LEMMA LookupInd ==
    ASSUME IndInv, NEW c \in Clients, Lookup(c)
    PROVE  IndInv' /\ OthersStay(c)
<1>1. c \in Tasks /\ ClientPlaced(c) /\ TypeOK /\ job[c] \in Job
  BY DEF Tasks, IndInv, Placed, TypeOK
<1>2. \/ Return(c)
      \/ Go(c, "erase") /\ UNCHANGED job /\ job[c].op = "remove"
      \/ Go(c, "mountCmd") /\ UNCHANGED job /\ job[c].op = "remount"
      \/ Go(c, "unmountCmd") /\ UNCHANGED job
      \/ Go(c, "lookup") /\ job' = [job EXCEPT ![c].op = "removeUnmount"]
  BY <1>1 DEF Lookup, Go, TypeOK
<1>jobs. [job EXCEPT ![c].op = "removeUnmount"] \in [Tasks -> Job]
  BY <1>1, JobUpdate DEF Ops, ClientOps
<1>3. /\ pc' \in [Tasks -> Points] /\ job' \in [Tasks -> Job]
      /\ \A u \in Tasks \ {c} : pc'[u] = pc[u] /\ job'[u] = job[u]
  BY <1>1, <1>2, ReturnType, GoType, PointTypes, <1>jobs
  DEF TypeOK, ClientPoints, LatePoints, SavePoints, Entry, Statuses
<1>4. TypeOK'
  BY <1>1, <1>3, LockType
  DEF Lookup, ClientPlaced, TypeOK, fileVars, lockVars, roundVars
<1>5. OthersStay(c)
  BY <1>1, <1>3 DEF Lookup, OthersStay, TypeOK, fileVars
<1>6. ClientPlaced(c)'
  <2>1. CASE Return(c)
    BY <1>1, <2>1, ReturnPlaced DEF Lookup, ClientPlaced, fileVars
  <2>2. CASE Go(c, "erase") /\ UNCHANGED job /\ job[c].op = "remove"
    <3>1. pc'[c] = "erase" /\ job'[c] = job[c]
      BY <1>1, <2>2, GoType, PointTypes DEF ClientPoints, LatePoints, SavePoints, TypeOK
    <3> QED
      BY <1>1, <2>2, <3>1
      DEF Lookup, ClientPlaced, ClientPoints, LatePoints, SavePoints, Share, ByMount,
          fileVars, ClientOps
  <2>3. CASE Go(c, "mountCmd") /\ UNCHANGED job /\ job[c].op = "remount"
    <3>1. pc'[c] = "mountCmd" /\ job'[c] = job[c]
      BY <1>1, <2>3, GoType, PointTypes DEF ClientPoints, LatePoints, SavePoints, TypeOK
    <3> QED
      BY <1>1, <2>3, <3>1
      DEF Lookup, ClientPlaced, ClientPoints, LatePoints, SavePoints, Share, ByMount,
          fileVars, ClientOps
  <2>4. CASE Go(c, "unmountCmd") /\ UNCHANGED job
    <3>1. pc'[c] = "unmountCmd" /\ job'[c] = job[c]
      BY <1>1, <2>4, GoType, PointTypes DEF ClientPoints, LatePoints, SavePoints, TypeOK
    <3> QED
      BY <1>1, <2>4, <3>1
      DEF Lookup, ClientPlaced, ClientPoints, LatePoints, SavePoints, Share, ByMount,
          fileVars, ClientOps
  <2>5. CASE Go(c, "lookup") /\ job' = [job EXCEPT ![c].op = "removeUnmount"]
    <3>1. pc'[c] = "lookup" /\ job'[c].op = "removeUnmount" /\ job'[c].share = job[c].share
      BY <1>1, <2>5, GoType, PointTypes, JobFields
      DEF ClientPoints, LatePoints, SavePoints, TypeOK, Job
    <3> QED
      BY <1>1, <2>5, <3>1
      DEF Lookup, ClientPlaced, ClientPoints, LatePoints, SavePoints, Share, ByMount,
          fileVars, ClientOps
  <2> QED
    BY <1>2, <2>1, <2>2, <2>3, <2>4, <2>5
<1> QED
  BY <1>4, <1>5, <1>6, ClientFrame

\* UnmountSucceeds preserves the inductive invariant.
LEMMA UnmountSucceedsInd ==
    ASSUME IndInv, NEW c \in Clients, UnmountSucceeds(c)
    PROVE  IndInv' /\ OthersStay(c)
<1>1. c \in Tasks /\ ClientPlaced(c) /\ TypeOK /\ job[c] \in Job
  BY DEF Tasks, IndInv, Placed, TypeOK
<1>2. \/ Return(c)
      \/ Go(c, "setDisabled") /\ UNCHANGED job /\ job[c].op \in {"unmount", "removeUnmount"}
      \/ Go(c, "mountCmd") /\ UNCHANGED job /\ job[c].op = "remount"
  BY <1>1 DEF UnmountSucceeds
<1>3. /\ pc' \in [Tasks -> Points] /\ job' \in [Tasks -> Job]
      /\ \A u \in Tasks \ {c} : pc'[u] = pc[u] /\ job'[u] = job[u]
  BY <1>1, <1>2, ReturnType, GoType, PointTypes
  DEF TypeOK, ClientPoints, LatePoints, SavePoints
<1>4. TypeOK'
  BY <1>1, <1>3, LockType
  DEF UnmountSucceeds, ClientPlaced, TypeOK, fileVars, lockVars, roundVars
<1>5. OthersStay(c)
  BY <1>1, <1>3 DEF UnmountSucceeds, OthersStay, TypeOK, fileVars
<1>6. ClientPlaced(c)'
  <2>1. CASE Return(c)
    BY <1>1, <2>1, ReturnPlaced DEF UnmountSucceeds, ClientPlaced, fileVars
  <2>2. CASE Go(c, "setDisabled") /\ UNCHANGED job /\ job[c].op \in {"unmount", "removeUnmount"}
    <3>1. pc'[c] = "setDisabled" /\ job'[c] = job[c]
      BY <1>1, <2>2, GoType, PointTypes DEF ClientPoints, LatePoints, SavePoints, TypeOK
    <3> QED
      BY <1>1, <2>2, <3>1
      DEF UnmountSucceeds, ClientPlaced, ClientPoints, LatePoints, SavePoints, Share,
          ByMount, fileVars
  <2>3. CASE Go(c, "mountCmd") /\ UNCHANGED job /\ job[c].op = "remount"
    <3>1. pc'[c] = "mountCmd" /\ job'[c] = job[c]
      BY <1>1, <2>3, GoType, PointTypes DEF ClientPoints, LatePoints, SavePoints, TypeOK
    <3> QED
      BY <1>1, <2>3, <3>1
      DEF UnmountSucceeds, ClientPlaced, ClientPoints, LatePoints, SavePoints, Share,
          ByMount, fileVars
  <2> QED
    BY <1>2, <2>1, <2>2, <2>3
<1> QED
  BY <1>4, <1>5, <1>6, ClientFrame

\* UnmountFails preserves the inductive invariant.
LEMMA UnmountFailsInd ==
    ASSUME IndInv, NEW c \in Clients, UnmountFails(c)
    PROVE  IndInv' /\ OthersStay(c)
<1>1. c \in Tasks /\ ClientPlaced(c) /\ TypeOK /\ job[c] \in Job
  BY DEF Tasks, IndInv, Placed, TypeOK
<1>2. \/ Return(c)
      \/ Go(c, "mountCmd") /\ UNCHANGED job /\ job[c].op = "remount"
  BY <1>1 DEF UnmountFails
<1>3. /\ pc' \in [Tasks -> Points] /\ job' \in [Tasks -> Job]
      /\ \A u \in Tasks \ {c} : pc'[u] = pc[u] /\ job'[u] = job[u]
  BY <1>1, <1>2, ReturnType, GoType, PointTypes
  DEF TypeOK, ClientPoints, LatePoints, SavePoints
<1>4. TypeOK'
  BY <1>1, <1>3, LockType
  DEF UnmountFails, ClientPlaced, TypeOK, fileVars, lockVars, roundVars
<1>5. OthersStay(c)
  BY <1>1, <1>3 DEF UnmountFails, OthersStay, TypeOK, fileVars
<1>6. ClientPlaced(c)'
  <2>1. CASE Return(c)
    BY <1>1, <2>1, ReturnPlaced DEF UnmountFails, ClientPlaced, fileVars
  <2>2. CASE Go(c, "mountCmd") /\ UNCHANGED job /\ job[c].op = "remount"
    <3>1. pc'[c] = "mountCmd" /\ job'[c] = job[c]
      BY <1>1, <2>2, GoType, PointTypes DEF ClientPoints, LatePoints, SavePoints, TypeOK
    <3> QED
      BY <1>1, <2>2, <3>1
      DEF UnmountFails, ClientPlaced, ClientPoints, LatePoints, SavePoints, Share,
          ByMount, fileVars
  <2> QED
    BY <1>2, <2>1, <2>2
<1> QED
  BY <1>4, <1>5, <1>6, ClientFrame

\* SetDisabled preserves the inductive invariant.
LEMMA SetDisabledInd ==
    ASSUME IndInv, NEW c \in Clients, SetDisabled(c)
    PROVE  IndInv' /\ OthersStay(c)
<1>1. c \in Tasks /\ ClientPlaced(c) /\ TypeOK /\ job[c] \in Job
  BY DEF Tasks, IndInv, Placed, TypeOK
<1>2. \/ Return(c)
      \/ Go(c, "saveWrite") /\ job' = [job EXCEPT ![c].prev = mem[Share(c)]] /\ mem[Share(c)] \in Entry
  BY <1>1 DEF SetDisabled, Present, Content, TypeOK, ClientPlaced
<1>jobs. mem[Share(c)] \in Entry => [job EXCEPT ![c].prev = mem[Share(c)]] \in [Tasks -> Job]
  BY <1>1, JobUpdate DEF Ops, ClientOps
<1>3. /\ pc' \in [Tasks -> Points] /\ job' \in [Tasks -> Job]
      /\ \A u \in Tasks \ {c} : pc'[u] = pc[u] /\ job'[u] = job[u]
  BY <1>1, <1>2, ReturnType, GoType, PointTypes, <1>jobs
  DEF TypeOK, ClientPoints, LatePoints, SavePoints
<1>4. TypeOK'
  BY <1>1, <1>3, LockType, EntryType, NewEntryType
  DEF SetDisabled, ClientPlaced, TypeOK, fileVars, lockVars, roundVars, Unsaved
<1>5. OthersStay(c)
  BY <1>1, <1>3 DEF SetDisabled, OthersStay, TypeOK, fileVars
<1>6. ClientPlaced(c)'
  <2>1. CASE Return(c)
    BY <1>1, <2>1, ReturnPlaced DEF SetDisabled, ClientPlaced, fileVars
  <2>2. CASE Go(c, "saveWrite") /\ job' = [job EXCEPT ![c].prev = mem[Share(c)]] /\ mem[Share(c)] \in Entry
    <3>1. pc'[c] = "saveWrite" /\ job'[c].op = job[c].op /\ job'[c].share = job[c].share /\ job'[c].prev \in Entry
      <4>1. pc'[c] = "saveWrite"
        BY <1>1, <2>2, GoType, PointTypes DEF ClientPoints, LatePoints, SavePoints
      <4>2. job \in [Tasks -> Job]
        BY <1>1 DEF TypeOK
      <4>3. job'[c] = [job[c] EXCEPT !.prev = mem[Share(c)]]
        BY <1>1, <2>2, <4>2
      <4> QED
        BY <1>1, <2>2, <4>1, <4>3 DEF Job
    <3> QED
      BY <1>1, <2>2, <3>1
      DEF SetDisabled, ClientPlaced, ClientPoints, LatePoints, SavePoints, Share,
          ByMount, fileVars, Restorable
  <2> QED
    BY <1>2, <2>1, <2>2
<1> QED
  BY <1>4, <1>5, <1>6, ClientFrame

\* Toggle preserves the inductive invariant.
LEMMA ToggleInd ==
    ASSUME IndInv, NEW c \in Clients, Toggle(c)
    PROVE  IndInv' /\ OthersStay(c)
<1>1. c \in Tasks /\ ClientPlaced(c) /\ TypeOK /\ job[c] \in Job
  BY DEF Tasks, IndInv, Placed, TypeOK
<1>2. \/ Return(c)
      \/ Go(c, "saveWrite") /\ job' = [job EXCEPT ![c].prev = mem[Share(c)]] /\ mem[Share(c)] \in Entry
  BY <1>1 DEF Toggle, Present, Content, TypeOK, ClientPlaced
<1>jobs. mem[Share(c)] \in Entry => [job EXCEPT ![c].prev = mem[Share(c)]] \in [Tasks -> Job]
  BY <1>1, JobUpdate DEF Ops, ClientOps
<1>3. /\ pc' \in [Tasks -> Points] /\ job' \in [Tasks -> Job]
      /\ \A u \in Tasks \ {c} : pc'[u] = pc[u] /\ job'[u] = job[u]
  BY <1>1, <1>2, ReturnType, GoType, PointTypes, <1>jobs
  DEF TypeOK, ClientPoints, LatePoints, SavePoints
<1>4. TypeOK'
  BY <1>1, <1>3, LockType, EntryType, NewEntryType
  DEF Toggle, ClientPlaced, TypeOK, fileVars, lockVars, roundVars, Unsaved
<1>5. OthersStay(c)
  BY <1>1, <1>3 DEF Toggle, OthersStay, TypeOK, fileVars
<1>6. ClientPlaced(c)'
  <2>1. CASE Return(c)
    BY <1>1, <2>1, ReturnPlaced DEF Toggle, ClientPlaced, fileVars
  <2>2. CASE Go(c, "saveWrite") /\ job' = [job EXCEPT ![c].prev = mem[Share(c)]] /\ mem[Share(c)] \in Entry
    <3>1. pc'[c] = "saveWrite" /\ job'[c].op = job[c].op /\ job'[c].share = job[c].share /\ job'[c].prev \in Entry
      <4>1. pc'[c] = "saveWrite"
        BY <1>1, <2>2, GoType, PointTypes DEF ClientPoints, LatePoints, SavePoints
      <4>2. job \in [Tasks -> Job]
        BY <1>1 DEF TypeOK
      <4>3. job'[c] = [job[c] EXCEPT !.prev = mem[Share(c)]]
        BY <1>1, <2>2, <4>2
      <4> QED
        BY <1>1, <2>2, <4>1, <4>3 DEF Job
    <3> QED
      BY <1>1, <2>2, <3>1
      DEF Toggle, ClientPlaced, ClientPoints, LatePoints, SavePoints, Share, ByMount,
          fileVars, Restorable
  <2> QED
    BY <1>2, <2>1, <2>2
<1> QED
  BY <1>4, <1>5, <1>6, ClientFrame

\* Erase preserves the inductive invariant.
LEMMA EraseInd ==
    ASSUME IndInv, NEW c \in Clients, Erase(c)
    PROVE  IndInv' /\ OthersStay(c)
<1>1. c \in Tasks /\ ClientPlaced(c) /\ TypeOK /\ job[c] \in Job
  BY DEF Tasks, IndInv, Placed, TypeOK
<1>2. \/ Return(c)
      \/ Go(c, "unmountCmd") /\ UNCHANGED job /\ job[c].op = "mount"
      \/ Go(c, "trunc") /\ UNCHANGED job /\ job[c].op = "remove" /\ buf' = [buf EXCEPT ![c] = mem'] /\ mem' \in Content
  BY <1>1 DEF Erase, TypeOK, ClientPlaced, Content
<1>3. /\ pc' \in [Tasks -> Points] /\ job' \in [Tasks -> Job]
      /\ \A u \in Tasks \ {c} : pc'[u] = pc[u] /\ job'[u] = job[u]
  BY <1>1, <1>2, ReturnType, GoType, PointTypes
  DEF TypeOK, ClientPoints, LatePoints, SavePoints
<1>4. TypeOK'
  BY <1>1, <1>3, LockType
  DEF Erase, ClientPlaced, TypeOK, fileVars, lockVars, roundVars, Unsaved, Content
<1>5. OthersStay(c)
  BY <1>1, <1>3 DEF Erase, OthersStay, TypeOK, fileVars
<1>6. ClientPlaced(c)'
  <2>1. CASE Return(c)
    BY <1>1, <2>1, ReturnPlaced DEF Erase, ClientPlaced, fileVars
  <2>2. CASE Go(c, "unmountCmd") /\ UNCHANGED job /\ job[c].op = "mount"
    <3>1. pc'[c] = "unmountCmd" /\ job'[c] = job[c]
      BY <1>1, <2>2, GoType, PointTypes DEF ClientPoints, LatePoints, SavePoints, TypeOK
    <3> QED
      BY <1>1, <2>2, <3>1
      DEF Erase, ClientPlaced, ClientPoints, LatePoints, SavePoints, Share, ByMount,
          fileVars, TypeOK
  <2>3. CASE Go(c, "trunc") /\ UNCHANGED job /\ job[c].op = "remove" /\ buf' = [buf EXCEPT ![c] = mem'] /\ mem' \in Content
    <3>1. pc'[c] = "trunc" /\ job'[c] = job[c]
      BY <1>1, <2>3, GoType, PointTypes DEF ClientPoints, LatePoints, SavePoints, TypeOK
    <3> QED
      BY <1>1, <2>3, <3>1
      DEF Erase, ClientPlaced, ClientPoints, LatePoints, SavePoints, Share, ByMount,
          fileVars, TypeOK
  <2> QED
    BY <1>2, <2>1, <2>2, <2>3
<1> QED
  BY <1>4, <1>5, <1>6, ClientFrame

\* BeginSave preserves the inductive invariant.
LEMMA BeginSaveInd ==
    ASSUME IndInv, NEW c \in Clients, BeginSave(c)
    PROVE  IndInv' /\ OthersStay(c)
<1>1. c \in Tasks /\ ClientPlaced(c) /\ TypeOK /\ job[c] \in Job
  BY DEF Tasks, IndInv, Placed, TypeOK
<1>2. Go(c, "trunc") /\ UNCHANGED job
  BY <1>1 DEF BeginSave
<1>3. /\ pc' \in [Tasks -> Points] /\ job' \in [Tasks -> Job]
      /\ \A u \in Tasks \ {c} : pc'[u] = pc[u] /\ job'[u] = job[u]
  BY <1>1, <1>2, GoType, PointTypes DEF TypeOK, ClientPoints, LatePoints, SavePoints
<1>4. TypeOK'
  BY <1>1, <1>3, LockType
  DEF BeginSave, ClientPlaced, TypeOK, fileVars, lockVars, roundVars
<1>5. OthersStay(c)
  BY <1>1, <1>3 DEF BeginSave, OthersStay, TypeOK, fileVars
<1>6. ClientPlaced(c)'
  <2>1. CASE Go(c, "trunc") /\ UNCHANGED job
    <3>1. pc'[c] = "trunc" /\ job'[c] = job[c]
      BY <1>1, <2>1, GoType, PointTypes DEF ClientPoints, LatePoints, SavePoints, TypeOK
    <3> QED
      BY <1>1, <2>1, <3>1
      DEF BeginSave, ClientPlaced, ClientPoints, LatePoints, SavePoints, Share,
          ByMount, fileVars, TypeOK, Restorable
  <2> QED
    BY <1>2, <2>1
<1> QED
  BY <1>4, <1>5, <1>6, ClientFrame

\* OpenTmp preserves the inductive invariant.
LEMMA OpenTmpInd ==
    ASSUME IndInv, NEW c \in Clients, OpenTmp(c)
    PROVE  IndInv' /\ OthersStay(c)
<1>1. c \in Tasks /\ ClientPlaced(c) /\ TypeOK /\ job[c] \in Job
  BY DEF Tasks, IndInv, Placed, TypeOK
<1>2. \/ Go(c, "data") /\ UNCHANGED job /\ pc[c] = "trunc"
      \/ Go(c, "lateData") /\ UNCHANGED job /\ pc[c] = "lateTrunc"
  BY <1>1 DEF OpenTmp
<1>3. /\ pc' \in [Tasks -> Points] /\ job' \in [Tasks -> Job]
      /\ \A u \in Tasks \ {c} : pc'[u] = pc[u] /\ job'[u] = job[u]
  BY <1>1, <1>2, GoType, PointTypes DEF TypeOK, ClientPoints, LatePoints, SavePoints
<1>4. TypeOK'
  BY <1>1, <1>3, LockType
  DEF OpenTmp, ClientPlaced, TypeOK, fileVars, lockVars, roundVars
<1>5. OthersStay(c)
  BY <1>1, <1>3 DEF OpenTmp, OthersStay, TypeOK, fileVars
<1>6. ClientPlaced(c)'
  <2>1. CASE Go(c, "data") /\ UNCHANGED job /\ pc[c] = "trunc"
    <3>1. pc'[c] = "data" /\ job'[c] = job[c]
      BY <1>1, <2>1, GoType, PointTypes DEF ClientPoints, LatePoints, SavePoints, TypeOK
    <3> QED
      BY <1>1, <2>1, <3>1
      DEF OpenTmp, ClientPlaced, ClientPoints, LatePoints, SavePoints, Share, ByMount,
          fileVars, TypeOK
  <2>2. CASE Go(c, "lateData") /\ UNCHANGED job /\ pc[c] = "lateTrunc"
    <3>1. pc'[c] = "lateData" /\ job'[c] = job[c]
      BY <1>1, <2>2, GoType, PointTypes DEF ClientPoints, LatePoints, SavePoints, TypeOK
    <3> QED
      BY <1>1, <2>2, <3>1
      DEF OpenTmp, ClientPlaced, ClientPoints, LatePoints, SavePoints, Share, ByMount,
          fileVars, TypeOK
  <2> QED
    BY <1>2, <2>1, <2>2
<1> QED
  BY <1>4, <1>5, <1>6, ClientFrame

\* WriteData preserves the inductive invariant.
LEMMA WriteDataInd ==
    ASSUME IndInv, NEW c \in Clients, WriteData(c)
    PROVE  IndInv' /\ OthersStay(c)
<1>1. c \in Tasks /\ ClientPlaced(c) /\ TypeOK /\ job[c] \in Job
  BY DEF Tasks, IndInv, Placed, TypeOK
<1>2. \/ Return(c)
      \/ Go(c, "rename") /\ UNCHANGED job /\ pc[c] = "data"
  BY <1>1 DEF WriteData
<1>3. /\ pc' \in [Tasks -> Points] /\ job' \in [Tasks -> Job]
      /\ \A u \in Tasks \ {c} : pc'[u] = pc[u] /\ job'[u] = job[u]
  BY <1>1, <1>2, ReturnType, GoType, PointTypes
  DEF TypeOK, ClientPoints, LatePoints, SavePoints
<1>4. TypeOK'
  BY <1>1, <1>3, LockType
  DEF WriteData, ClientPlaced, TypeOK, fileVars, lockVars, roundVars, LeftBy
<1>5. OthersStay(c)
  BY <1>1, <1>3 DEF WriteData, OthersStay, TypeOK, fileVars
<1>6. ClientPlaced(c)'
  <2>1. CASE Return(c)
    BY <1>1, <2>1, ReturnPlaced DEF WriteData, ClientPlaced, fileVars, TypeOK
  <2>2. CASE Go(c, "rename") /\ UNCHANGED job /\ pc[c] = "data"
    <3>1. pc'[c] = "rename" /\ job'[c] = job[c]
      BY <1>1, <2>2, GoType, PointTypes DEF ClientPoints, LatePoints, SavePoints, TypeOK
    <3> QED
      BY <1>1, <2>2, <3>1
      DEF WriteData, ClientPlaced, ClientPoints, LatePoints, SavePoints, Share,
          ByMount, fileVars, TypeOK
  <2> QED
    BY <1>2, <2>1, <2>2
<1> QED
  BY <1>4, <1>5, <1>6, ClientFrame

\* Rename preserves the inductive invariant.
LEMMA RenameInd ==
    ASSUME IndInv, NEW c \in Clients, Rename(c)
    PROVE  IndInv' /\ OthersStay(c)
<1>1. c \in Tasks /\ ClientPlaced(c) /\ TypeOK /\ job[c] \in Job
  BY DEF Tasks, IndInv, Placed, TypeOK
<1>2. Return(c)
  BY <1>1 DEF Rename
<1>3. /\ pc' \in [Tasks -> Points] /\ job' \in [Tasks -> Job]
      /\ \A u \in Tasks \ {c} : pc'[u] = pc[u] /\ job'[u] = job[u]
  BY <1>1, <1>2, ReturnType DEF TypeOK
<1>4. TypeOK'
  BY <1>1, <1>3, LockType
  DEF Rename, ClientPlaced, TypeOK, fileVars, lockVars, roundVars, RenameTmp
<1>5. OthersStay(c)
  BY <1>1, <1>3 DEF Rename, OthersStay, TypeOK, fileVars, RenameTmp
<1>6. ClientPlaced(c)'
  <2>1. CASE Return(c)
    BY <1>1, <2>1, ReturnPlaced DEF Rename, ClientPlaced, fileVars, RenameTmp
  <2> QED
    BY <1>2, <2>1
<1> QED
  BY <1>4, <1>5, <1>6, ClientFrame

\* SaveFails preserves the inductive invariant.
LEMMA SaveFailsInd ==
    ASSUME IndInv, NEW c \in Clients, SaveFails(c)
    PROVE  IndInv' /\ OthersStay(c)
<1>1. c \in Tasks /\ ClientPlaced(c) /\ TypeOK /\ job[c] \in Job
  BY DEF Tasks, IndInv, Placed, TypeOK
<1>2. \/ Return(c)
      \/ Go(c, "rollback") /\ UNCHANGED job /\ ByMount(c)
  BY <1>1 DEF SaveFails, ByMount
<1>3. /\ pc' \in [Tasks -> Points] /\ job' \in [Tasks -> Job]
      /\ \A u \in Tasks \ {c} : pc'[u] = pc[u] /\ job'[u] = job[u]
  BY <1>1, <1>2, ReturnType, GoType, PointTypes
  DEF TypeOK, ClientPoints, LatePoints, SavePoints
<1>content. mem' \in Content
  <2>1. CASE ByMount(c) \/ job[c].op = "remove"
    BY <1>1, <2>1 DEF SaveFails, ByMount, TypeOK
  <2>2. CASE job[c].op \in Restorable /\ job[c].prev \in Entry
    <3>1. job[c].prev.status \in Statuses /\ job[c].prev.enabled \in BOOLEAN
      BY <2>2 DEF Entry
    <3>2. Share(c) \in Shares
      BY <1>1 DEF SaveFails, SavePoints, ClientPlaced
    <3>3. mem[Share(c)] # Absent =>
             [mem[Share(c)] EXCEPT !.enabled = job[c].prev.enabled] \in Entry
      BY <1>1, <3>1, <3>2, EntryFields DEF TypeOK, Content
    <3>4. CASE job[c].op \in {"unmount", "removeUnmount"}
      BY <1>1, <2>2, <3>1, <3>2, <3>4, StatusType DEF SaveFails
    <3>5. CASE job[c].op \in {"enable", "disable"}
      BY <1>1, <2>2, <3>2, <3>3, <3>5 DEF SaveFails, TypeOK, Content
    <3> QED
      BY <2>2, <3>4, <3>5 DEF Restorable
  <2> QED
    BY <1>1, <2>1, <2>2 DEF SaveFails, ClientPlaced
<1>4. TypeOK'
  BY <1>1, <1>3, LockType, <1>content
  DEF SaveFails, ClientPlaced, TypeOK, fileVars, lockVars, roundVars, LeftBy, Unsaved
<1>5. OthersStay(c)
  BY <1>1, <1>3 DEF SaveFails, OthersStay, TypeOK, fileVars, SavePoints
<1>6. ClientPlaced(c)'
  <2>1. CASE Return(c)
    BY <1>1, <2>1, ReturnPlaced
    DEF SaveFails, ClientPlaced, fileVars, TypeOK, SavePoints
  <2>2. CASE Go(c, "rollback") /\ UNCHANGED job /\ ByMount(c)
    <3>1. pc'[c] = "rollback" /\ job'[c] = job[c]
      BY <1>1, <2>2, GoType, PointTypes DEF ClientPoints, LatePoints, SavePoints, TypeOK
    <3> QED
      BY <1>1, <2>2, <3>1
      DEF SaveFails, ClientPlaced, ClientPoints, LatePoints, SavePoints, Share,
          ByMount, fileVars, TypeOK
  <2> QED
    BY <1>2, <2>1, <2>2
<1> QED
  BY <1>4, <1>5, <1>6, ClientFrame

\* LateRename preserves the inductive invariant.
LEMMA LateRenameInd ==
    ASSUME IndInv, NEW c \in Clients, LateRename(c)
    PROVE  IndInv' /\ OthersStay(c)
<1>1. c \in Tasks /\ ClientPlaced(c) /\ TypeOK /\ job[c] \in Job
  BY DEF Tasks, IndInv, Placed, TypeOK
<1>2. Return(c)
  BY <1>1 DEF LateRename
<1>3. /\ pc' \in [Tasks -> Points] /\ job' \in [Tasks -> Job]
      /\ \A u \in Tasks \ {c} : pc'[u] = pc[u] /\ job'[u] = job[u]
  BY <1>1, <1>2, ReturnType DEF TypeOK
<1>4. TypeOK'
  BY <1>1, <1>3, LockType
  DEF LateRename, ClientPlaced, TypeOK, fileVars, lockVars, roundVars, RenameTmp,
      LeftBy
<1>5. OthersStay(c)
  BY <1>1, <1>3 DEF LateRename, OthersStay, TypeOK, fileVars, RenameTmp
<1>6. ClientPlaced(c)'
  <2>1. CASE Return(c)
    BY <1>1, <2>1, ReturnPlaced DEF LateRename, ClientPlaced, fileVars, RenameTmp
  <2> QED
    BY <1>2, <2>1
<1> QED
  BY <1>4, <1>5, <1>6, ClientFrame

\* A command or a rename whose request was dropped.
LEMMA LateCommandInd ==
    ASSUME IndInv, NEW c \in Clients, LateCommand(c)
    PROVE  IndInv' /\ OthersStay(c)
<1>1. c \in Tasks /\ ClientPlaced(c) /\ TypeOK /\ job[c] \in Job
  BY DEF Tasks, IndInv, Placed, TypeOK
<1>2. Return(c)
  BY <1>1 DEF LateCommand
<1>3. /\ pc' \in [Tasks -> Points] /\ job' \in [Tasks -> Job]
      /\ \A u \in Tasks \ {c} : pc'[u] = pc[u] /\ job'[u] = job[u]
  BY <1>1, <1>2, ReturnType DEF TypeOK
<1>4. TypeOK'
  BY <1>1, <1>3, LockType
  DEF LateCommand, ClientPlaced, TypeOK, fileVars, lockVars, roundVars
<1>5. OthersStay(c)
  BY <1>1, <1>3 DEF LateCommand, OthersStay, TypeOK, fileVars
<1>6. ClientPlaced(c)'
  <2>1. CASE Return(c)
    BY <1>1, <2>1, ReturnPlaced DEF LateCommand, ClientPlaced, fileVars
  <2> QED
    BY <1>2, <2>1
<1> QED
  BY <1>4, <1>5, <1>6, ClientFrame

\* The point where a dropped request leaves its call is a point of a client.
LEMMA LateType ==
    ASSUME NEW q \in Points
    PROVE  /\ LateOf(q) \in {"idle"} \cup LatePoints
           /\ q \notin {"trunc", "data"} => LateOf(q) \notin {"lateTrunc", "lateData"}
           /\ q = "data" => LateOf(q) = "lateData"
  BY DEF LateOf, LatePoints

\* TimeOut preserves the inductive invariant.
LEMMA TimeOutInd ==
    ASSUME IndInv, NEW c \in Clients, TimeOut(c)
    PROVE  IndInv' /\ OthersStay(c)
<1>1. c \in Tasks /\ ClientPlaced(c) /\ TypeOK /\ job[c] \in Job
  BY DEF Tasks, IndInv, Placed, TypeOK
<1> DEFINE q == LateOf(pc[c])
           j == IF q = "idle" THEN NoJob ELSE [job[c] EXCEPT !.op = "none", !.prev = Absent]
<1>2. pc[c] \in Points /\ q \in Points /\ q \in {"idle"} \cup LatePoints
  BY <1>1, LateType DEF TypeOK, Points
<1>3. j \in Job /\ j.op = "none" /\ (q # "idle" => j.share = Share(c))
  BY <1>1, NoJobType, JobFields DEF Job, Ops, Share
<1>4. pc' \in [Tasks -> Points] /\ pc'[c] = q /\ \A u \in Tasks \ {c} : pc'[u] = pc[u]
  BY <1>1, <1>2, GoType DEF TimeOut
<1>5. job' \in [Tasks -> Job] /\ job'[c] = j /\ \A u \in Tasks \ {c} : job'[u] = job[u]
  BY <1>1, <1>3 DEF TimeOut, TypeOK
<1>6. TypeOK'
  BY <1>1, <1>4, <1>5, LockType DEF TimeOut, TypeOK, Unsaved, fileVars, roundVars
<1>7. OthersStay(c)
  BY <1>4, <1>5 DEF TimeOut, OthersStay, fileVars
<1>8. ClientPlaced(c)'
  <2>1. pc[c] # "idle" /\ fd'[c] = fd[c] /\ buf'[c] = buf[c]
    BY DEF TimeOut, fileVars
  <2>2. pc'[c] \in {"idle"} \cup LatePoints /\ pc'[c] \in ClientPoints
    BY <1>2, <1>4 DEF ClientPoints
  <2>3. job'[c].op = "none" /\ (pc'[c] # "idle" => job'[c].share \in Shares)
    BY <1>1, <1>3, <1>4, <1>5, <2>1 DEF ClientPlaced
  <2>4. pc'[c] \in {"lateTrunc", "lateData"} => buf'[c] \in Content
    BY <1>1, <1>2, <1>4, <2>1, LateType DEF ClientPlaced
  <2>5. fd'[c] # "none" => pc'[c] = "lateData"
    BY <1>1, <1>2, <1>4, <2>1, LateType DEF ClientPlaced, TimeOut, LatePoints
  <2> QED
    BY <2>2, <2>3, <2>4, <2>5 DEF ClientPlaced, LatePoints, SavePoints, Share, ByMount
<1> QED
  BY <1>6, <1>7, <1>8, ClientFrame

-----------------------------------------------------------------------------
(* The monitor                                                              *)

\* A monitor that returned to its loop relies on nothing.
LEMMA MonitorReturn ==
    ASSUME IndInv, Return(Monitor), job[Monitor].op # "none"
    PROVE  MonitorPlaced'
<1>1. Monitor \in Tasks /\ job[Monitor].op \in {"none", "auto", "health", "reconnect"}
  BY DEF Tasks, IndInv, Placed, MonitorPlaced
<1>2. pc'[Monitor] \in {"auto", "probe", "redial"} /\ job'[Monitor].op = "none"
  BY <1>1, ReturnType, NoJobType DEF IndInv, Caller
<1> QED
  BY <1>2 DEF MonitorPlaced, MonitorPoints

\* mount_with_retry when the monitor runs it.
LEMMA MonitorAttemptInd ==
    ASSUME IndInv, Attempt(Monitor)
    PROVE  IndInv' /\ OthersStay(Monitor)
<1>1. /\ Monitor \in Tasks /\ MonitorPlaced /\ TypeOK /\ job[Monitor] \in Job
      /\ ~HoldsPermit(Monitor)
  BY DEF Tasks, IndInv, Placed, MonitorPlaced, TypeOK, HoldsPermit
<1>2. pc[Monitor] \in {"preUnmount", "mountCmd", "markActive"}
  BY DEF Attempt, PreUnmount, BreakerOpen, MountSucceeds, MountFails, MarkActive
<1>3. Share(Monitor) \in Shares /\ job[Monitor].op \in {"auto", "reconnect"}
  BY <1>1, <1>2 DEF MonitorPlaced
<1>4. /\ buf' = buf /\ fd' = fd /\ disk' = disk /\ tmp' = tmp /\ todo' = todo
      /\ closing' = closing /\ boots' = boots /\ unsaved' = unsaved /\ permits' = permits
  BY <1>1 DEF Attempt, PreUnmount, BreakerOpen, MountSucceeds, MountFails, MarkActive,
     MountFailed, GiveBackPermit, fileVars, roundVars
<1>5. mounted' \subseteq Shares /\ proved' \subseteq Shares
  BY <1>1, <1>3 DEF Attempt, PreUnmount, BreakerOpen, MountSucceeds, MountFails, MarkActive,
     TypeOK
<1>6. mem' \in Content
  BY <1>1, <1>3, StatusType DEF Attempt, PreUnmount, BreakerOpen, MountSucceeds, MountFails,
     MarkActive, TypeOK, Statuses
<1>7. /\ readers' \subseteq Tasks /\ writer' \in Tasks \cup {NoTask}
      /\ waiting' \subseteq Tasks /\ ahead' \in [Tasks -> SUBSET Tasks]
  BY <1>1, LockType DEF Attempt, PreUnmount, BreakerOpen, MountSucceeds, MountFails,
     MarkActive, TypeOK, lockVars
<1>8. \/ Return(Monitor)
      \/ /\ Go(Monitor, "mountCmd") /\ job[Monitor].tries < MaxTries
         /\ job' = [job EXCEPT ![Monitor].tries = @ + 1]
      \/ Go(Monitor, "markActive") /\ UNCHANGED job
      \/ Go(Monitor, "preUnmount") /\ UNCHANGED job /\ job[Monitor].tries < MaxTries
      \/ Go(Monitor, "markError") /\ UNCHANGED job /\ job[Monitor].op = "reconnect"
  BY <1>1, <1>3 DEF Attempt, PreUnmount, BreakerOpen, MountSucceeds, MountFails, MarkActive,
     MountFailed, MonitorPlaced
<1>9. job[Monitor].tries < MaxTries =>
         [job EXCEPT ![Monitor].tries = @ + 1] \in [Tasks -> Job]
  BY <1>1, JobUpdate DEF Ops
<1>10. /\ pc' \in [Tasks -> Points] /\ job' \in [Tasks -> Job]
       /\ \A u \in Tasks \ {Monitor} : pc'[u] = pc[u] /\ job'[u] = job[u]
  BY <1>1, <1>8, <1>9, ReturnType, GoType, PointTypes DEF MonitorPoints, TypeOK
<1>11. TypeOK'
  BY <1>1, <1>4, <1>5, <1>6, <1>7, <1>10 DEF TypeOK
<1>12. OthersStay(Monitor)
  BY <1>4, <1>10 DEF OthersStay
<1>13. MonitorPlaced'
  <2>1. CASE Return(Monitor)
    BY <1>3, <2>1, MonitorReturn
  <2>2. CASE ~Return(Monitor)
    <3>1. /\ pc'[Monitor] \in {"mountCmd", "markActive", "preUnmount", "markError"}
          /\ job'[Monitor].op = job[Monitor].op /\ job'[Monitor].share = job[Monitor].share
          /\ pc'[Monitor] = "preUnmount" => job'[Monitor].tries < MaxTries
          /\ pc'[Monitor] = "markError" => job'[Monitor].op = "reconnect"
      BY <1>1, <1>8, <2>2, GoType, PointTypes DEF MonitorPoints, TypeOK, Job
    <3> QED
      BY <1>3, <3>1 DEF MonitorPlaced, MonitorPoints, Share
  <2> QED
    BY <2>1, <2>2
<1> QED
  BY <1>11, <1>12, <1>13, MonitorFrame

\* A snapshot leaves the monitor at the head of a round's next part.
LEMMA SnapshotInd ==
    ASSUME IndInv, NEW q \in {"boot", "health", "reconnect"},
           NEW next \in {"auto", "probe", "redial"}, NEW S \in SUBSET Shares,
           Snapshot(q, next, S)
    PROVE  IndInv' /\ OthersStay(Monitor)
<1>1. Monitor \in Tasks /\ MonitorPlaced /\ TypeOK
  BY DEF Tasks, IndInv, Placed
<1>2. /\ pc' \in [Tasks -> Points] /\ pc'[Monitor] = next
      /\ \A u \in Tasks \ {Monitor} : pc'[u] = pc[u]
  BY <1>1, GoType, PointTypes DEF Snapshot, MonitorPoints
<1>3. TypeOK'
  BY <1>1, <1>2, LockType DEF Snapshot, TypeOK, fileVars
<1>4. OthersStay(Monitor)
  BY <1>2 DEF Snapshot, OthersStay, fileVars
<1>5. MonitorPlaced'
  BY <1>1, <1>2 DEF Snapshot, MonitorPlaced, MonitorPoints, Share
<1> QED
  BY <1>3, <1>4, <1>5, MonitorFrame

\* The monitor takes a share of its snapshot.
LEMMA TakeInd ==
    ASSUME IndInv, NEW s \in Shares,
           NEW op \in {"none", "auto", "health", "reconnect"}, NEW from, NEW to,
           \/ op = "auto" /\ to = "preUnmount"
           \/ op = "health" /\ to = "markFailed"
           \/ op = "reconnect" /\ to = "markReconnecting"
           \/ op = "none" /\ to \in {"probe", "redial"},
           Take(s, op, from, to)
    PROVE  IndInv' /\ OthersStay(Monitor)
<1>1. Monitor \in Tasks /\ MonitorPlaced /\ TypeOK
  BY DEF Tasks, IndInv, Placed
<1>2. /\ pc' \in [Tasks -> Points] /\ pc'[Monitor] = to
      /\ \A u \in Tasks \ {Monitor} : pc'[u] = pc[u]
  BY <1>1, GoType, PointTypes DEF Take, MonitorPoints
<1>3. NewJob(op, s) \in Job /\ NewJob(op, s).op = op /\ NewJob(op, s).share = s
      /\ NewJob(op, s).tries = 0
  BY NewJobType DEF Ops
<1>4. /\ job' \in [Tasks -> Job]
      /\ job'[Monitor] = IF op = "none" THEN NoJob ELSE NewJob(op, s)
      /\ \A u \in Tasks \ {Monitor} : job'[u] = job[u]
  BY <1>1, <1>3, NoJobType DEF Take, TypeOK
<1>5. TypeOK'
  BY <1>1, <1>2, <1>4 DEF Take, TypeOK, fileVars, lockVars
<1>6. OthersStay(Monitor)
  BY <1>2, <1>4 DEF Take, OthersStay, fileVars
<1>7. MonitorPlaced'
  BY <1>2, <1>3, <1>4, NoJobType, ConstantsInRange DEF MonitorPlaced, MonitorPoints, Share
<1> QED
  BY <1>5, <1>6, <1>7, MonitorFrame

\* The rounds of the monitoring loop.
LEMMA MonitorStepInd ==
    ASSUME IndInv, MonitorStep
    PROVE  IndInv' /\ OthersStay(Monitor)
<1>1. Monitor \in Tasks /\ MonitorPlaced /\ TypeOK
  BY DEF Tasks, IndInv, Placed
<1>2. CASE AutoMountSet \/ HealthSet \/ ReconnectSet
  <2>1. EnabledWith("Disabled") \in SUBSET Shares /\ WithStatus("Active") \in SUBSET Shares
        /\ EnabledWith("Failed") \in SUBSET Shares
    BY DEF EnabledWith, WithStatus
  <2>2. CASE AutoMountSet
    BY <2>1, <2>2, SnapshotInd DEF AutoMountSet
  <2>3. CASE HealthSet
    BY <2>1, <2>3, SnapshotInd DEF HealthSet
  <2>4. CASE ReconnectSet
    <3>1. PICK due \in SUBSET EnabledWith("Failed") : Snapshot("reconnect", "redial", due)
      BY <2>4 DEF ReconnectSet
    <3>2. due \in SUBSET Shares
      BY <2>1
    <3> QED
      BY <3>1, <3>2, SnapshotInd
  <2> QED
    BY <1>2, <2>2, <2>3, <2>4
<1>3. ASSUME NEW s \in Shares,
             AutoMount(s) \/ Healthy(s) \/ Unhealthy(s) \/ SkipRedial(s) \/ Redial(s)
      PROVE  IndInv' /\ OthersStay(Monitor)
  BY <1>3, TakeInd DEF AutoMount, Healthy, Unhealthy, SkipRedial, Redial
<1>4. CASE EndOfRound
  <2>1. /\ pc' \in [Tasks -> Points] /\ pc'[Monitor] \in {"health", "reconnect"}
        /\ \A u \in Tasks \ {Monitor} : pc'[u] = pc[u]
    BY <1>1, <1>4, GoType, PointTypes DEF EndOfRound, MonitorPoints
  <2>2. TypeOK'
    BY <1>1, <1>4, <2>1 DEF EndOfRound, TypeOK, fileVars, lockVars, roundVars
  <2>3. OthersStay(Monitor)
    BY <1>4, <2>1 DEF EndOfRound, OthersStay, fileVars
  <2>4. MonitorPlaced'
    BY <1>1, <1>4, <2>1 DEF EndOfRound, MonitorPlaced, MonitorPoints, Share
  <2> QED
    BY <2>2, <2>3, <2>4, MonitorFrame
<1>5. CASE MarkFailed \/ MarkError
  <2>1. Share(Monitor) \in Shares /\ Return(Monitor) /\ job[Monitor].op # "none"
    BY <1>1, <1>5 DEF MarkFailed, MarkError, MonitorPlaced
  <2>2. /\ pc' \in [Tasks -> Points] /\ job' \in [Tasks -> Job]
        /\ \A u \in Tasks \ {Monitor} : pc'[u] = pc[u] /\ job'[u] = job[u]
    BY <1>1, <2>1, ReturnType
  <2>3. mem' \in Content
    BY <1>1, <1>5, <2>1, StatusType DEF MarkFailed, MarkError, Statuses
  <2>4. TypeOK'
    BY <1>1, <1>5, <2>2, <2>3, LockType DEF MarkFailed, MarkError, TypeOK, fileVars, roundVars
  <2>5. OthersStay(Monitor)
    BY <1>5, <2>2 DEF MarkFailed, MarkError, OthersStay, fileVars
  <2> QED
    BY <2>1, <2>4, <2>5, MonitorReturn, MonitorFrame
<1>6. CASE MarkReconnecting
  <2>1. Share(Monitor) \in Shares
    BY <1>1, <1>6 DEF MarkReconnecting, MonitorPlaced
  <2>2. /\ pc' \in [Tasks -> Points] /\ pc'[Monitor] = "preUnmount"
        /\ \A u \in Tasks \ {Monitor} : pc'[u] = pc[u]
    BY <1>1, <1>6, GoType, PointTypes DEF MarkReconnecting, MonitorPoints
  <2>3. mem' \in Content
    BY <1>1, <1>6, <2>1, StatusType DEF MarkReconnecting, Statuses
  <2>4. TypeOK'
    BY <1>1, <1>6, <2>2, <2>3, LockType DEF MarkReconnecting, TypeOK, fileVars, roundVars
  <2>5. OthersStay(Monitor)
    BY <1>6, <2>2 DEF MarkReconnecting, OthersStay, fileVars
  <2>6. MonitorPlaced'
    BY <1>1, <1>6, <2>2, ConstantsInRange
    DEF MarkReconnecting, MonitorPlaced, MonitorPoints, Share
  <2> QED
    BY <2>4, <2>5, <2>6, MonitorFrame
<1> QED
  BY <1>2, <1>3, <1>4, <1>5, <1>6 DEF MonitorStep

-----------------------------------------------------------------------------
(* Main, the queue and restarts                                             *)

\* A new process satisfies the invariant, whatever the file holds.
LEMMA BootInd ==
    ASSUME IndInv, Boot, mounted' \subseteq Shares
    PROVE  IndInv'
<1>1. Loaded \in Content
  BY DEF IndInv, TypeOK, Loaded, Empty, Content
<1>2. PICK m \in FirstPoints : pc' = Fresh(m)
  BY DEF Boot
<1>3. m \in {"boot", "health"}
  BY <1>2, ConstantsInRange
<1>4. /\ Monitor \in Tasks /\ Main \in Tasks /\ Clients \subseteq Tasks
      /\ pc' \in [Tasks -> Points]
      /\ pc'[Monitor] = m /\ pc'[Main] = "up" /\ \A c \in Clients : pc'[c] = "idle"
  BY <1>2, <1>3, ConstantsDistinct DEF Fresh, Tasks, Points, ReadPoints
<1>5. /\ job' \in [Tasks -> Job] /\ \A t \in Tasks : job'[t].op = "none" /\ fd'[t] = "none"
  BY NoJobType DEF Boot
<1>6. TypeOK'
  BY <1>1, <1>4, <1>5, ConstantsInRange DEF Boot, IndInv, TypeOK
<1>7. ASSUME NEW c \in Clients PROVE ClientPlaced(c)'
  BY <1>4, <1>5 DEF ClientPlaced, ClientPoints, LatePoints, SavePoints
<1>8. MonitorPlaced'
  BY <1>3, <1>4, <1>5 DEF MonitorPlaced, MonitorPoints
<1> QED
  BY <1>4, <1>6, <1>7, <1>8 DEF IndInv, Placed

\* Steps that only move Main, or nobody.
LEMMA QuietInd ==
    ASSUME IndInv, TypeOK', UNCHANGED <<job, buf, fd>>,
           \A u \in Tasks \ {Main} : pc'[u] = pc[u],
           pc'[Main] \in {"up", "closing", "closeCmd"}
    PROVE  IndInv'
<1>1. \A c \in Clients : c \in Tasks \ {Main}
  BY ConstantsDistinct DEF Tasks
<1>2. Monitor \in Tasks \ {Main}
  BY ConstantsDistinct DEF Tasks
<1>3. ASSUME NEW c \in Clients PROVE ClientPlaced(c)'
  BY <1>1 DEF IndInv, Placed, ClientPlaced, Share, ByMount
<1>4. MonitorPlaced'
  BY <1>2 DEF IndInv, Placed, MonitorPlaced, Share
<1> QED
  BY <1>3, <1>4 DEF IndInv, Placed

\* Shutdown, crash and restart.
LEMMA MainInd ==
    ASSUME IndInv, Signal \/ MainStep \/ Crash
    PROVE  IndInv'
<1>1. Main \in Tasks /\ TypeOK /\ pc[Main] \in {"up", "closing", "closeCmd"}
  BY DEF Tasks, IndInv, Placed
<1>2. CASE Signal
  <2>1. /\ pc' \in [Tasks -> Points] /\ pc'[Main] = "closing"
        /\ \A u \in Tasks \ {Main} : pc'[u] = pc[u]
    BY <1>1, <1>2, GoType DEF Signal, Points, ReadPoints
  <2>2. TypeOK'
    BY <1>1, <1>2, <2>1 DEF Signal, TypeOK, fileVars, lockVars, roundVars
  <2> QED
    BY <1>2, <2>1, <2>2, QuietInd DEF Signal, fileVars
<1>3. CASE Cleanup
  <2>1. /\ pc' \in [Tasks -> Points] /\ pc'[Main] = "closeCmd"
        /\ \A u \in Tasks \ {Main} : pc'[u] = pc[u]
    BY <1>1, <1>3, GoType DEF Cleanup, Points
  <2>2. TypeOK'
    BY <1>1, <1>3, <2>1, LockType DEF Cleanup, WithStatus, TypeOK, fileVars
  <2> QED
    BY <1>3, <2>1, <2>2, QuietInd DEF Cleanup, fileVars
<1>4. ASSUME NEW s \in Shares, CloseShare(s) PROVE IndInv'
  <2>1. TypeOK'
    BY <1>1, <1>4 DEF CloseShare, TypeOK, fileVars, lockVars, taskVars
  <2> QED
    BY <1>1, <1>4, <2>1, QuietInd DEF CloseShare, fileVars, taskVars
<1>5. CASE Exit \/ Crash
  BY <1>1, <1>5, BootInd DEF Exit, Crash, TypeOK
<1> QED
  BY <1>2, <1>3, <1>4, <1>5 DEF MainStep

\* Joining the queue.
LEMMA AwaitLockInd ==
    ASSUME IndInv, NEW t \in Tasks, AwaitLock(t)
    PROVE  IndInv'
<1>1. TypeOK'
  BY DEF IndInv, TypeOK, AwaitLock, fileVars, taskVars, roundVars
<1> QED
  BY <1>1, QuietInd DEF AwaitLock, fileVars, taskVars, IndInv, Placed

\* Every step preserves the inductive invariant: one lemma above for each action.
LEMMA NextInd ==
    ASSUME IndInv, [Next]_vars
    PROVE  IndInv'
<1>1. ASSUME NEW c \in Clients, ClientStep(c) PROVE IndInv'
  BY <1>1, MountExistsInd, AcquirePermitInd, AddInd, LookupInd, UnmountSucceedsInd,
     UnmountFailsInd, SetDisabledInd, ToggleInd, EraseInd, BeginSaveInd, OpenTmpInd,
     WriteDataInd, RenameInd, SaveFailsInd, LateRenameInd, LateCommandInd DEF ClientStep
<1>2. ASSUME NEW c \in Clients, Attempt(c) PROVE IndInv'
  BY <1>2, PreUnmountInd, BreakerOpenInd, MountSucceedsInd, MountFailsInd, MarkActiveInd
  DEF Attempt
<1>3. CASE UNCHANGED vars
  <2>1. TypeOK'
    BY <1>3 DEF IndInv, TypeOK, vars, fileVars, lockVars, taskVars, roundVars
  <2> QED
    BY <1>3, <2>1, QuietInd
    DEF IndInv, Placed, vars, fileVars, taskVars
<1> QED
  BY <1>1, <1>2, <1>3, BeginInd, TimeOutInd, MonitorAttemptInd, MonitorStepInd,
     AwaitLockInd, MainInd DEF Next

\* Every variable has its type, and every task stands at a point of its own
\* handler with what it needs there, in every reachable state.
THEOREM TypeCorrect == Spec => [](TypeOK /\ Placed)
<1>1. Init => IndInv
  BY InitInd
<1>2. IndInv /\ [Next]_vars => IndInv'
  BY NextInd
<1> QED
  BY <1>1, <1>2, PTL DEF Spec, IndInv

=============================================================================
