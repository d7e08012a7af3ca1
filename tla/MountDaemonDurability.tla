----------------------- MODULE MountDaemonDurability -----------------------
(***************************************************************************)
(* What the configuration file of MountDaemon can be relied on for, proved *)
(* for any number of clients, shares and restarts: what is durable when no *)
(* request is under way, and when the file implements ConfigStore.         *)
(***************************************************************************)
EXTENDS MountDaemonSafety

FilePoints == SavePoints \cup {"lateTrunc", "lateData", "lateRename"}

\* A request that changed the configuration and has not saved it yet, or stands in
\* the rollback of a save that failed.
Debtor(c) == pc[c] \in SavePoints \cup {"saveRead", "saveWrite", "rollback"}

\* DurableIntent is not inductive: it says nothing while a request is under way.
\* As long as no write was left half-done, every text on its way to the file is
\* what the memory says now, nobody is at a late point, and a temporary file that
\* is opened but not yet written has a writer.
DurableInv ==
    \/ unsaved = "stray"
    \/ /\ \A c \in Clients : pc[c] \notin {"lateTrunc", "lateData", "lateRename"}
       /\ \A c \in Clients : pc[c] \in {"trunc", "data"} => buf[c] = mem
       /\ tmp # NoFile => \E c \in Clients : pc[c] \in {"data", "rename"}
       /\ \/ tmp \in {NoFile, mem}
          \/ tmp = Torn /\ \E c \in Clients : pc[c] = "data" /\ fd[c] = "tmp"
       /\ (unsaved = "no" /\ \A c \in Clients : ~Debtor(c))
              => Intent(disk) = Intent(mem)

-----------------------------------------------------------------------------
(* What the steps do to the guards, the memory and the files                *)

Late == {"lateTrunc", "lateData", "lateRename"}

\* Who is granted the write guard, for a moment or for longer, finds no save under
\* way.
LEMMA WriterAlone ==
    ASSUME LockDiscipline, NEW t, WriteSection(t) \/ HoldWrite(t), NEW c \in Clients
    PROVE  pc[c] \notin SavePoints
<1>1. writer = NoTask /\ readers = {}
  BY DEF WriteSection, HoldWrite, CanWrite, CanRead
<1>2. ~KeepsReadGuard(c) /\ ~KeepsWriteGuard(c)
  BY <1>1, ConstantsDistinct DEF LockDiscipline, Tasks, KeepsReadGuard, KeepsWriteGuard
<1> QED
  BY <1>2 DEF KeepsReadGuard, KeepsWriteGuard, Saving

\* A save that undoes its change in memory has no other save beside it.
LEMMA SaverAlone ==
    ASSUME LockDiscipline, NEW c \in Clients, KeepsWriteGuard(c), NEW d \in Clients,
           d # c
    PROVE  pc[d] \notin SavePoints
<1>1. writer = c /\ readers = {}
  BY ConstantsDistinct DEF LockDiscipline, Tasks, KeepsReadGuard, KeepsWriteGuard
<1>2. ~KeepsReadGuard(d) /\ ~KeepsWriteGuard(d)
  BY <1>1 DEF LockDiscipline
<1> QED
  BY <1>2 DEF KeepsReadGuard, KeepsWriteGuard, Saving

\* A change of status is none of what the user asked for.
LEMMA IntentStatus ==
    ASSUME TypeOK, NEW s \in Shares, NEW st \in Statuses, SetStatus(s, st)
    PROVE  Intent(mem') = Intent(mem)
<1>1. mem \in Content /\ mem' \in Content /\ mem # Torn /\ mem' # Torn
  BY StatusType, ConstantsDistinct DEF TypeOK
<1>2. mem' = [mem EXCEPT ![s] = IF mem[s] = Absent THEN Absent
                               ELSE [mem[s] EXCEPT !.status = st]]
  BY DEF SetStatus
<1>3. ASSUME NEW r \in Shares
      PROVE  /\ mem'[r] = Absent <=> mem[r] = Absent
             /\ mem[r] # Absent => mem'[r].enabled = mem[r].enabled
  <2>1. mem[r] \in Entry \cup {Absent}
    BY <1>1 DEF Content
  <2>2. CASE r # s
    BY <1>1, <1>2, <2>2 DEF Content
  <2>3. CASE r = s /\ mem[s] = Absent
    BY <1>1, <1>2, <2>3 DEF Content
  <2>4. CASE r = s /\ mem[s] # Absent
    <3>1. mem[s] \in Entry /\ mem'[s] = [mem[s] EXCEPT !.status = st]
      BY <1>1, <1>2, <2>1, <2>4 DEF Content
    <3>2. [mem[s] EXCEPT !.status = st] \in Entry
          /\ [mem[s] EXCEPT !.status = st].enabled = mem[s].enabled
      BY <3>1 DEF Entry
    <3> QED
      BY <2>4, <3>1, <3>2, ConstantsDistinct
  <2> QED
    BY <2>2, <2>3, <2>4
<1> QED
  BY <1>1, <1>3 DEF Intent

\* After a start the memory holds what the file held.
LEMMA IntentLoaded == Intent(Loaded) = Intent(disk)
  BY DEF Intent, Loaded, Empty

-----------------------------------------------------------------------------
(* DurableIntent                                                            *)

\* The flag of a stray write is only taken down by a restart, and a change that
\* was not saved stays one until a save.
KeepsRecord == /\ unsaved = "stray" => unsaved' = "stray"
               /\ unsaved' = "no" => unsaved = "no"

\* A step that leaves files and saves alone.
LEMMA DurableFrame ==
    ASSUME DurableInv, KeepsRecord, UNCHANGED <<disk, tmp, buf, fd>>,
           mem' = mem \/ \A c \in Clients : pc[c] \notin SavePoints,
           \A c \in Clients : pc'[c] = pc[c] \/ {pc[c], pc'[c]} \cap FilePoints = {},
           (unsaved' = "no" /\ \A c \in Clients : ~Debtor(c)')
               => Intent(mem') = Intent(mem) /\ \A c \in Clients : ~Debtor(c)
    PROVE  DurableInv'
<1>1. CASE unsaved = "stray"
  BY <1>1 DEF KeepsRecord, DurableInv
<1>2. CASE unsaved # "stray"
  <2>1. \A c \in Clients : pc'[c] \notin Late
    BY <1>2 DEF DurableInv, FilePoints, Late
  <2>2. \A c \in Clients : pc'[c] \in FilePoints <=> pc[c] \in FilePoints
    OBVIOUS
  <2>3. \A c \in Clients : pc'[c] \in {"trunc", "data"} => buf'[c] = mem'
    BY <1>2 DEF DurableInv, FilePoints, SavePoints
  <2>4. tmp' # NoFile => \E c \in Clients : pc'[c] \in {"data", "rename"}
    BY <1>2 DEF DurableInv, FilePoints, SavePoints
  <2>5. \/ tmp' \in {NoFile, mem'}
        \/ tmp' = Torn /\ \E c \in Clients : pc'[c] = "data" /\ fd'[c] = "tmp"
    <3>1. CASE tmp = NoFile
      BY <3>1
    <3>2. CASE tmp # NoFile
      <4>1. PICK c \in Clients : pc[c] \in {"data", "rename"}
        BY <1>2, <3>2 DEF DurableInv
      <4>2. mem' = mem
        BY <4>1 DEF SavePoints
      <4>3. CASE tmp = mem
        BY <4>2, <4>3
      <4>4. CASE tmp = Torn /\ \E d \in Clients : pc[d] = "data" /\ fd[d] = "tmp"
        <5>1. PICK d \in Clients : pc[d] = "data" /\ fd[d] = "tmp"
          BY <4>4
        <5>2. pc'[d] = "data" /\ fd'[d] = "tmp"
          BY <5>1 DEF FilePoints, SavePoints
        <5> QED
          BY <4>4, <5>2
      <4> QED
        BY <1>2, <3>2, <4>3, <4>4 DEF DurableInv
    <3> QED
      BY <3>1, <3>2
  <2>6. (unsaved' = "no" /\ \A c \in Clients : ~Debtor(c)')
            => Intent(disk') = Intent(mem')
    BY <1>2 DEF DurableInv, KeepsRecord
  <2> QED
    BY <2>1, <2>3, <2>4, <2>5, <2>6 DEF DurableInv, Late
<1> QED
  BY <1>1, <1>2

\* The same for a step of one request.
LEMMA DurableClientFrame ==
    ASSUME IndInv, DurableInv, KeepsRecord, NEW c \in Clients, OthersStay(c),
           UNCHANGED <<disk, tmp, buf, fd>>,
           mem' = mem \/ \A d \in Clients : pc[d] \notin SavePoints,
           pc[c] \notin SavePoints, pc'[c] \notin FilePoints,
           unsaved' = "no" /\ ~Debtor(c)' => Intent(mem') = Intent(mem) /\ ~Debtor(c)
    PROVE  DurableInv'
<1>1. CASE unsaved = "stray"
  BY <1>1 DEF KeepsRecord, DurableInv
<1>2. CASE unsaved # "stray"
  <2>1. \A d \in Clients \ {c} : pc'[d] = pc[d] /\ (Debtor(d)' <=> Debtor(d))
    BY DEF OthersStay, Tasks, Debtor
  <2>2. pc[c] \notin FilePoints
    BY <1>2 DEF DurableInv, FilePoints
  <2> QED
    BY <2>1, <2>2, DurableFrame
<1> QED
  BY <1>1, <1>2

\* The steps of a request that leave the files alone.
LEMMA DurableRequest ==
    ASSUME IndInv, LockDiscipline, DurableInv, NEW c \in Clients, OthersStay(c),
           \/ \E op \in Requests, s \in Shares : Begin(c, op, s)
           \/ MountExists(c) \/ AcquirePermit(c) \/ Add(c) \/ Lookup(c)
           \/ UnmountSucceeds(c) \/ UnmountFails(c) \/ SetDisabled(c) \/ Toggle(c)
           \/ LateCommand(c) \/ Attempt(c)
    PROVE  DurableInv'
<1>1. /\ c \in Tasks /\ TypeOK /\ ClientPlaced(c) /\ job[c] \in Job
  BY DEF Tasks, IndInv, Placed, TypeOK
<1>2. ASSUME Unsaved PROVE KeepsRecord /\ unsaved' # "no"
  BY <1>2 DEF Unsaved, KeepsRecord
<1>3. ASSUME unsaved' = unsaved PROVE KeepsRecord
  BY <1>3 DEF KeepsRecord
<1>4. ASSUME Return(c) PROVE pc'[c] \notin FilePoints
  BY <1>1, <1>4, ReturnType, CallerType DEF FilePoints, SavePoints
<1>5. CASE \/ \E op \in Requests, s \in Shares : Begin(c, op, s)
           \/ MountExists(c) \/ AcquirePermit(c) \/ Lookup(c) \/ LateCommand(c)
  <2>1. UNCHANGED <<mem, disk, tmp, buf, fd, unsaved>>
    BY <1>5 DEF Begin, MountExists, AcquirePermit, Lookup, LateCommand, fileVars
  <2>2. pc[c] \notin SavePoints /\ ~Debtor(c)
    BY <1>5 DEF Begin, MountExists, AcquirePermit, Lookup, LateCommand, SavePoints, Debtor
  <2>3. pc'[c] \notin FilePoints
    <3>1. CASE Return(c)
      BY <1>4, <3>1
    <3>2. CASE ~Return(c)
      BY <1>1, <1>5, <3>2
      DEF Begin, MountExists, AcquirePermit, Lookup, LateCommand, Go, TypeOK, FilePoints,
          SavePoints
    <3> QED
      BY <3>1, <3>2
  <2> QED
    BY <1>3, <2>1, <2>2, <2>3, DurableClientFrame
<1>6. CASE UnmountSucceeds(c) \/ UnmountFails(c)
  <2>1. UNCHANGED <<mem, disk, tmp, buf, fd, unsaved>>
    BY <1>6 DEF UnmountSucceeds, UnmountFails, fileVars
  <2>2. pc[c] \notin SavePoints /\ ~Debtor(c)
    BY <1>6 DEF UnmountSucceeds, UnmountFails, SavePoints, Debtor
  <2>3. pc'[c] \notin FilePoints
    <3>1. CASE Return(c)
      BY <1>4, <3>1
    <3>2. CASE Go(c, "setDisabled") \/ Go(c, "mountCmd")
      BY <1>1, <3>2 DEF Go, TypeOK, FilePoints, SavePoints
    <3> QED
      BY <1>6, <3>1, <3>2 DEF UnmountSucceeds, UnmountFails
  <2> QED
    BY <1>3, <2>1, <2>2, <2>3, DurableClientFrame
<1>7. CASE Attempt(c)
  <2>1. UNCHANGED <<disk, tmp, buf, fd, unsaved>>
    BY <1>7 DEF Attempt, PreUnmount, BreakerOpen, MountSucceeds, MountFails, MarkActive,
       fileVars
  <2>2. pc[c] \notin SavePoints /\ ~Debtor(c)
    BY <1>7 DEF Attempt, PreUnmount, BreakerOpen, MountSucceeds, MountFails, MarkActive,
       SavePoints, Debtor
  <2>3. pc'[c] \notin FilePoints
    <3>1. CASE Return(c)
      BY <1>4, <3>1
    <3>2. CASE Go(c, "mountCmd") \/ Go(c, "markActive") \/ Go(c, "add")
               \/ Go(c, "preUnmount") \/ Go(c, "markError")
      BY <1>1, <3>2 DEF Go, TypeOK, FilePoints, SavePoints
    <3> QED
      BY <1>7, <3>1, <3>2 DEF Attempt, PreUnmount, BreakerOpen, MountSucceeds, MountFails,
         MountFailed, MarkActive
  <2>4. CASE mem' = mem
    BY <1>3, <2>1, <2>2, <2>3, <2>4, DurableClientFrame
  <2>5. CASE MarkActive(c)
    <3>1. Share(c) \in Shares /\ SetStatus(Share(c), "Active") /\ WriteSection(c)
      BY <1>1, <2>5 DEF MarkActive, ClientPlaced
    <3>2. Intent(mem') = Intent(mem)
      BY <1>1, <3>1, IntentStatus DEF Statuses
    <3> QED
      BY <1>3, <2>1, <2>2, <2>3, <3>1, <3>2, WriterAlone, DurableClientFrame
  <2> QED
    BY <1>7, <2>4, <2>5 DEF Attempt, PreUnmount, BreakerOpen, MountSucceeds, MountFails
<1>8. CASE Add(c) \/ SetDisabled(c) \/ Toggle(c)
  <2>1. UNCHANGED <<disk, tmp, buf, fd>> /\ WriteSection(c)
    BY <1>8 DEF Add, SetDisabled, Toggle, fileVars
  <2>2. pc[c] \notin SavePoints /\ ~Debtor(c)
    BY <1>8 DEF Add, SetDisabled, Toggle, SavePoints, Debtor
  <2>3. CASE Return(c) /\ Unsaved
    BY <1>2, <1>4, <2>1, <2>2, <2>3, WriterAlone, DurableClientFrame
  <2>4. CASE Return(c) /\ mem' = mem /\ unsaved' = unsaved
    BY <1>3, <1>4, <2>1, <2>2, <2>4, DurableClientFrame
  <2>5. CASE (Go(c, "saveRead") \/ Go(c, "saveWrite")) /\ unsaved' = unsaved
    <3>1. pc'[c] \in {"saveRead", "saveWrite"}
      BY <1>1, <2>5 DEF Go, TypeOK
    <3>2. pc'[c] \notin FilePoints /\ Debtor(c)'
      BY <3>1 DEF FilePoints, SavePoints, Debtor
    <3> QED
      BY <1>3, <2>1, <2>2, <2>5, <3>2, WriterAlone, DurableClientFrame
  <2> QED
    BY <1>8, <2>3, <2>4, <2>5 DEF Add, SetDisabled, Toggle
<1> QED
  BY <1>5, <1>6, <1>7, <1>8

\* A request that is dropped: what it had begun to write becomes a stray write.
LEMMA DurableTimeOut ==
    ASSUME IndInv, LockDiscipline, DurableInv, NEW c \in Clients, OthersStay(c), TimeOut(c)
    PROVE  DurableInv'
<1>1. c \in Tasks /\ TypeOK
  BY DEF Tasks, IndInv
<1>2. UNCHANGED <<mem, disk, tmp, buf, fd>>
  BY DEF TimeOut, fileVars
<1>3. CASE pc[c] \in SavePoints
  BY <1>3 DEF TimeOut, DurableInv
<1>4. CASE pc[c] \notin SavePoints
  <2>1. LateOf(pc[c]) \in {"lateUmount", "lateMount", "idle"}
    BY <1>4 DEF LateOf, SavePoints
  <2>2. pc'[c] \notin FilePoints
    BY <1>1, <2>1 DEF TimeOut, Go, TypeOK, FilePoints, SavePoints
  <2>3. CASE pc[c] \in {"saveRead", "saveWrite", "rollback"}
    BY <1>2, <1>4, <2>2, <2>3, DurableClientFrame DEF TimeOut, Unsaved, KeepsRecord
  <2>4. CASE pc[c] \notin {"saveRead", "saveWrite", "rollback"}
    BY <1>2, <1>4, <2>2, <2>4, DurableClientFrame DEF TimeOut, KeepsRecord, Debtor
  <2> QED
    BY <2>3, <2>4
<1> QED
  BY <1>3, <1>4

\* remove_mount.  The rollback never comes this far.
LEMMA DurableErase ==
    ASSUME IndInv, LockDiscipline, DurableInv, NEW c \in Clients, OthersStay(c), Erase(c)
    PROVE  DurableInv'
<1>1. c \in Tasks /\ TypeOK /\ ClientPlaced(c)
  BY DEF Tasks, IndInv, Placed
<1>2. \A d \in Clients : pc[d] \notin SavePoints
  BY WriterAlone DEF Erase
<1>3. pc[c] = "erase"
  BY <1>1, ConstantsDistinct
  DEF Erase, WriteSection, CanWrite, LockDiscipline, KeepsReadGuard, ClientPlaced
<1>4. CASE Return(c) /\ Unsaved /\ buf' = buf
  <2>1. pc'[c] \notin FilePoints
    BY <1>1, <1>4, ReturnType, CallerType DEF FilePoints, SavePoints
  <2>2. KeepsRecord /\ unsaved' # "no"
    BY <1>4 DEF Unsaved, KeepsRecord
  <2> QED
    BY <1>2, <1>4, <2>1, <2>2, DurableClientFrame DEF Erase
<1>5. CASE Go(c, "trunc") /\ buf' = [buf EXCEPT ![c] = mem'] /\ unsaved' = unsaved
  <2>1. pc'[c] = "trunc" /\ \A d \in Clients \ {c} : pc'[d] = pc[d]
    BY <1>1, <1>5 DEF Go, TypeOK, Tasks
  <2>2. buf'[c] = mem' /\ disk' = disk /\ tmp' = tmp
    BY <1>1, <1>5 DEF Erase, TypeOK
  <2>3. CASE unsaved = "stray"
    BY <1>5, <2>3 DEF DurableInv
  <2>4. CASE unsaved # "stray"
    <3>1. tmp = NoFile
      BY <1>2, <2>4 DEF DurableInv, SavePoints
    <3>2. \A d \in Clients : pc'[d] \notin Late /\ (pc'[d] \in {"trunc", "data"} => d = c)
      BY <1>2, <2>1, <2>4 DEF DurableInv, SavePoints, Late
    <3>3. Debtor(c)'
      BY <2>1 DEF Debtor, SavePoints
    <3> QED
      BY <2>2, <3>1, <3>2, <3>3 DEF DurableInv, Late
  <2> QED
    BY <2>3, <2>4
<1> QED
  BY <1>3, <1>4, <1>5 DEF Erase

\* A save is begun with the text of the memory, and with the guard that keeps the
\* memory as it is.
LEMMA DurableBeginSave ==
    ASSUME IndInv, DurableInv, NEW c \in Clients, OthersStay(c), BeginSave(c)
    PROVE  DurableInv'
<1>1. c \in Tasks /\ TypeOK
  BY DEF Tasks, IndInv
<1>2. /\ pc'[c] = "trunc" /\ buf'[c] = mem
      /\ \A d \in Clients \ {c} : pc'[d] = pc[d] /\ buf'[d] = buf[d]
  BY <1>1 DEF BeginSave, Go, TypeOK, Tasks
<1>3. UNCHANGED <<mem, disk, tmp, fd, unsaved>> /\ pc[c] \in {"saveRead", "saveWrite"}
  BY DEF BeginSave
<1>4. CASE unsaved = "stray"
  BY <1>3, <1>4 DEF DurableInv
<1>5. CASE unsaved # "stray"
  <2>1. \A d \in Clients : pc'[d] \in {"data", "rename"} <=> pc[d] \in {"data", "rename"}
    BY <1>2, <1>3
  <2>2. \A d \in Clients : pc[d] = "data" => pc'[d] = "data"
    BY <1>2, <1>3
  <2>3. \A d \in Clients : pc'[d] \notin Late
    BY <1>2, <1>5 DEF DurableInv, Late
  <2>4. \A d \in Clients : pc'[d] \in {"trunc", "data"} => buf'[d] = mem'
    BY <1>2, <1>3, <1>5 DEF DurableInv
  <2>5. Debtor(c)'
    BY <1>2 DEF Debtor, SavePoints
  <2> QED
    BY <1>3, <1>5, <2>1, <2>2, <2>3, <2>4, <2>5 DEF DurableInv, Late
<1> QED
  BY <1>4, <1>5

\* fs::write opens the temporary file.
LEMMA DurableOpenTmp ==
    ASSUME IndInv, DurableInv, NEW c \in Clients, OthersStay(c), OpenTmp(c)
    PROVE  DurableInv'
<1>1. c \in Tasks /\ TypeOK
  BY DEF Tasks, IndInv
<1>2. UNCHANGED <<mem, disk, buf, unsaved>> /\ tmp' = Torn
  BY DEF OpenTmp
<1>3. CASE unsaved = "stray"
  BY <1>2, <1>3 DEF DurableInv
<1>4. CASE unsaved # "stray"
  <2>1. pc[c] = "trunc"
    BY <1>4 DEF OpenTmp, DurableInv
  <2>2. /\ pc'[c] = "data" /\ fd'[c] = "tmp"
        /\ \A d \in Clients \ {c} : pc'[d] = pc[d]
    BY <1>1, <2>1 DEF OpenTmp, Go, TypeOK, Tasks
  <2>3. \A d \in Clients : pc'[d] \notin Late
    BY <1>4, <2>2 DEF DurableInv, Late
  <2>4. \A d \in Clients : pc'[d] \in {"trunc", "data"} => buf'[d] = mem'
    BY <1>2, <1>4, <2>1, <2>2 DEF DurableInv
  <2>5. Debtor(c)'
    BY <2>2 DEF Debtor, SavePoints
  <2> QED
    BY <1>2, <2>2, <2>3, <2>4, <2>5 DEF DurableInv, Late
<1> QED
  BY <1>3, <1>4

\* fs::write writes, to the temporary file or to the file another save made of it.
LEMMA DurableWriteData ==
    ASSUME IndInv, DurableInv, NEW c \in Clients, OthersStay(c), WriteData(c)
    PROVE  DurableInv'
<1>1. c \in Tasks /\ TypeOK
  BY DEF Tasks, IndInv
<1>2. UNCHANGED <<mem, unsaved>>
  BY DEF WriteData
<1>3. CASE unsaved = "stray"
  BY <1>2, <1>3 DEF DurableInv
<1>4. CASE unsaved # "stray"
  <2>1. pc[c] = "data" /\ buf[c] = mem
    BY <1>4 DEF WriteData, DurableInv
  <2>2. /\ pc'[c] = "rename" /\ tmp' = IF fd[c] = "tmp" THEN mem ELSE tmp
        /\ \A d \in Clients \ {c} : pc'[d] = pc[d] /\ buf'[d] = buf[d] /\ fd'[d] = fd[d]
    BY <1>1, <2>1 DEF WriteData, Go, TypeOK, Tasks
  <2>3. \A d \in Clients : pc'[d] \notin Late
    BY <1>4, <2>2 DEF DurableInv, Late
  <2>4. \A d \in Clients : pc'[d] \in {"trunc", "data"} => buf'[d] = mem'
    BY <1>2, <1>4, <2>2 DEF DurableInv
  <2>5. Debtor(c)'
    BY <2>2 DEF Debtor, SavePoints
  <2>6. \/ tmp' \in {NoFile, mem'}
        \/ tmp' = Torn /\ \E d \in Clients : pc'[d] = "data" /\ fd'[d] = "tmp"
    <3>1. CASE fd[c] = "tmp" \/ tmp \in {NoFile, mem}
      BY <1>2, <2>2, <3>1
    <3>2. CASE fd[c] # "tmp" /\ tmp \notin {NoFile, mem}
      <4>1. PICK d \in Clients : tmp = Torn /\ pc[d] = "data" /\ fd[d] = "tmp"
        BY <1>4, <3>2 DEF DurableInv
      <4>2. d # c
        BY <3>2, <4>1
      <4> QED
        BY <2>2, <3>2, <4>1, <4>2
    <3> QED
      BY <3>1, <3>2
  <2> QED
    BY <2>2, <2>3, <2>4, <2>5, <2>6 DEF DurableInv, Late
<1> QED
  BY <1>3, <1>4

\* The rename.  Whoever ends the last save under way has renamed a temporary file
\* that nobody was still writing, so its text is the memory's.
LEMMA DurableRename ==
    ASSUME IndInv, DurableInv, NEW c \in Clients, OthersStay(c), Rename(c)
    PROVE  DurableInv'
<1>1. c \in Tasks /\ TypeOK
  BY DEF Tasks, IndInv
<1>2. UNCHANGED <<mem, buf>> /\ tmp' = NoFile /\ disk' = tmp /\ tmp # NoFile
  BY DEF Rename, RenameTmp
<1>3. CASE unsaved = "stray"
  BY <1>3 DEF Rename, DurableInv
<1>4. CASE unsaved # "stray"
  <2>1. \A d \in Clients \ {c} : pc'[d] = pc[d]
    BY DEF OthersStay, Tasks
  <2>2. pc'[c] \notin FilePoints
    BY <1>1, ReturnType, CallerType DEF Rename, FilePoints, SavePoints
  <2>3. \A d \in Clients : pc'[d] \notin Late
    BY <1>4, <2>1, <2>2 DEF DurableInv, Late, FilePoints
  <2>4. \A d \in Clients : pc'[d] \in {"trunc", "data"} => buf'[d] = mem'
    BY <1>2, <1>4, <2>1, <2>2 DEF DurableInv, FilePoints, SavePoints
  <2>5. ASSUME \A d \in Clients : ~Debtor(d)' PROVE disk' = mem'
    <3>1. \A d \in Clients : pc[d] # "data"
      BY <2>1, <2>5 DEF Debtor, SavePoints, Rename
    <3> QED
      BY <1>2, <1>4, <3>1 DEF DurableInv
  <2> QED
    BY <1>2, <2>3, <2>4, <2>5 DEF DurableInv, Late
<1> QED
  BY <1>3, <1>4

\* A save that fails leaves a change that was not saved, and the memory to the
\* other saves if there are any.
LEMMA DurableSaveFails ==
    ASSUME IndInv, LockDiscipline, DurableInv, NEW c \in Clients, OthersStay(c),
           SaveFails(c)
    PROVE  DurableInv'
<1>1. c \in Tasks /\ TypeOK /\ ClientPlaced(c)
  BY DEF Tasks, IndInv, Placed
<1>2. unsaved' # "no" /\ (unsaved = "stray" => unsaved' = "stray")
      /\ (pc[c] = "data" => unsaved' = "stray")
  BY DEF SaveFails, Unsaved
<1>3. CASE unsaved' = "stray"
  BY <1>3 DEF DurableInv
<1>4. CASE unsaved' # "stray"
  <2>1. unsaved # "stray" /\ pc[c] \in {"trunc", "rename"}
    BY <1>2, <1>4 DEF SaveFails, SavePoints
  <2>2. \A d \in Clients \ {c} : pc'[d] = pc[d] /\ buf'[d] = buf[d] /\ fd'[d] = fd[d]
    BY <1>1 DEF OthersStay, SaveFails, TypeOK, Tasks
  <2>3. pc'[c] \notin FilePoints
    <3>1. CASE Go(c, "rollback")
      BY <1>1, <3>1 DEF Go, TypeOK, FilePoints, SavePoints
    <3>2. CASE Return(c)
      BY <1>1, <3>2, ReturnType, CallerType DEF FilePoints, SavePoints
    <3> QED
      BY <3>1, <3>2 DEF SaveFails
  <2>4. \A d \in Clients : pc'[d] \notin Late
    BY <2>1, <2>2, <2>3 DEF DurableInv, Late, FilePoints
  <2>5. mem' = mem \/ \A d \in Clients \ {c} : pc[d] \notin SavePoints
    <3>1. CASE ByMount(c)
      BY <3>1 DEF SaveFails, ByMount
    <3>2. CASE ~ByMount(c)
      <4>1. KeepsWriteGuard(c)
        BY <3>2 DEF SaveFails, KeepsWriteGuard, Saving
      <4> QED
        BY <4>1, SaverAlone
    <3> QED
      BY <3>1, <3>2
  <2>6. \A d \in Clients : pc'[d] \in {"trunc", "data"} => buf'[d] = mem'
    BY <2>1, <2>2, <2>3, <2>5 DEF DurableInv, FilePoints, SavePoints
  <2>7. tmp' = NoFile \/ \E d \in Clients \ {c} : tmp' = tmp /\ pc[d] \in {"data", "rename"}
    BY <2>1 DEF SaveFails, LeftBy, DurableInv
  <2>8. tmp' # NoFile => \E d \in Clients : pc'[d] \in {"data", "rename"}
    BY <2>2, <2>7
  <2>9. \/ tmp' \in {NoFile, mem'}
        \/ tmp' = Torn /\ \E d \in Clients : pc'[d] = "data" /\ fd'[d] = "tmp"
    <3>1. CASE tmp' = NoFile
      BY <3>1
    <3>2. CASE tmp' # NoFile
      <4>1. tmp' = tmp /\ mem' = mem
        BY <2>5, <2>7, <3>2 DEF SavePoints
      <4>2. CASE tmp = mem
        BY <4>1, <4>2
      <4>3. CASE tmp = Torn /\ \E d \in Clients : pc[d] = "data" /\ fd[d] = "tmp"
        BY <2>1, <2>2, <4>1, <4>3
      <4> QED
        BY <2>1, <3>2, <4>1, <4>2, <4>3 DEF DurableInv
    <3> QED
      BY <3>1, <3>2
  <2> QED
    BY <1>2, <2>4, <2>6, <2>8, <2>9 DEF DurableInv, Late
<1> QED
  BY <1>3, <1>4

\* A step of a request.
LEMMA DurableClient ==
    ASSUME IndInv, LockDiscipline, DurableInv, NEW c \in Clients,
           \/ \E op \in Requests, s \in Shares : Begin(c, op, s)
           \/ ClientStep(c) \/ TimeOut(c) \/ Attempt(c)
    PROVE  DurableInv'
<1>1. OthersStay(c)
  BY ClientStays
<1>2. CASE LateRename(c)
  BY <1>2 DEF LateRename, DurableInv
<1> QED
  BY <1>1, <1>2, DurableRequest, DurableTimeOut, DurableErase, DurableBeginSave,
     DurableOpenTmp, DurableWriteData, DurableRename, DurableSaveFails DEF ClientStep

\* The monitor sets statuses only, under the write guard.
LEMMA DurableMonitor ==
    ASSUME IndInv, LockDiscipline, DurableInv, Attempt(Monitor) \/ MonitorStep
    PROVE  DurableInv'
<1>1. OthersStay(Monitor) /\ TypeOK /\ MonitorPlaced
  BY MonitorAttemptInd, MonitorStepInd DEF IndInv, Placed
<1>2. \A c \in Clients : pc'[c] = pc[c] /\ (Debtor(c)' <=> Debtor(c))
  BY <1>1, ConstantsDistinct DEF OthersStay, Tasks, Debtor
<1>3. UNCHANGED <<disk, tmp, buf, fd, unsaved>>
  BY DEF Attempt, PreUnmount, BreakerOpen, MountSucceeds, MountFails, MarkActive, fileVars,
     MonitorStep, AutoMountSet, HealthSet, ReconnectSet, Snapshot, AutoMount, Healthy,
     Unhealthy, SkipRedial, Redial, Take, EndOfRound, MarkFailed, MarkReconnecting,
     MarkError
<1>4. CASE MarkActive(Monitor) \/ MarkFailed \/ MarkReconnecting \/ MarkError
  <2>1. Share(Monitor) \in Shares /\ WriteSection(Monitor)
    BY <1>1, <1>4
    DEF MonitorPlaced, MarkActive, MarkFailed, MarkReconnecting, MarkError
  <2>2. \E st \in Statuses : SetStatus(Share(Monitor), st)
    BY <1>4 DEF MarkActive, MarkFailed, MarkReconnecting, MarkError, Statuses
  <2>3. Intent(mem') = Intent(mem)
    BY <1>1, <2>1, <2>2, IntentStatus
  <2> QED
    BY <1>2, <1>3, <2>1, <2>3, WriterAlone, DurableFrame DEF KeepsRecord
<1>5. CASE mem' = mem
  BY <1>2, <1>3, <1>5, DurableFrame DEF KeepsRecord
<1> QED
  BY <1>4, <1>5
  DEF Attempt, PreUnmount, BreakerOpen, MountSucceeds, MountFails, MonitorStep,
      AutoMountSet, HealthSet, ReconnectSet, Snapshot, AutoMount, Healthy, Unhealthy,
      SkipRedial, Redial, Take, EndOfRound

\* A new process: nothing is under way, and the memory is what the file holds.
LEMMA DurableBoot ==
    ASSUME Boot
    PROVE  DurableInv'
<1>1. \A c \in Clients : pc'[c] = "idle"
  BY ConstantsDistinct DEF Boot, Fresh, Tasks
<1>2. mem' = Loaded /\ disk' = disk /\ tmp' = NoFile
  BY DEF Boot
<1> QED
  BY <1>1, <1>2, IntentLoaded DEF DurableInv

\* Every step keeps what is durable.
LEMMA DurableNext ==
    ASSUME IndInv, LockDiscipline, DurableInv, [Next]_vars
    PROVE  DurableInv'
<1>1. ASSUME NEW c \in Clients,
             \/ \E op \in Requests, s \in Shares : Begin(c, op, s)
             \/ ClientStep(c) \/ TimeOut(c) \/ Attempt(c)
      PROVE  DurableInv'
  BY <1>1, DurableClient
<1>2. CASE Attempt(Monitor) \/ MonitorStep
  BY <1>2, DurableMonitor
<1>3. CASE \/ \E t \in Tasks : AwaitLock(t)
           \/ Signal \/ Cleanup \/ \E s \in Shares : CloseShare(s)
           \/ UNCHANGED vars
  <2>1. UNCHANGED <<mem, disk, tmp, buf, fd, unsaved>>
    BY <1>3 DEF AwaitLock, Signal, Cleanup, CloseShare, vars, fileVars
  <2>2. \A c \in Clients : pc'[c] = pc[c] /\ (Debtor(c)' <=> Debtor(c))
    BY <1>3, ConstantsDistinct
    DEF AwaitLock, Signal, Cleanup, CloseShare, Go, vars, taskVars, IndInv, TypeOK, Tasks,
        Debtor
  <2> QED
    BY <2>1, <2>2, DurableFrame DEF KeepsRecord
<1>4. CASE Exit \/ Crash
  BY <1>4, DurableBoot DEF Exit, Crash
<1> QED
  BY <1>1, <1>2, <1>3, <1>4 DEF Next, MainStep

\* Whatever number of requests came, in whatever order they saved, failed, were
\* rolled back or dropped, and however often the daemon was restarted: when none is
\* under way and no change failed to be saved, the file holds the configuration the
\* user asked for, and a crash loses nothing.
THEOREM DurableIntentCorrect == Spec => []DurableIntent
<1>1. ASSUME Init PROVE DurableInv
  <2>1. \A c \in Clients : pc[c] = "idle"
    BY <1>1, ConstantsDistinct DEF Init, Fresh, Tasks
  <2> QED
    BY <1>1, <2>1 DEF Init, DurableInv
<1>2. IndInv /\ LockDiscipline /\ DurableInv /\ [Next]_vars => DurableInv'
  BY DurableNext
<1>3. DurableInv => DurableIntent
  BY DEF DurableInv, DurableIntent, Debtor, SavePoints
<1>4. Spec => []IndInv
  BY TypeCorrect DEF IndInv
<1> QED
  BY <1>1, <1>2, <1>3, <1>4, LockCorrect, PTL DEF Spec

-----------------------------------------------------------------------------
(* The file implements ConfigStore                                          *)

Single == \A c, d \in Clients : c = d

\* One save at a time: there is one connection, or no save is made under a read
\* guard and none outlives its request.
OneSaver == Single \/ (~SlowDisk /\ Requests \cap {"mount", "mountDisabled"} = {})

\* What the save of c has in hand is what the user asked for so far; only statuses
\* may have changed under a write that outlived its request.
SaveInHand(c) ==
    /\ pc[c] \in {"trunc", "lateTrunc", "data", "lateData"} =>
          Intent(buf[c]) = Intent(mem)
    /\ pc[c] \in {"data", "lateData"} => fd[c] = "tmp"
    /\ pc[c] \in {"rename", "lateRename"} => tmp \in Content /\ Intent(tmp) = Intent(mem)

AtFile(c) == pc[c] \in FilePoints

\* The refinement needs that no two saves share the temporary file, and what the
\* one save under way is about to make of the file.
StoreInv ==
    /\ disk # Torn
    /\ \A c \in Clients : SaveInHand(c)
    /\ \A c, d \in Clients : AtFile(c) /\ AtFile(d) => c = d
    /\ Single \/ \A c \in Clients : ~ByMount(c) /\ pc[c] \notin Late

\* Who is granted the write guard is the only one to save.
LEMMA StoreAlone ==
    ASSUME LockDiscipline, StoreInv, NEW c \in Clients, NEW d \in Clients, d # c,
           WriteSection(c) \/ HoldWrite(c)
    PROVE  ~AtFile(d)
  BY WriterAlone DEF StoreInv, AtFile, FilePoints, Late, Single

\* Where several clients may save, none of their requests ever becomes a mount, and
\* none of their writes is left behind.
LEMMA NoMountBegins ==
    ASSUME IndInv, OneSaver, ~Single, StoreInv, NEW c \in Clients,
           \/ \E op \in Requests, s \in Shares : Begin(c, op, s)
           \/ ClientStep(c) \/ TimeOut(c) \/ Attempt(c)
    PROVE  ~ByMount(c)' /\ pc'[c] \notin Late
<1>1. c \in Tasks /\ TypeOK /\ ClientPlaced(c) /\ job[c] \in Job
  BY DEF Tasks, IndInv, Placed, TypeOK
<1>2. ~ByMount(c) /\ pc[c] \notin Late
  BY DEF StoreInv
<1>3. ASSUME Return(c) PROVE ~ByMount(c)' /\ pc'[c] \notin Late
  BY <1>1, <1>3, ReturnOp, ReturnType, CallerType DEF ByMount, Late
<1>4. ASSUME NEW p \in Points \ Late, Go(c, p), job'[c] = job[c]
      PROVE  ~ByMount(c)' /\ pc'[c] \notin Late
  BY <1>1, <1>2, <1>4, GoType DEF ByMount
<1>5. CASE \E op \in Requests, s \in Shares : Begin(c, op, s)
  <2>1. PICK op \in Requests, s \in Shares : Begin(c, op, s)
    BY <1>5
  <2>2. op \in Ops /\ op \notin {"mount", "mountDisabled"}
    BY <2>1, ConstantsInRange DEF OneSaver, Ops
  <2>3. job'[c].op = op
    BY <1>1, <2>1, <2>2, NewJobType DEF Begin, TypeOK
  <2>4. pc'[c] \in {"exists", "toggle", "lookup"}
    BY <1>1, <2>1 DEF Begin, Go, TypeOK
  <2> QED
    BY <2>2, <2>3, <2>4 DEF ByMount, Late
<1>6. CASE MountExists(c) \/ AcquirePermit(c) \/ Add(c)
  BY <1>1, <1>2, <1>6 DEF MountExists, AcquirePermit, Add, ClientPlaced, ByMount
<1>7. CASE Lookup(c)
  <2>1. CASE job' = [job EXCEPT ![c].op = "removeUnmount"] /\ pc' = pc
    BY <1>1, <1>2, <2>1 DEF TypeOK, Job, ByMount
  <2>2. CASE job' = job /\ (Go(c, "erase") \/ Go(c, "mountCmd") \/ Go(c, "unmountCmd"))
    BY <1>4, <2>2 DEF Points, WritePoints, Late
  <2> QED
    BY <1>3, <1>7, <2>1, <2>2 DEF Lookup
<1>8. CASE UnmountSucceeds(c) \/ UnmountFails(c)
  BY <1>3, <1>4, <1>8 DEF UnmountSucceeds, UnmountFails, Points, WritePoints, Late
<1>9. CASE SetDisabled(c) \/ Toggle(c)
  <2>1. CASE Return(c)
    BY <1>3, <2>1
  <2>2. CASE Go(c, "saveWrite") /\ job' = [job EXCEPT ![c].prev = mem[Share(c)]]
    <3>1. job'[c].op = job[c].op /\ pc'[c] = "saveWrite"
      BY <1>1, <2>2 DEF Go, TypeOK, Job
    <3> QED
      BY <1>2, <3>1 DEF ByMount, Late
  <2> QED
    BY <1>3, <1>9, <2>1, <2>2 DEF SetDisabled, Toggle
<1>10. CASE Erase(c)
  BY <1>3, <1>4, <1>10 DEF Erase, Points, SavePoints, Late
<1>11. CASE BeginSave(c)
  BY <1>4, <1>11 DEF BeginSave, Points, SavePoints, Late
<1>12. CASE OpenTmp(c) \/ WriteData(c)
  BY <1>2, <1>3, <1>4, <1>12 DEF OpenTmp, WriteData, Points, SavePoints, Late
<1>13. CASE Rename(c) \/ LateRename(c) \/ LateCommand(c)
  BY <1>3, <1>13 DEF Rename, LateRename, LateCommand
<1>14. CASE SaveFails(c)
  BY <1>2, <1>3, <1>14 DEF SaveFails, ByMount
<1>15. CASE TimeOut(c)
  <2>1. pc[c] \notin SavePoints
    BY <1>15 DEF TimeOut, OneSaver
  <2>2. LateOf(pc[c]) \in {"lateUmount", "lateMount", "idle"}
    BY <2>1 DEF LateOf, SavePoints
  <2>3. pc'[c] \notin Late
    BY <1>1, <1>15, <2>2 DEF TimeOut, Go, TypeOK, Late
  <2>4. job'[c].op = "none"
    BY <1>1, <1>15, NoJobType DEF TimeOut, TypeOK, Job
  <2> QED
    BY <2>3, <2>4 DEF ByMount
<1>16. CASE Attempt(c)
  <2>1. CASE PreUnmount(c)
    BY <1>1, <1>2, <2>1 DEF PreUnmount, ClientPlaced, ByMount
  <2>2. CASE BreakerOpen(c) \/ MountFails(c)
    BY <1>3, <1>4, <2>2 DEF BreakerOpen, MountFails, MountFailed, Points, WritePoints, Late
  <2>3. CASE MountSucceeds(c) \/ MarkActive(c)
    BY <1>3, <1>4, <2>3 DEF MountSucceeds, MarkActive, Points, WritePoints, Late
  <2> QED
    BY <1>16, <2>1, <2>2, <2>3 DEF Attempt
<1> QED
  BY <1>5, <1>6, <1>7, <1>8, <1>9, <1>10, <1>11, <1>12, <1>13, <1>14, <1>15, <1>16
  DEF ClientStep

\* A step of the only client that is at the file, or comes there.
LEMMA StoreOwn ==
    ASSUME IndInv, OneSaver, StoreInv, NEW c \in Clients, OthersStay(c),
           \/ \E op \in Requests, s \in Shares : Begin(c, op, s)
           \/ ClientStep(c) \/ TimeOut(c) \/ Attempt(c),
           disk' # Torn, \A d \in Clients \ {c} : ~AtFile(d), SaveInHand(c)'
    PROVE  StoreInv'
<1>1. \A d \in Clients \ {c} : pc'[d] = pc[d] /\ job'[d] = job[d]
  BY DEF OthersStay, Tasks
<1>2. \A d \in Clients \ {c} : ~AtFile(d)' /\ SaveInHand(d)'
  BY <1>1 DEF AtFile, SaveInHand, FilePoints, SavePoints
<1>3. Single \/ \A d \in Clients : ~ByMount(d)' /\ pc'[d] \notin Late
  BY <1>1, NoMountBegins DEF StoreInv, ByMount
<1> QED
  BY <1>2, <1>3 DEF StoreInv

\* A step of a request that leaves the files alone, and what the user asked for
\* unless it has the write guard.
LEMMA StoreQuiet ==
    ASSUME IndInv, LockDiscipline, OneSaver, StoreInv, NEW c \in Clients, OthersStay(c),
           \/ \E op \in Requests, s \in Shares : Begin(c, op, s)
           \/ ClientStep(c) \/ TimeOut(c) \/ Attempt(c),
           UNCHANGED <<disk, tmp, buf, fd>>, ~AtFile(c)',
           Intent(mem') = Intent(mem) \/ WriteSection(c)
    PROVE  StoreInv'
<1>1. \A d \in Clients \ {c} : pc'[d] = pc[d] /\ job'[d] = job[d]
  BY DEF OthersStay, Tasks
<1>2. SaveInHand(c)'
  BY DEF AtFile, SaveInHand, FilePoints, SavePoints
<1>3. CASE WriteSection(c)
  <2>1. disk' # Torn
    BY DEF StoreInv
  <2> QED
    BY <1>2, <1>3, <2>1, StoreAlone, StoreOwn
<1>4. CASE Intent(mem') = Intent(mem)
  <2>1. \A d \in Clients \ {c} : SaveInHand(d)' /\ (AtFile(d)' <=> AtFile(d))
    BY <1>1, <1>4 DEF StoreInv, SaveInHand, AtFile
  <2>2. Single \/ \A d \in Clients : ~ByMount(d)' /\ pc'[d] \notin Late
    BY <1>1, NoMountBegins DEF StoreInv, ByMount
  <2> QED
    BY <1>2, <2>1, <2>2 DEF StoreInv
<1> QED
  BY <1>3, <1>4

\* The steps of a request before and after its save.
LEMMA StoreRequest ==
    ASSUME IndInv, LockDiscipline, OneSaver, StoreInv, NEW c \in Clients, OthersStay(c),
           \/ \E op \in Requests, s \in Shares : Begin(c, op, s)
           \/ MountExists(c) \/ AcquirePermit(c) \/ Add(c) \/ Lookup(c)
           \/ UnmountSucceeds(c) \/ UnmountFails(c) \/ SetDisabled(c) \/ Toggle(c)
           \/ LateCommand(c) \/ Attempt(c)
    PROVE  StoreInv' /\ disk' = disk /\ boots' = boots
<1>1. /\ c \in Tasks /\ TypeOK /\ ClientPlaced(c) /\ job[c] \in Job
  BY DEF Tasks, IndInv, Placed, TypeOK
<1>2. UNCHANGED <<disk, tmp, buf, fd, boots>>
  BY DEF Begin, MountExists, AcquirePermit, Lookup, LateCommand, UnmountSucceeds,
     UnmountFails, Attempt, PreUnmount, BreakerOpen, MountSucceeds, MountFails, MarkActive,
     Add, SetDisabled, Toggle, fileVars
<1>3. mem' = mem \/ WriteSection(c)
  BY DEF Begin, MountExists, AcquirePermit, Lookup, LateCommand, UnmountSucceeds,
     UnmountFails, Attempt, PreUnmount, BreakerOpen, MountSucceeds, MountFails, MarkActive,
     Add, SetDisabled, Toggle
<1>4. ~AtFile(c)'
  <2>1. CASE Return(c)
    BY <1>1, <2>1, ReturnType, CallerType DEF AtFile, FilePoints, SavePoints
  <2>2. CASE \E p \in {"exists", "toggle", "lookup", "permit", "add", "preUnmount",
                       "erase", "mountCmd", "unmountCmd", "setDisabled", "saveRead",
                       "saveWrite", "markActive", "markError"} : Go(c, p)
    BY <1>1, <2>2 DEF Go, TypeOK, AtFile, FilePoints, SavePoints
  <2>3. CASE Lookup(c) /\ pc' = pc
    BY <2>3 DEF Lookup, AtFile, FilePoints, SavePoints
  <2>4. CASE Attempt(c)
    BY <2>1, <2>2, <2>4
    DEF Attempt, PreUnmount, BreakerOpen, MountSucceeds, MountFails, MountFailed, MarkActive
  <2>5. CASE \/ \E op \in Requests, s \in Shares : Begin(c, op, s)
             \/ MountExists(c) \/ AcquirePermit(c) \/ Lookup(c) \/ LateCommand(c)
    BY <2>1, <2>2, <2>3, <2>5 DEF Begin, MountExists, AcquirePermit, Lookup, LateCommand
  <2>6. CASE UnmountSucceeds(c) \/ UnmountFails(c)
    BY <2>1, <2>2, <2>6 DEF UnmountSucceeds, UnmountFails
  <2>7. CASE Add(c) \/ SetDisabled(c) \/ Toggle(c)
    BY <2>1, <2>2, <2>7 DEF Add, SetDisabled, Toggle
  <2> QED
    BY <2>4, <2>5, <2>6, <2>7
<1> QED
  BY <1>2, <1>3, <1>4, StoreQuiet DEF ClientStep

\* The steps of a save, each with the step of ConfigStore it is: only the rename
\* stores anything, and it stores what the user asked for.
LEMMA StoreSave ==
    ASSUME IndInv, LockDiscipline, OneSaver, StoreInv, NEW c \in Clients, OthersStay(c),
           Erase(c) \/ BeginSave(c) \/ OpenTmp(c) \/ WriteData(c) \/ Rename(c)
           \/ SaveFails(c) \/ LateRename(c) \/ TimeOut(c)
    PROVE  /\ StoreInv' /\ boots' = boots
           /\ \/ disk' = disk
              \/ Intent(disk') = Intent(mem) /\ mem' = mem
<1>1. /\ c \in Tasks /\ TypeOK /\ ClientPlaced(c) /\ job[c] \in Job /\ disk # Torn
      /\ SaveInHand(c)
  BY DEF Tasks, IndInv, Placed, TypeOK, StoreInv
<1>2. boots' = boots
  BY DEF Erase, BeginSave, OpenTmp, WriteData, Rename, SaveFails, LateRename, TimeOut
<1>3. AtFile(c) => \A d \in Clients \ {c} : ~AtFile(d)
  BY DEF StoreInv
<1>4. ASSUME Return(c) PROVE ~AtFile(c)' /\ SaveInHand(c)'
  BY <1>1, <1>4, ReturnType, CallerType DEF AtFile, SaveInHand, FilePoints, SavePoints
<1>5. CASE Erase(c)
  <2>1. CASE Go(c, "trunc") /\ buf' = [buf EXCEPT ![c] = mem'] /\ HoldWrite(c)
    <3>1. pc'[c] = "trunc" /\ buf'[c] = mem'
      BY <1>1, <2>1 DEF Go, TypeOK
    <3>2. SaveInHand(c)'
      BY <3>1 DEF SaveInHand
    <3> QED
      BY <1>1, <1>2, <1>5, <2>1, <3>2, StoreAlone, StoreOwn DEF Erase, ClientStep
  <2>2. CASE WriteSection(c) /\ buf' = buf /\ ~AtFile(c)'
    BY <1>2, <1>5, <2>2, StoreQuiet DEF Erase, ClientStep
  <2>3. Go(c, "unmountCmd") => ~AtFile(c)'
    BY <1>1 DEF Go, TypeOK, AtFile, FilePoints, SavePoints
  <2> QED
    BY <1>4, <1>5, <2>1, <2>2, <2>3 DEF Erase
<1>6. CASE BeginSave(c)
  <2>1. pc'[c] = "trunc" /\ buf'[c] = mem /\ mem' = mem /\ disk' = disk
    BY <1>1, <1>6 DEF BeginSave, Go, TypeOK
  <2>2. SaveInHand(c)'
    BY <2>1 DEF SaveInHand
  <2>3. \A d \in Clients \ {c} : ~AtFile(d)
    <3>1. CASE Single
      BY <3>1 DEF Single
    <3>2. CASE ~Single
      <4>1. HoldWrite(c)
        BY <1>1, <1>6, <3>2 DEF BeginSave, ClientPlaced, StoreInv
      <4> QED
        BY <4>1, StoreAlone
    <3> QED
      BY <3>1, <3>2
  <2> QED
    BY <1>1, <1>2, <1>6, <2>1, <2>2, <2>3, StoreOwn DEF ClientStep
<1>7. CASE OpenTmp(c)
  <2>1. pc'[c] \in {"data", "lateData"} /\ fd'[c] = "tmp"
    BY <1>1, <1>7 DEF OpenTmp, Go, TypeOK
  <2>2. Intent(buf'[c]) = Intent(mem') /\ disk' = disk /\ AtFile(c)
    BY <1>1, <1>7 DEF OpenTmp, SaveInHand, AtFile, FilePoints, SavePoints
  <2>3. SaveInHand(c)'
    BY <2>1, <2>2 DEF SaveInHand
  <2> QED
    BY <1>1, <1>2, <1>3, <1>7, <2>2, <2>3, StoreOwn DEF ClientStep
<1>8. CASE WriteData(c)
  <2>1. fd[c] = "tmp" /\ disk' = disk /\ mem' = mem /\ AtFile(c)
        /\ Intent(buf[c]) = Intent(mem) /\ buf[c] \in Content
    BY <1>1, <1>8 DEF WriteData, SaveInHand, ClientPlaced, AtFile, FilePoints, SavePoints
  <2>2. CASE pc[c] = "data"
    <3>1. pc'[c] = "rename" /\ tmp' = buf[c]
      BY <1>1, <1>8, <2>1, <2>2 DEF WriteData, Go, TypeOK
    <3>2. SaveInHand(c)'
      BY <2>1, <3>1 DEF SaveInHand
    <3> QED
      BY <1>1, <1>2, <1>3, <1>8, <2>1, <3>2, StoreOwn DEF ClientStep
  <2>3. CASE pc[c] # "data"
    BY <1>1, <1>2, <1>3, <1>4, <1>8, <2>1, <2>3, StoreOwn DEF WriteData, ClientStep
  <2> QED
    BY <2>2, <2>3
<1>9. CASE Rename(c) \/ LateRename(c)
  <2>1. Return(c) /\ AtFile(c) /\ mem' = mem /\ tmp \in Content /\ Intent(tmp) = Intent(mem)
    BY <1>1, <1>9 DEF Rename, LateRename, SaveInHand, AtFile, FilePoints, SavePoints
  <2>2. disk' \in {disk, tmp}
    BY <1>9 DEF Rename, LateRename, RenameTmp
  <2>3. disk' # Torn
    BY <1>1, <2>1, <2>2, ConstantsDistinct
  <2> QED
    BY <1>2, <1>3, <1>4, <1>9, <2>1, <2>2, <2>3, StoreOwn DEF ClientStep
<1>10. CASE SaveFails(c)
  <2>1. AtFile(c) /\ disk' = disk
    BY <1>10 DEF SaveFails, AtFile, FilePoints
  <2>2. SaveInHand(c)'
    <3>1. CASE Go(c, "rollback")
      BY <1>1, <3>1 DEF Go, TypeOK, SaveInHand
    <3> QED
      BY <1>4, <1>10, <3>1 DEF SaveFails
  <2> QED
    BY <1>1, <1>2, <1>3, <1>10, <2>1, <2>2, StoreOwn DEF ClientStep
<1>11. CASE TimeOut(c)
  <2>1. UNCHANGED <<mem, disk, tmp, buf, fd>> /\ pc'[c] = LateOf(pc[c])
    BY <1>1, <1>11 DEF TimeOut, Go, TypeOK, fileVars
  <2>2. CASE pc[c] \in SavePoints
    <3>1. AtFile(c)
      BY <2>2 DEF AtFile, FilePoints
    <3>2. SaveInHand(c)'
      BY <1>1, <2>1, <2>2 DEF LateOf, SaveInHand, SavePoints
    <3> QED
      BY <1>1, <1>2, <1>3, <1>11, <2>1, <3>1, <3>2, StoreOwn
  <2>3. CASE pc[c] \notin SavePoints
    <3>1. LateOf(pc[c]) \in {"lateUmount", "lateMount", "idle"}
      BY <2>3 DEF LateOf, SavePoints
    <3>2. ~AtFile(c)'
      BY <2>1, <3>1 DEF AtFile, FilePoints, SavePoints
    <3> QED
      BY <1>2, <1>11, <2>1, <3>2, StoreQuiet
  <2> QED
    BY <2>2, <2>3
<1> QED
  BY <1>5, <1>6, <1>7, <1>8, <1>9, <1>10, <1>11

\* Steps of other tasks, which have no file open.
LEMMA StoreElsewhere ==
    ASSUME StoreInv, UNCHANGED <<disk, tmp, buf, fd>>, Intent(mem') = Intent(mem),
           \A c \in Clients : pc'[c] = pc[c] /\ job'[c] = job[c]
    PROVE  StoreInv'
<1>1. \A c \in Clients : SaveInHand(c)' /\ (AtFile(c)' <=> AtFile(c))
  BY DEF StoreInv, SaveInHand, AtFile
<1> QED
  BY <1>1 DEF StoreInv, ByMount

\* The monitor changes nothing of what the user asked for.
LEMMA StoreMonitor ==
    ASSUME IndInv, StoreInv, Attempt(Monitor) \/ MonitorStep
    PROVE  StoreInv' /\ disk' = disk /\ boots' = boots
<1>1. OthersStay(Monitor) /\ TypeOK /\ MonitorPlaced
  BY MonitorAttemptInd, MonitorStepInd DEF IndInv, Placed
<1>2. \A c \in Clients : pc'[c] = pc[c] /\ job'[c] = job[c]
  BY <1>1, ConstantsDistinct DEF OthersStay, Tasks
<1>3. UNCHANGED <<disk, tmp, buf, fd, boots>>
  BY DEF Attempt, PreUnmount, BreakerOpen, MountSucceeds, MountFails, MarkActive, fileVars,
     MonitorStep, AutoMountSet, HealthSet, ReconnectSet, Snapshot, AutoMount, Healthy,
     Unhealthy, SkipRedial, Redial, Take, EndOfRound, MarkFailed, MarkReconnecting,
     MarkError
<1>4. CASE MarkActive(Monitor) \/ MarkFailed \/ MarkReconnecting \/ MarkError
  <2>1. Share(Monitor) \in Shares
    BY <1>1, <1>4
    DEF MonitorPlaced, MarkActive, MarkFailed, MarkReconnecting, MarkError
  <2>2. \E st \in Statuses : SetStatus(Share(Monitor), st)
    BY <1>4 DEF MarkActive, MarkFailed, MarkReconnecting, MarkError, Statuses
  <2>3. Intent(mem') = Intent(mem)
    BY <1>1, <2>1, <2>2, IntentStatus
  <2> QED
    BY <1>2, <1>3, <2>3, StoreElsewhere
<1>5. CASE mem' = mem
  BY <1>2, <1>3, <1>5, StoreElsewhere
<1> QED
  BY <1>4, <1>5
  DEF Attempt, PreUnmount, BreakerOpen, MountSucceeds, MountFails, MonitorStep,
      AutoMountSet, HealthSet, ReconnectSet, Snapshot, AutoMount, Healthy, Unhealthy,
      SkipRedial, Redial, Take, EndOfRound

\* A new process starts from what is stored.
LEMMA StoreBoot ==
    ASSUME StoreInv, Boot
    PROVE  /\ StoreInv' /\ disk' = disk /\ boots' = boots + 1
           /\ Intent(mem') = Intent(disk)
<1>1. \A c \in Clients : pc'[c] = "idle" /\ ~ByMount(c)'
  BY ConstantsDistinct, NoJobType DEF Boot, Fresh, Tasks, ByMount
<1>2. mem' = Loaded /\ disk' = disk /\ boots' = boots + 1
  BY DEF Boot
<1>3. \A c \in Clients : SaveInHand(c)' /\ ~AtFile(c)' /\ pc'[c] \notin Late
  BY <1>1 DEF SaveInHand, AtFile, FilePoints, SavePoints, Late
<1> QED
  BY <1>1, <1>2, <1>3, IntentLoaded DEF StoreInv

\* Every step keeps the invariant and either leaves the file, stores what the user
\* asked for, or starts from the file.
LEMMA StoreNext ==
    ASSUME IndInv, LockDiscipline, OneSaver, StoreInv, [Next]_vars
    PROVE  /\ StoreInv'
           /\ \/ disk' = disk /\ boots' = boots
              \/ Intent(disk') = Intent(mem) /\ mem' = mem /\ boots' = boots
              \/ Intent(mem') = Intent(disk) /\ disk' = disk /\ boots' = boots + 1
<1>1. ASSUME NEW c \in Clients,
             \/ \E op \in Requests, s \in Shares : Begin(c, op, s)
             \/ ClientStep(c) \/ TimeOut(c) \/ Attempt(c)
      PROVE  /\ StoreInv' /\ boots' = boots
             /\ disk' = disk \/ (Intent(disk') = Intent(mem) /\ mem' = mem)
  <2>1. OthersStay(c)
    BY <1>1, ClientStays
  <2> QED
    BY <1>1, <2>1, StoreRequest, StoreSave DEF ClientStep
<1>2. CASE Attempt(Monitor) \/ MonitorStep
  BY <1>2, StoreMonitor
<1>3. CASE \/ \E t \in Tasks : AwaitLock(t)
           \/ Signal \/ Cleanup \/ \E s \in Shares : CloseShare(s)
           \/ UNCHANGED vars
  <2>1. UNCHANGED <<mem, disk, tmp, buf, fd, boots, job>>
    BY <1>3 DEF AwaitLock, Signal, Cleanup, CloseShare, vars, fileVars, taskVars
  <2>2. \A c \in Clients : pc'[c] = pc[c]
    BY <1>3, ConstantsDistinct
    DEF AwaitLock, Signal, Cleanup, CloseShare, Go, vars, taskVars, IndInv, TypeOK, Tasks
  <2> QED
    BY <2>1, <2>2, StoreElsewhere
<1>4. CASE Exit \/ Crash
  BY <1>4, StoreBoot DEF Exit, Crash
<1> QED
  BY <1>1, <1>2, <1>3, <1>4 DEF Next, MainStep

\* The invariant of the refinement holds from the start.
LEMMA StoreInvCorrect == ASSUME OneSaver PROVE Spec => []StoreInv
<1>1. ASSUME Init PROVE StoreInv
  <2>1. \A c \in Clients : pc[c] = "idle" /\ ~ByMount(c)
    BY <1>1, ConstantsDistinct, NoJobType DEF Init, Fresh, Tasks, ByMount
  <2>2. disk # Torn
    BY <1>1, ConstantsDistinct DEF Init, Empty, Content
  <2> QED
    BY <2>1, <2>2 DEF StoreInv, SaveInHand, AtFile, FilePoints, SavePoints, Late
<1>2. IndInv /\ LockDiscipline /\ StoreInv /\ [Next]_vars => StoreInv'
  BY StoreNext
<1>3. Spec => []IndInv
  BY TypeCorrect DEF IndInv
<1> QED
  BY <1>1, <1>2, <1>3, LockCorrect, PTL DEF Spec

\* With one save at a time, whatever crashes, fails or is dropped, mounts.toml is
\* only ever replaced by what the user asked for at that moment, and every start
\* brings back exactly what was stored: the daemon implements ConfigStore.
THEOREM StoreImplemented == ASSUME OneSaver PROVE Spec => StoreSpec
<1>1. Init => Store!Init
  BY ConstantsDistinct DEF Init, Store!Init, Intent, Empty, Content
<1>2. ASSUME IndInv, IndInv', LockDiscipline, StoreInv, [Next]_vars
      PROVE  [Store!Next]_<<Intent(mem), Intent(disk), boots>>
  <2>1. Intent(mem') \in [Shares -> Store!States]
    BY DEF Intent, Store!States
  <2>2. CASE disk' = disk /\ boots' = boots
    <3>1. Store!Change
      BY <2>1, <2>2 DEF Store!Change, Intent
    <3> QED
      BY <3>1 DEF Store!Next
  <2>3. CASE Intent(disk') = Intent(mem) /\ mem' = mem /\ boots' = boots
    <3>1. Store!Save
      BY <2>3 DEF Store!Save, Intent
    <3> QED
      BY <3>1 DEF Store!Next
  <2>4. CASE Intent(mem') = Intent(disk) /\ disk' = disk /\ boots' = boots + 1
    <3>1. Store!Start
      BY <2>4 DEF Store!Start, Intent
    <3> QED
      BY <3>1 DEF Store!Next
  <2> QED
    BY <1>2, <2>2, <2>3, <2>4, StoreNext
<1>3. Spec => []IndInv
  BY TypeCorrect DEF IndInv
<1> QED
  BY <1>1, <1>2, <1>3, LockCorrect, StoreInvCorrect, PTL DEF Spec, StoreSpec, Store!Spec

\* With one save at a time the file never loses its content to a save that is under
\* way, as the comment on save_atomic says; two mounts can make it do so.
THEOREM NeverTornAlone == ASSUME OneSaver PROVE Spec => []NeverTorn
<1>1. StoreInv => NeverTorn
  BY DEF StoreInv, NeverTorn
<1> QED
  BY <1>1, StoreInvCorrect, PTL
=============================================================================
