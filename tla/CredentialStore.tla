--------------------------- MODULE CredentialStore ---------------------------
(* CredentialManager and its providers: the environment, the encrypted file and  *)
(* the keyring. Calls of several tasks interleave at every await of the file      *)
(* provider; a task may die between any two of its steps.                         *)
EXTENDS Naturals

CONSTANTS
  CredentialIds,   \* mount ids
  EnvIds,          \* those the environment has a credential for
  CredTasks,       \* concurrent callers
  KeyConfigs,         \* algorithms and iterations of file providers
  MaxStored        \* bound on the calls that change something

ASSUME CredentialAssumption == MaxStored \in Nat

VARIABLES
  inode,           \* what each file on disk holds
  named,           \* credentials.enc and its temporary file: an inode, or 0
  keyring,         \* what the keyring holds
  keyringUp,       \* it can be reached
  call,            \* what each task is doing
  writesMade,      \* such calls so far: the credential one stores is its number
  wanted,          \* what the file should hold had updates run one by one
  mixed            \* two updates of the file have overlapped

CredentialVars == <<inode, named, keyring, keyringUp, call, writesMade, wanted, mixed>>

Nothing == 0
Inodes == 1..(MaxStored + 1)
Empty == [id \in CredentialIds |-> Nothing]
Store(config, map, poor) == [kind |-> "store", by |-> config, map |-> map, poor |-> poor]
TornFile == [kind |-> "torn"]
Legacy == [kind |-> "legacy"]
NotCalling == [at |-> "idle"]

FileSteps == {"load", "open", "write", "rename"}
Updating(t) == call[t].at \in FileSteps

\* load_store and get_credential of the file provider: a missing file is an
\* empty store; a torn one, a legacy one, one whose key was derived with another
\* configuration and one whose salts are poor cannot be read.
FileIs(kind) == named.main # 0 /\ inode[named.main].kind = kind
IsReadable(c) ==
  \/ named.main = 0
  \/ FileIs("store") /\ inode[named.main].by = c /\ ~inode[named.main].poor
Filed == IF named.main = 0 THEN Empty ELSE inode[named.main].map

CredentialInit ==
  /\ \E old \in {TornFile, Legacy} : inode = [i \in Inodes |-> IF i = 1 THEN old ELSE TornFile]
  /\ named = [main |-> IF inode[1] = Legacy THEN 1 ELSE 0, tmp |-> 0]
  /\ keyring = Empty /\ keyringUp = TRUE
  /\ call = [t \in CredTasks |-> NotCalling] /\ writesMade = 0
  /\ wanted = Empty /\ mixed = FALSE

-----------------------------------------------------------------------------
\* store_credential and delete_credential of the manager. The environment
\* refuses both; the file provider is next.
Begin(t, id, op, config) ==
  /\ call[t] = NotCalling /\ writesMade < MaxStored
  /\ writesMade' = writesMade + 1
  /\ call' = [call EXCEPT ![t] =
       [at |-> "load", id |-> id, op |-> op, by |-> config, filed |-> FALSE,
        map |-> Empty, fd |-> 0, value |-> IF op = "store" THEN writesMade' ELSE Nothing]]
  /\ mixed' = (mixed \/ \E u \in CredTasks : Updating(u))
  /\ UNCHANGED <<inode, named, keyring, keyringUp, wanted>>

LoadStore(t) ==
  /\ call[t].at = "load" /\ IsReadable(call[t].by)
  /\ call' = [call EXCEPT ![t].at = "open",
                          ![t].map = [Filed EXCEPT ![call[t].id] = call[t].value]]
  /\ UNCHANGED <<inode, named, keyring, keyringUp, writesMade, wanted, mixed>>

\* save_store opens the one temporary file there is, emptying it, ...
OpenTemporary(t) ==
  /\ call[t].at = "open"
  /\ LET free == {i \in Inodes : i \notin {named.main, named.tmp}
                                 /\ \A u \in CredTasks : Updating(u) => call[u].fd # i}
         fd == IF named.tmp # 0 THEN named.tmp ELSE CHOOSE i \in free : TRUE
     IN /\ inode' = [inode EXCEPT ![fd] = TornFile]
        /\ named' = [named EXCEPT !.tmp = fd]
        /\ call' = [call EXCEPT ![t].at = "write", ![t].fd = fd]
  /\ UNCHANGED <<keyring, keyringUp, writesMade, wanted, mixed>>

\* ... writes through its handle, wherever that file is by now, with salts it
\* draws and does not check, ...
WriteTemporary(t) ==
  /\ call[t].at = "write"
  /\ \E poor \in BOOLEAN :
       inode' = [inode EXCEPT ![call[t].fd] = Store(call[t].by, call[t].map, poor)]
  /\ call' = [call EXCEPT ![t].at = "rename"]
  /\ UNCHANGED <<named, keyring, keyringUp, writesMade, wanted, mixed>>

\* ... and renames what has the name. A store is done then; a delete goes on.
RenameTemporary(t) ==
  /\ call[t].at = "rename" /\ named.tmp # 0
  /\ named' = [main |-> named.tmp, tmp |-> 0]
  /\ wanted' = [wanted EXCEPT ![call[t].id] = call[t].value]
  /\ call' = [call EXCEPT ![t].filed = TRUE,
                          ![t].at = IF call[t].op = "store" THEN "done" ELSE "keyring"]
  /\ UNCHANGED <<inode, keyring, keyringUp, writesMade, mixed>>

\* Any step of the file provider may fail; then the keyring is asked.
FileFails(t) ==
  /\ Updating(t)
  /\ call' = [call EXCEPT ![t].at = "keyring"]
  /\ UNCHANGED <<inode, named, keyring, keyringUp, writesMade, wanted, mixed>>

\* The keyring takes both operations or neither; a delete has succeeded if the
\* file or the keyring took it.
AskKeyring(t) ==
  /\ call[t].at = "keyring"
  /\ keyring' = IF keyringUp THEN [keyring EXCEPT ![call[t].id] = call[t].value]
                ELSE keyring
  /\ call' = [call EXCEPT ![t].at = IF keyringUp \/ call[t].filed THEN "done" ELSE "failed"]
  /\ UNCHANGED <<inode, named, keyringUp, writesMade, wanted, mixed>>

\* A call returns, or its task dies.
EndCall(t) ==
  /\ call[t].at # "idle"
  /\ call' = [call EXCEPT ![t] = NotCalling]
  /\ UNCHANGED <<inode, named, keyring, keyringUp, writesMade, wanted, mixed>>

KeyringChanges ==
  /\ keyringUp' = ~keyringUp
  /\ UNCHANGED <<inode, named, keyring, call, writesMade, wanted, mixed>>

CredentialNext ==
  \/ \E t \in CredTasks, id \in CredentialIds, op \in {"store", "delete"}, c \in KeyConfigs :
       Begin(t, id, op, c)
  \/ \E t \in CredTasks :
       \/ LoadStore(t) \/ OpenTemporary(t) \/ WriteTemporary(t) \/ RenameTemporary(t)
       \/ FileFails(t) \/ AskKeyring(t) \/ EndCall(t)
  \/ KeyringChanges

CredentialSpec == CredentialInit /\ [][CredentialNext]_CredentialVars

-----------------------------------------------------------------------------
\* get_credential of the manager with configuration c: the environment, the file
\* if it can be read, the keyring if it can be reached.
Found(c, id) ==
  IF id \in EnvIds THEN [from |-> "env"]
  ELSE IF IsReadable(c) /\ Filed[id] # Nothing
  THEN [from |-> "file", value |-> Filed[id]]
  ELSE IF keyringUp /\ keyring[id] # Nothing
  THEN [from |-> "keyring", value |-> keyring[id]]
  ELSE [from |-> "none"]

CredentialTypeOK ==
  /\ named.main \in 0..(MaxStored + 1) /\ named.tmp \in 0..(MaxStored + 1)
  /\ keyring \in [CredentialIds -> 0..MaxStored] /\ keyringUp \in BOOLEAN
  /\ \A t \in CredTasks :
       call[t].at \in {"idle", "keyring", "done", "failed"} \cup FileSteps

\* As long as no two updates overlap, the file is never torn and holds exactly
\* what the updates that reached it made of it, whichever step others failed or
\* died at; so does whoever reads it between two steps. A credential stored in
\* the file is then the one its caller finds until another changes it, unless the
\* salts came out poor, or the environment has one, which hides it
\* (file_provider.rs:500-640, mod.rs:203-235).
UpdatesApartStand ==
  ~mixed =>
    /\ ~FileIs("torn")
    /\ ~FileIs("legacy") => Filed = wanted
    /\ \A t \in CredTasks :
         /\ call[t].at = "done" /\ call[t].op = "store" /\ call[t].filed
         /\ call[t].value = wanted[call[t].id] /\ ~inode[named.main].poor
         => LET found == Found(call[t].by, call[t].id)
            IN found.from = "env" \/ (found.from = "file" /\ found.value = call[t].value)
=============================================================================
