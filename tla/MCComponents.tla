---------------------------- MODULE MCComponents ----------------------------
(* The components all of whose properties are of states and steps, for          *)
(* TLC: each initial state chooses one of them, which runs alone.               *)
EXTENDS ConfigMerge,
        ClusterState, InstanceIdentity, ClusterTransport, CommandLine,
        MountCommand, MountNaming, PathSecurity, MountIntegrity,
        CredentialStore, HardwareCredentials, KeyDerivation, SealedStore,
        SecureSocket, Seccomp, RuntimeIntegrity, SecurityDashboard,
        ProcessIsolation, ConfigSecurity, SecureUpdates, ResourceMonitor

VARIABLE part     \* the component that runs

Parts == {"Merge", "State", "Identity", "Transport", "CommandLine",
          "MountCommand", "Naming", "Path", "Integrity", "Credential", "Hsm",
          "Key", "Sealed", "Session", "Frame", "Seccomp", "Round", "Memory",
          "Dashboard", "Isolation", "ConfigSecurity", "Updates", "Resource"}

\* Where a component that does not run stands, if it could begin in several ways.
MergeRests ==
  /\ inputs = [i \in Members |->
                [mounts |-> [m \in MergeMounts |-> Absent], clustered |-> FALSE,
                 sync |-> 0, last |-> 0]]
  /\ merged = NotMerged /\ conflicts = {}
StateRests == StateInit /\ Known = {}
PathRests == /\ fs = [n \in Nodes |-> Missing]
             /\ blocked = {} /\ known = TRUE /\ check = NoCheck
AnyWritten == [by |-> CHOOSE p \in Providers : TRUE,
               content |-> CHOOSE c \in SealedMaps : TRUE,
               salt |-> CHOOSE s \in Salts : TRUE]

MCInit ==
  /\ part \in Parts
  /\ IdentityInit /\ TransportInit /\ CommandLineInit
  /\ MountCommandInit /\ NamingInit /\ IntegrityInit /\ HsmInit
  /\ SessionInit /\ FrameInit /\ RoundInit /\ MemoryInit /\ DashboardInit /\ IsolationInit
  /\ ConfigSecurityInit /\ UpdatesInit
  /\ ResourceInit /\ (part # "Resource" => action = "Warn")
  /\ part # "CommandLine" => apart
  /\ IF part = "State" THEN StateInit ELSE StateRests
  /\ IF part = "Path" THEN PathInit ELSE PathRests
  /\ CredentialInit /\ (part # "Credential" => named["main"] = 0)
  /\ KeyInit /\ (part # "Key" => chosen = <<"Scrypt", "High">>)
  /\ SeccompInit /\ (part # "Seccomp" => machine = "none")
  /\ SealedInit /\ (part # "Sealed" => written = AnyWritten)
  /\ IF part = "Merge" THEN MergeInit ELSE MergeRests

\* Only the chosen component moves; the others stay as they began.
Others(p) ==
  /\ p # "Merge" => UNCHANGED MergeVars
  /\ p # "State" => UNCHANGED StateVars
  /\ p # "Identity" => UNCHANGED IdentityVars
  /\ p # "Transport" => UNCHANGED TransportVars
  /\ p # "CommandLine" => UNCHANGED CommandLineVars
  /\ p # "MountCommand" => UNCHANGED MountCommandVars
  /\ p # "Naming" => UNCHANGED NamingVars
  /\ p # "Path" => UNCHANGED PathVars
  /\ p # "Integrity" => UNCHANGED IntegrityVars
  /\ p # "Credential" => UNCHANGED CredentialVars
  /\ p # "Hsm" => UNCHANGED HsmVars
  /\ p # "Key" => UNCHANGED KeyVars
  /\ p # "Sealed" => UNCHANGED SealedVars
  /\ p # "Session" => UNCHANGED SessionVars
  /\ p # "Frame" => UNCHANGED FrameVars
  /\ p # "Seccomp" => UNCHANGED SeccompVars
  /\ p # "Round" => UNCHANGED RoundVars
  /\ p # "Memory" => UNCHANGED MemoryVars
  /\ p # "Dashboard" => UNCHANGED DashboardVars
  /\ p # "Isolation" => UNCHANGED IsolationVars
  /\ p # "ConfigSecurity" => UNCHANGED ConfigSecurityVars
  /\ p # "Updates" => UNCHANGED UpdatesVars
  /\ p # "Resource" => UNCHANGED ResourceVars
Only(p) == part = p /\ Others(p) /\ UNCHANGED part

MCNext ==
  \/ Only("Merge") /\ MergeNext
  \/ Only("State") /\ StateNext
  \/ Only("Identity") /\ IdentityNext
  \/ Only("Transport") /\ TransportNext
  \/ Only("CommandLine") /\ CommandLineNext
  \/ Only("MountCommand") /\ MountCommandNext
  \/ Only("Naming") /\ NamingNext
  \/ Only("Path") /\ PathNext
  \/ Only("Integrity") /\ IntegrityNext
  \/ Only("Credential") /\ CredentialNext
  \/ Only("Hsm") /\ HsmNext
  \/ Only("Key") /\ KeyNext
  \/ Only("Sealed") /\ SealedNext
  \/ Only("Session") /\ SessionNext
  \/ Only("Frame") /\ FrameNext
  \/ Only("Seccomp") /\ SeccompNext
  \/ Only("Round") /\ RoundNext
  \/ Only("Memory") /\ MemoryNext
  \/ Only("Dashboard") /\ DashboardNext
  \/ Only("Isolation") /\ IsolationNext
  \/ Only("ConfigSecurity") /\ ConfigSecurityNext
  \/ Only("Updates") /\ UpdatesNext
  \/ Only("Resource") /\ ResourceNext

MCVars == <<MergeVars, StateVars, IdentityVars, TransportVars,
            CommandLineVars, MountCommandVars, NamingVars, PathVars,
            IntegrityVars, CredentialVars, HsmVars, KeyVars, SealedVars,
            SessionVars, FrameVars, SeccompVars, RoundVars, MemoryVars,
            DashboardVars, IsolationVars, ConfigSecurityVars, UpdatesVars,
            ResourceVars, part>>

MCSpec == MCInit /\ [][MCNext]_MCVars

\* What a state is told apart by: the component that runs; the others never differ.
Moving ==
  CASE part = "Merge" -> <<part, MergeVars>>
    [] part = "State" -> <<part, StateVars>>
    [] part = "Identity" -> <<part, IdentityVars>>
    [] part = "Transport" -> <<part, TransportVars>>
    [] part = "CommandLine" -> <<part, CommandLineVars>>
    [] part = "MountCommand" -> <<part, MountCommandVars>>
    [] part = "Naming" -> <<part, NamingVars>>
    [] part = "Path" -> <<part, PathVars>>
    [] part = "Integrity" -> <<part, IntegrityVars>>
    [] part = "Credential" -> <<part, CredentialVars>>
    [] part = "Hsm" -> <<part, HsmVars>>
    [] part = "Key" -> <<part, KeyVars>>
    [] part = "Sealed" -> <<part, SealedVars>>
    [] part = "Session" -> <<part, SessionVars>>
    [] part = "Frame" -> <<part, FrameVars>>
    [] part = "Seccomp" -> <<part, SeccompVars>>
    [] part = "Round" -> <<part, RoundVars>>
    [] part = "Memory" -> <<part, MemoryVars>>
    [] part = "Dashboard" -> <<part, DashboardVars>>
    [] part = "Isolation" -> <<part, IsolationVars>>
    [] part = "ConfigSecurity" -> <<part, ConfigSecurityVars>>
    [] part = "Updates" -> <<part, UpdatesVars>>
    [] part = "Resource" -> <<part, ResourceVars>>

\* The type invariant of the one that runs.
ComponentTypes ==
  /\ part = "Merge" => MergeTypeOK
  /\ part = "State" => StateTypeOK
  /\ part = "Identity" => IdentityTypeOK
  /\ part = "Transport" => TransportTypeOK
  /\ part = "CommandLine" => CommandLineTypeOK
  /\ part = "MountCommand" => MountCommandTypeOK
  /\ part = "Naming" => NamingTypeOK
  /\ part = "Path" => PathTypeOK
  /\ part = "Integrity" => IntegrityTypeOK
  /\ part = "Credential" => CredentialTypeOK
  /\ part = "Hsm" => HsmTypeOK
  /\ part = "Key" => KeyTypeOK
  /\ part = "Sealed" => SealedTypeOK
  /\ part = "Session" => SessionTypeOK
  /\ part = "Frame" => FrameTypeOK
  /\ part = "Seccomp" => SeccompTypeOK
  /\ part = "Round" => RoundTypeOK
  /\ part = "Memory" => MemoryTypeOK
  /\ part = "Dashboard" => DashboardTypeOK
  /\ part = "Isolation" => IsolationTypeOK
  /\ part = "ConfigSecurity" => ConfigSecurityTypeOK
  /\ part = "Updates" => UpdatesTypeOK
  /\ part = "Resource" => ResourceTypeOK

\* What a mount request names is what is mounted, and stays what was checked: the
\* options of the command, the ids and directory of the share, the verdict on its
\* path, and the registration of the mount (mount/drivers, path_security.rs).
MountsStand ==
  /\ part = "MountCommand" => CommandStands
  /\ part = "Naming" => NamesAgree
  /\ part = "Path" => VerdictsStand
  /\ part = "Integrity" => MountedIsWatched

\* Credentials stay what was last stored, as strong as asked for, and open to whom
\* wrote them alone, as far as the four say (security/mod.rs, file_provider.rs,
\* hardware_credential_provider.rs, key_derivation.rs, encryption.rs).
SecretsStand ==
  /\ part = "Credential" => UpdatesApartStand
  /\ part = "Hsm" => RotationKeepsLatest
  /\ part = "Key" => StrengthFollowsLevel
  /\ part = "Sealed" => SealHolds

\* What is confined is confined as its profile or configuration says (seccomp.rs,
\* process_isolation.rs).
ConfinementStands ==
  /\ part = "Seccomp" => FiltersStand
  /\ part = "Isolation" => ClonedAreConfined

\* What the watchers report has happened, and adds up (integrity.rs,
\* security_dashboard.rs).
WatchersStand ==
  /\ part = "Round" => ViolationsAreFounded
  /\ part = "Memory" => RecordFollowsRegion
  /\ part = "Dashboard" => DashboardAddsUp
=============================================================================
