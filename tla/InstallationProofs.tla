------------------------- MODULE InstallationProofs -------------------------
(***************************************************************************)
(* Proofs about Installation and FirstAccounts.                            *)
(***************************************************************************)
EXTENDS FirstAccounts, TLAPS

(* Until the cluster is looked at, the password is the one in the file;    *)
(* while the file is filled, it is empty.                                  *)
PasswordIsWritten ==
  /\ at = "fill" => dbPasswordFile = Blank /\ password \in Passwords
  /\ at \in {"cluster", "initdb"} => dbPasswordFile \in Passwords

(* A cluster is made once, only a whole one runs, and a service is         *)
(* registered where there is none.                                         *)
ClusterIsMadeOnce ==
  /\ at = "register" => service = NoPort
  /\ at = "initdb" => cluster \in {"torn", "versioned"}
  /\ cluster = "complete" => clusterPassword \in Passwords
  /\ running => cluster = "complete" /\ service # NoPort

(* What the installer has been told by psql, and what it wrote since.      *)
AnsweredAt == {"database", "env", "port file again", "migrate", "rbac"}

Answered ==
  /\ at \in AnsweredAt =>
       cluster = "complete" /\ password = clusterPassword /\ service = port /\ port \in Ports
  /\ at \in {"port file again", "migrate", "rbac"} /\ ~overwritten =>
       url = [port |-> port, password |-> password]
  /\ at \in {"migrate", "rbac"} => portFile = port
  /\ at = "rbac" => database = "migrated"

Passed ==
  at = "passed" =>
    /\ cluster = "complete" /\ database = "migrated" /\ Codes \subseteq permissions
    /\ service = portFile
    /\ ~overwritten => url = [port |-> service, password |-> clusterPassword]

InstallInv ==
  TypeOK /\ CredentialsKept /\ PasswordIsWritten /\ ClusterIsMadeOnce /\ Answered /\ Passed

USE DEF files, data, machine, installer, launching

LEMMA InitInv == Init => InstallInv
<1>1. CASE Init /\ Fresh
  BY <1>1, InstallationAssumption
  DEF Init, Fresh, InstallInv, TypeOK, FilesOK, DataOK, MachineOK, InstallerOK,
      LaunchingOK, CredentialsKept, PasswordIsWritten, ClusterIsMadeOnce,
      AnsweredAt, Answered, Passed
<1>2. CASE Init /\ OlderWithoutCluster
  BY <1>2, InstallationAssumption
  DEF Init, OlderWithoutCluster, InstallInv, TypeOK, FilesOK, DataOK, MachineOK,
      InstallerOK, LaunchingOK, CredentialsKept, PasswordIsWritten,
      ClusterIsMadeOnce, AnsweredAt, Answered, Passed
<1>3. CASE Init /\ Older
  <2>1. PICK p \in Passwords, q \in Ports :
          /\ legacyFile \in Passwords \cup {NoFile}
          /\ dbPasswordFile \in Passwords \cup {NoFile}
          /\ envPassword \in {p, NoFile}
          /\ p \in {legacyFile, dbPasswordFile, envPassword}
          /\ cluster = "complete" /\ clusterPassword = p
          /\ portFile = q /\ service = q /\ url = [port |-> q, password |-> p]
          /\ database = "migrated" /\ permissions \in SUBSET Codes
    BY <1>3 DEF Older
  <2>2. TypeOK
    BY <1>3, <2>1, InstallationAssumption
    DEF Init, TypeOK, FilesOK, DataOK, MachineOK, InstallerOK, LaunchingOK
  <2>. QED
    BY <1>3, <2>1, <2>2
    DEF Init, InstallInv, CredentialsKept, PasswordIsWritten, ClusterIsMadeOnce,
        AnsweredAt, Answered, Passed
<1>. QED
  BY <1>1, <1>2, <1>3 DEF Init

(* The installer, step by step.  What it reads or is told stays true until *)
(* it writes it down: nobody else changes the cluster, the service or the  *)
(* port of a service that runs.                                            *)
LEMMA RunInv == InstallInv /\ Run => InstallInv'
<1>. SUFFICES ASSUME InstallInv, Run PROVE InstallInv'
  OBVIOUS
<1>1. FilesOK' /\ DataOK'
  BY DEF Run, InstallInv, TypeOK, FilesOK, DataOK
<1>2. MachineOK' /\ InstallerOK' /\ LaunchingOK'
  BY DEF Run, Goto, InstallInv, TypeOK, MachineOK, InstallerOK, LaunchingOK
<1>3. CredentialsKept' /\ PasswordIsWritten' /\ ClusterIsMadeOnce'
  BY DEF Run, Goto, InstallInv, CredentialsKept, PasswordIsWritten,
      ClusterIsMadeOnce
<1>4. Answered' /\ Passed'
  BY DEF Run, Goto, Answered, Passed, AnsweredAt
<1>. QED
  BY <1>1, <1>2, <1>3, <1>4 DEF InstallInv, TypeOK

LEMMA MoveLegacyFileInv == InstallInv /\ MoveLegacyFile => InstallInv'
<1>. SUFFICES ASSUME InstallInv, MoveLegacyFile PROVE InstallInv'
  OBVIOUS
<1>1. FilesOK' /\ DataOK'
  BY DEF MoveLegacyFile, MoveLegacyFileUnread, Fail, InstallInv, TypeOK,
      FilesOK, DataOK
<1>2. MachineOK' /\ InstallerOK' /\ LaunchingOK'
  BY DEF MoveLegacyFile, MoveLegacyFileUnread, Fail, End, Goto, InstallInv,
      TypeOK, MachineOK, InstallerOK, LaunchingOK
<1>3. CredentialsKept' /\ PasswordIsWritten' /\ ClusterIsMadeOnce'
  BY DEF MoveLegacyFile, MoveLegacyFileUnread, Fail, End, Goto, InstallInv,
      CredentialsKept, PasswordIsWritten, ClusterIsMadeOnce
<1>4. Answered' /\ Passed'
  BY DEF MoveLegacyFile, MoveLegacyFileUnread, Fail, End, Goto, Answered,
      Passed, AnsweredAt
<1>. QED
  BY <1>1, <1>2, <1>3, <1>4 DEF InstallInv, TypeOK

LEMMA ReadPasswordInv == InstallInv /\ ReadPassword => InstallInv'
<1>. SUFFICES ASSUME InstallInv, ReadPassword PROVE InstallInv'
  OBVIOUS
<1>1. FilesOK' /\ DataOK'
  BY DEF ReadPassword, InstallInv, TypeOK, FilesOK, DataOK
<1>2. MachineOK' /\ InstallerOK' /\ LaunchingOK'
  BY DEF ReadPassword, InstallInv, TypeOK, MachineOK, InstallerOK,
      LaunchingOK
<1>3. CredentialsKept' /\ PasswordIsWritten' /\ ClusterIsMadeOnce'
  BY DEF ReadPassword, InstallInv, CredentialsKept, PasswordIsWritten,
      ClusterIsMadeOnce
<1>4. Answered' /\ Passed'
  BY DEF ReadPassword, Answered, Passed, AnsweredAt
<1>. QED
  BY <1>1, <1>2, <1>3, <1>4 DEF InstallInv, TypeOK

LEMMA CreatePasswordFileInv == InstallInv /\ CreatePasswordFile => InstallInv'
<1>. SUFFICES ASSUME InstallInv, CreatePasswordFile PROVE InstallInv'
  OBVIOUS
<1>1. FilesOK' /\ DataOK'
  BY DEF CreatePasswordFile, InstallInv, TypeOK, FilesOK, DataOK
<1>2. MachineOK' /\ InstallerOK' /\ LaunchingOK'
  BY DEF CreatePasswordFile, InstallInv, TypeOK, FilesOK, MachineOK,
      InstallerOK, LaunchingOK
<1>3. CredentialsKept' /\ PasswordIsWritten' /\ ClusterIsMadeOnce'
  BY InstallationAssumption DEF CreatePasswordFile, InstallInv, TypeOK,
      FilesOK, CredentialsKept, PasswordIsWritten, ClusterIsMadeOnce
<1>4. Answered' /\ Passed'
  BY DEF CreatePasswordFile, Answered, Passed, AnsweredAt
<1>. QED
  BY <1>1, <1>2, <1>3, <1>4 DEF InstallInv, TypeOK

LEMMA MissPasswordInv == InstallInv /\ MissPassword => InstallInv'
<1>. SUFFICES ASSUME InstallInv, MissPassword PROVE InstallInv'
  OBVIOUS
<1>1. FilesOK' /\ DataOK'
  BY DEF MissPassword, Fail, InstallInv, TypeOK, FilesOK, DataOK
<1>2. MachineOK' /\ InstallerOK' /\ LaunchingOK'
  BY DEF MissPassword, Fail, End, InstallInv, TypeOK, MachineOK, InstallerOK,
      LaunchingOK
<1>3. CredentialsKept' /\ PasswordIsWritten' /\ ClusterIsMadeOnce'
  BY DEF MissPassword, Fail, End, InstallInv, CredentialsKept,
      PasswordIsWritten, ClusterIsMadeOnce
<1>4. Answered' /\ Passed'
  BY DEF MissPassword, Fail, End, Answered, Passed, AnsweredAt
<1>. QED
  BY <1>1, <1>2, <1>3, <1>4 DEF InstallInv, TypeOK

LEMMA FillPasswordFileInv == InstallInv /\ FillPasswordFile => InstallInv'
<1>. SUFFICES ASSUME InstallInv, FillPasswordFile PROVE InstallInv'
  OBVIOUS
<1>1. FilesOK' /\ DataOK'
  BY DEF FillPasswordFile, InstallInv, TypeOK, FilesOK, DataOK, InstallerOK
<1>2. MachineOK' /\ InstallerOK' /\ LaunchingOK'
  BY DEF FillPasswordFile, Goto, InstallInv, TypeOK, MachineOK, InstallerOK,
      LaunchingOK
<1>3. CredentialsKept' /\ PasswordIsWritten' /\ ClusterIsMadeOnce'
  BY InstallationAssumption DEF FillPasswordFile, Goto, InstallInv,
      CredentialsKept, PasswordIsWritten, ClusterIsMadeOnce
<1>4. Answered' /\ Passed'
  BY DEF FillPasswordFile, Goto, Answered, Passed, AnsweredAt
<1>. QED
  BY <1>1, <1>2, <1>3, <1>4 DEF InstallInv, TypeOK

LEMMA InspectClusterInv == InstallInv /\ InspectCluster => InstallInv'
<1>. SUFFICES ASSUME InstallInv, InspectCluster PROVE InstallInv'
  OBVIOUS
<1>1. FilesOK' /\ DataOK'
  BY DEF InspectCluster, Fail, InstallInv, TypeOK, FilesOK, DataOK
<1>2. MachineOK' /\ InstallerOK' /\ LaunchingOK'
  BY DEF InspectCluster, Fail, End, Goto, InstallInv, TypeOK, MachineOK,
      InstallerOK, LaunchingOK
<1>3. CredentialsKept' /\ PasswordIsWritten' /\ ClusterIsMadeOnce'
  BY DEF InspectCluster, Fail, End, Goto, InstallInv, CredentialsKept,
      PasswordIsWritten, ClusterIsMadeOnce
<1>4. Answered' /\ Passed'
  BY DEF InspectCluster, Fail, End, Goto, Answered, Passed, AnsweredAt
<1>. QED
  BY <1>1, <1>2, <1>3, <1>4 DEF InstallInv, TypeOK

LEMMA InitdbInv == InstallInv /\ Initdb => InstallInv'
<1>. SUFFICES ASSUME InstallInv, Initdb PROVE InstallInv'
  OBVIOUS
<1>1. FilesOK' /\ DataOK'
  BY DEF Initdb, InstallInv, TypeOK, FilesOK, DataOK, PasswordIsWritten
<1>2. MachineOK' /\ InstallerOK' /\ LaunchingOK'
  BY DEF Initdb, Goto, InstallInv, TypeOK, MachineOK, InstallerOK,
      LaunchingOK
<1>3. CredentialsKept' /\ PasswordIsWritten' /\ ClusterIsMadeOnce'
  BY DEF Initdb, Goto, InstallInv, CredentialsKept, PasswordIsWritten,
      ClusterIsMadeOnce
<1>4. Answered' /\ Passed'
  BY DEF Initdb, Goto, Answered, Passed, AnsweredAt
<1>. QED
  BY <1>1, <1>2, <1>3, <1>4 DEF InstallInv, TypeOK

LEMMA InitdbFailsInv == InstallInv /\ InitdbFails => InstallInv'
<1>. SUFFICES ASSUME InstallInv, InitdbFails PROVE InstallInv'
  OBVIOUS
<1>1. FilesOK' /\ DataOK'
  BY DEF InitdbFails, InstallInv, TypeOK, FilesOK, DataOK
<1>2. MachineOK' /\ InstallerOK' /\ LaunchingOK'
  BY DEF InitdbFails, End, InstallInv, TypeOK, MachineOK, InstallerOK,
      LaunchingOK
<1>3. CredentialsKept' /\ PasswordIsWritten' /\ ClusterIsMadeOnce'
  BY DEF InitdbFails, End, InstallInv, CredentialsKept, PasswordIsWritten,
      ClusterIsMadeOnce
<1>4. Answered' /\ Passed'
  BY DEF InitdbFails, End, Answered, Passed, AnsweredAt
<1>. QED
  BY <1>1, <1>2, <1>3, <1>4 DEF InstallInv, TypeOK

LEMMA SelectPortInv == InstallInv /\ SelectPort => InstallInv'
<1>. SUFFICES ASSUME InstallInv, SelectPort PROVE InstallInv'
  OBVIOUS
<1>1. FilesOK' /\ DataOK'
  BY DEF SelectPort, Fail, InstallInv, TypeOK, FilesOK, DataOK
<1>2. MachineOK' /\ InstallerOK' /\ LaunchingOK'
  BY DEF SelectPort, Fail, End, InstallInv, TypeOK, MachineOK, InstallerOK,
      LaunchingOK
<1>3. CredentialsKept' /\ PasswordIsWritten' /\ ClusterIsMadeOnce'
  BY DEF SelectPort, Fail, End, InstallInv, CredentialsKept,
      PasswordIsWritten, ClusterIsMadeOnce
<1>4. Answered' /\ Passed'
  BY DEF SelectPort, Fail, End, Answered, Passed, AnsweredAt
<1>. QED
  BY <1>1, <1>2, <1>3, <1>4 DEF InstallInv, TypeOK

LEMMA StopServiceInv == InstallInv /\ StopService => InstallInv'
<1>. SUFFICES ASSUME InstallInv, StopService PROVE InstallInv'
  OBVIOUS
<1>1. FilesOK' /\ DataOK'
  BY DEF StopService, InstallInv, TypeOK, FilesOK, DataOK
<1>2. MachineOK' /\ InstallerOK' /\ LaunchingOK'
  BY DEF StopService, Goto, InstallInv, TypeOK, MachineOK, InstallerOK,
      LaunchingOK
<1>3. CredentialsKept' /\ PasswordIsWritten' /\ ClusterIsMadeOnce'
  BY DEF StopService, Goto, InstallInv, CredentialsKept, PasswordIsWritten,
      ClusterIsMadeOnce
<1>4. Answered' /\ Passed'
  BY DEF StopService, Goto, Answered, Passed, AnsweredAt
<1>. QED
  BY <1>1, <1>2, <1>3, <1>4 DEF InstallInv, TypeOK

LEMMA UnregisterInv == InstallInv /\ Unregister => InstallInv'
<1>. SUFFICES ASSUME InstallInv, Unregister PROVE InstallInv'
  OBVIOUS
<1>1. FilesOK' /\ DataOK'
  BY DEF Unregister, InstallInv, TypeOK, FilesOK, DataOK
<1>2. MachineOK' /\ InstallerOK' /\ LaunchingOK'
  BY DEF Unregister, Goto, InstallInv, TypeOK, MachineOK, InstallerOK,
      LaunchingOK
<1>3. CredentialsKept' /\ PasswordIsWritten' /\ ClusterIsMadeOnce'
  BY DEF Unregister, Goto, InstallInv, CredentialsKept, PasswordIsWritten,
      ClusterIsMadeOnce
<1>4. Answered' /\ Passed'
  BY DEF Unregister, Goto, Answered, Passed, AnsweredAt
<1>. QED
  BY <1>1, <1>2, <1>3, <1>4 DEF InstallInv, TypeOK

LEMMA RegisterServiceInv == InstallInv /\ RegisterService => InstallInv'
<1>. SUFFICES ASSUME InstallInv, RegisterService PROVE InstallInv'
  OBVIOUS
<1>1. FilesOK' /\ DataOK'
  BY DEF RegisterService, Fail, InstallInv, TypeOK, FilesOK, DataOK
<1>2. MachineOK' /\ InstallerOK' /\ LaunchingOK'
  BY DEF RegisterService, Fail, End, Goto, InstallInv, TypeOK, MachineOK,
      InstallerOK, LaunchingOK
<1>3. CredentialsKept' /\ PasswordIsWritten' /\ ClusterIsMadeOnce'
  BY DEF RegisterService, Fail, End, Goto, InstallInv, CredentialsKept,
      PasswordIsWritten, ClusterIsMadeOnce
<1>4. Answered' /\ Passed'
  BY DEF RegisterService, Fail, End, Goto, Answered, Passed, AnsweredAt
<1>. QED
  BY <1>1, <1>2, <1>3, <1>4 DEF InstallInv, TypeOK

LEMMA WritePortFileInv == InstallInv /\ WritePortFile => InstallInv'
<1>. SUFFICES ASSUME InstallInv, WritePortFile PROVE InstallInv'
  OBVIOUS
<1>1. FilesOK' /\ DataOK'
  BY DEF WritePortFile, InstallInv, TypeOK, FilesOK, DataOK, InstallerOK
<1>2. MachineOK' /\ InstallerOK' /\ LaunchingOK'
  BY DEF WritePortFile, Goto, InstallInv, TypeOK, MachineOK, InstallerOK,
      LaunchingOK
<1>3. CredentialsKept' /\ PasswordIsWritten' /\ ClusterIsMadeOnce'
  BY DEF WritePortFile, Goto, InstallInv, CredentialsKept, PasswordIsWritten,
      ClusterIsMadeOnce
<1>4. Answered' /\ Passed'
  BY DEF WritePortFile, Goto, InstallInv, Answered, Passed, AnsweredAt
<1>. QED
  BY <1>1, <1>2, <1>3, <1>4 DEF InstallInv, TypeOK

LEMMA StartServiceInv == InstallInv /\ StartService => InstallInv'
<1>. SUFFICES ASSUME InstallInv, StartService PROVE InstallInv'
  OBVIOUS
<1>1. FilesOK' /\ DataOK'
  BY DEF StartService, InstallInv, TypeOK, FilesOK, DataOK
<1>2. MachineOK' /\ InstallerOK' /\ LaunchingOK'
  BY DEF StartService, Goto, InstallInv, TypeOK, MachineOK, InstallerOK,
      LaunchingOK
<1>3. CredentialsKept' /\ PasswordIsWritten' /\ ClusterIsMadeOnce'
  BY DEF StartService, Goto, Startable, InstallInv, CredentialsKept,
      PasswordIsWritten, ClusterIsMadeOnce
<1>4. Answered' /\ Passed'
  BY DEF StartService, Goto, Answered, Passed, AnsweredAt
<1>. QED
  BY <1>1, <1>2, <1>3, <1>4 DEF InstallInv, TypeOK

LEMMA WaitForPostgresInv == InstallInv /\ WaitForPostgres => InstallInv'
<1>. SUFFICES ASSUME InstallInv, WaitForPostgres PROVE InstallInv'
  OBVIOUS
<1>1. FilesOK' /\ DataOK'
  BY DEF WaitForPostgres, Fail, InstallInv, TypeOK, FilesOK, DataOK
<1>2. MachineOK' /\ InstallerOK' /\ LaunchingOK'
  BY DEF WaitForPostgres, Fail, End, Goto, InstallInv, TypeOK, MachineOK,
      InstallerOK, LaunchingOK
<1>3. CredentialsKept' /\ PasswordIsWritten' /\ ClusterIsMadeOnce'
  BY DEF WaitForPostgres, Fail, End, Goto, InstallInv, CredentialsKept,
      PasswordIsWritten, ClusterIsMadeOnce
<1>4. Answered' /\ Passed'
  BY DEF WaitForPostgres, Fail, End, Goto, Answers, InstallInv, TypeOK,
      InstallerOK, ClusterIsMadeOnce, Answered, Passed, AnsweredAt
<1>. QED
  BY <1>1, <1>2, <1>3, <1>4 DEF InstallInv, TypeOK

LEMMA CreateDatabaseInv == InstallInv /\ CreateDatabase => InstallInv'
<1>. SUFFICES ASSUME InstallInv, CreateDatabase PROVE InstallInv'
  OBVIOUS
<1>1. FilesOK' /\ DataOK'
  BY DEF CreateDatabase, Fail, InstallInv, TypeOK, FilesOK, DataOK
<1>2. MachineOK' /\ InstallerOK' /\ LaunchingOK'
  BY DEF CreateDatabase, Fail, End, Goto, InstallInv, TypeOK, MachineOK,
      InstallerOK, LaunchingOK
<1>3. CredentialsKept' /\ PasswordIsWritten' /\ ClusterIsMadeOnce'
  BY DEF CreateDatabase, Fail, End, Goto, InstallInv, CredentialsKept,
      PasswordIsWritten, ClusterIsMadeOnce
<1>4. Answered' /\ Passed'
  BY DEF CreateDatabase, Fail, End, Goto, InstallInv, Answered, Passed,
      AnsweredAt
<1>. QED
  BY <1>1, <1>2, <1>3, <1>4 DEF InstallInv, TypeOK

LEMMA WriteEnvInv == InstallInv /\ WriteEnv => InstallInv'
<1>. SUFFICES ASSUME InstallInv, WriteEnv PROVE InstallInv'
  OBVIOUS
<1>1. FilesOK' /\ DataOK'
  BY DEF WriteEnv, InstallInv, TypeOK, FilesOK, DataOK, ClusterIsMadeOnce,
      Answered, AnsweredAt
<1>2. MachineOK' /\ InstallerOK' /\ LaunchingOK'
  BY DEF WriteEnv, Goto, InstallInv, TypeOK, MachineOK, InstallerOK,
      LaunchingOK
<1>3. CredentialsKept' /\ PasswordIsWritten' /\ ClusterIsMadeOnce'
  BY DEF WriteEnv, Goto, InstallInv, CredentialsKept, PasswordIsWritten,
      ClusterIsMadeOnce
<1>4. Answered' /\ Passed'
  BY DEF WriteEnv, Goto, InstallInv, Answered, Passed, AnsweredAt
<1>. QED
  BY <1>1, <1>2, <1>3, <1>4 DEF InstallInv, TypeOK

LEMMA MigrateInv == InstallInv /\ Migrate => InstallInv'
<1>. SUFFICES ASSUME InstallInv, Migrate PROVE InstallInv'
  OBVIOUS
<1>1. FilesOK' /\ DataOK'
  BY DEF Migrate, Fail, InstallInv, TypeOK, FilesOK, DataOK
<1>2. MachineOK' /\ InstallerOK' /\ LaunchingOK'
  BY DEF Migrate, Fail, End, Goto, InstallInv, TypeOK, MachineOK,
      InstallerOK, LaunchingOK
<1>3. CredentialsKept' /\ PasswordIsWritten' /\ ClusterIsMadeOnce'
  BY DEF Migrate, Fail, End, Goto, InstallInv, CredentialsKept,
      PasswordIsWritten, ClusterIsMadeOnce
<1>4. Answered' /\ Passed'
  BY DEF Migrate, Fail, End, Goto, InstallInv, Answered, Passed, AnsweredAt
<1>. QED
  BY <1>1, <1>2, <1>3, <1>4 DEF InstallInv, TypeOK

LEMMA InitializeRbacInv == InstallInv /\ InitializeRbac => InstallInv'
<1>. SUFFICES ASSUME InstallInv, InitializeRbac PROVE InstallInv'
  OBVIOUS
<1>1. FilesOK' /\ DataOK'
  BY DEF InitializeRbac, Fail, InstallInv, TypeOK, FilesOK, DataOK
<1>2. MachineOK' /\ InstallerOK' /\ LaunchingOK'
  BY DEF InitializeRbac, Fail, End, InstallInv, TypeOK, MachineOK,
      InstallerOK, LaunchingOK
<1>3. CredentialsKept' /\ PasswordIsWritten' /\ ClusterIsMadeOnce'
  BY DEF InitializeRbac, Fail, End, InstallInv, CredentialsKept,
      PasswordIsWritten, ClusterIsMadeOnce
<1>4. Answered' /\ Passed'
  BY DEF InitializeRbac, Fail, End, InstallInv, Answered, Passed, AnsweredAt
<1>. QED
  BY <1>1, <1>2, <1>3, <1>4 DEF InstallInv, TypeOK

(* It dies, the launcher goes on, the computer restarts, and OmniKes is     *)
(* uninstalled.                                                            *)
LEMMA CrashInv == InstallInv /\ Crash => InstallInv'
<1>. SUFFICES ASSUME InstallInv, Crash PROVE InstallInv'
  OBVIOUS
<1>1. FilesOK' /\ DataOK'
  BY DEF Crash, InstallInv, TypeOK, FilesOK, DataOK
<1>2. MachineOK' /\ InstallerOK' /\ LaunchingOK'
  BY DEF Crash, End, InstallInv, TypeOK, MachineOK, InstallerOK, LaunchingOK
<1>3. CredentialsKept' /\ PasswordIsWritten' /\ ClusterIsMadeOnce'
  BY DEF Crash, End, InstallInv, CredentialsKept, PasswordIsWritten,
      ClusterIsMadeOnce
<1>4. Answered' /\ Passed'
  BY DEF Crash, End, Answered, Passed, AnsweredAt
<1>. QED
  BY <1>1, <1>2, <1>3, <1>4 DEF InstallInv, TypeOK

LEMMA PrepareInv == InstallInv /\ Prepare => InstallInv'
<1>. SUFFICES ASSUME InstallInv, Prepare PROVE InstallInv'
  OBVIOUS
<1>1. FilesOK' /\ DataOK'
  BY DEF Prepare, InstallInv, TypeOK, FilesOK, DataOK
<1>2. MachineOK' /\ InstallerOK' /\ LaunchingOK'
  BY DEF Prepare, InstallInv, TypeOK, FilesOK, MachineOK, InstallerOK,
      LaunchingOK
<1>3. CredentialsKept' /\ PasswordIsWritten' /\ ClusterIsMadeOnce'
  BY DEF Prepare, InstallInv, CredentialsKept, PasswordIsWritten,
      ClusterIsMadeOnce
<1>4. Answered' /\ Passed'
  BY DEF Prepare, InstallInv, Answered, Passed
<1>. QED
  BY <1>1, <1>2, <1>3, <1>4 DEF InstallInv, TypeOK

LEMMA WriteBackInv == InstallInv /\ WriteBack => InstallInv'
<1>. SUFFICES ASSUME InstallInv, WriteBack PROVE InstallInv'
  OBVIOUS
<1>1. FilesOK' /\ DataOK'
  BY DEF WriteBack, InstallInv, TypeOK, FilesOK, DataOK, LaunchingOK
<1>2. MachineOK' /\ InstallerOK' /\ LaunchingOK'
  BY DEF WriteBack, InstallInv, TypeOK, MachineOK, InstallerOK, LaunchingOK
<1>3. CredentialsKept' /\ PasswordIsWritten' /\ ClusterIsMadeOnce'
  BY DEF WriteBack, InstallInv, CredentialsKept, PasswordIsWritten,
      ClusterIsMadeOnce
<1>4. Answered' /\ Passed'
  BY DEF WriteBack, InstallInv, Answered, Passed
<1>. QED
  BY <1>1, <1>2, <1>3, <1>4 DEF InstallInv, TypeOK

LEMMA MayNotWriteBackInv == InstallInv /\ MayNotWriteBack => InstallInv'
<1>. SUFFICES ASSUME InstallInv, MayNotWriteBack PROVE InstallInv'
  OBVIOUS
<1>1. FilesOK' /\ DataOK'
  BY DEF MayNotWriteBack, InstallInv, TypeOK, FilesOK, DataOK
<1>2. MachineOK' /\ InstallerOK' /\ LaunchingOK'
  BY DEF MayNotWriteBack, InstallInv, TypeOK, MachineOK, InstallerOK,
      LaunchingOK
<1>3. CredentialsKept' /\ PasswordIsWritten' /\ ClusterIsMadeOnce'
  BY DEF MayNotWriteBack, InstallInv, CredentialsKept, PasswordIsWritten,
      ClusterIsMadeOnce
<1>4. Answered' /\ Passed'
  BY DEF MayNotWriteBack, InstallInv, Answered, Passed
<1>. QED
  BY <1>1, <1>2, <1>3, <1>4 DEF InstallInv, TypeOK

LEMMA LaunchInv == InstallInv /\ Launch => InstallInv'
<1>. SUFFICES ASSUME InstallInv, Launch PROVE InstallInv'
  OBVIOUS
<1>1. FilesOK' /\ DataOK'
  BY DEF Launch, InstallInv, TypeOK, FilesOK, DataOK
<1>2. MachineOK' /\ InstallerOK' /\ LaunchingOK'
  BY DEF Launch, InstallInv, TypeOK, MachineOK, InstallerOK, LaunchingOK
<1>3. CredentialsKept' /\ PasswordIsWritten' /\ ClusterIsMadeOnce'
  BY DEF Launch, Startable, InstallInv, CredentialsKept, PasswordIsWritten,
      ClusterIsMadeOnce
<1>4. Answered' /\ Passed'
  BY DEF Launch, InstallInv, Answered, Passed
<1>. QED
  BY <1>1, <1>2, <1>3, <1>4 DEF InstallInv, TypeOK

LEMMA ServeInv == InstallInv /\ Serve => InstallInv'
<1>. SUFFICES ASSUME InstallInv, Serve PROVE InstallInv'
  OBVIOUS
<1>1. FilesOK' /\ DataOK'
  BY DEF Serve, InstallInv, TypeOK, FilesOK, DataOK
<1>2. MachineOK' /\ InstallerOK' /\ LaunchingOK'
  BY DEF Serve, InstallInv, TypeOK, MachineOK, InstallerOK, LaunchingOK
<1>3. CredentialsKept' /\ PasswordIsWritten' /\ ClusterIsMadeOnce'
  BY DEF Serve, InstallInv, CredentialsKept, PasswordIsWritten,
      ClusterIsMadeOnce
<1>4. Answered' /\ Passed'
  BY DEF Serve, InstallInv, Answered, Passed
<1>. QED
  BY <1>1, <1>2, <1>3, <1>4 DEF InstallInv, TypeOK

LEMMA GiveUpInv == InstallInv /\ GiveUp => InstallInv'
<1>. SUFFICES ASSUME InstallInv, GiveUp PROVE InstallInv'
  OBVIOUS
<1>1. FilesOK' /\ DataOK'
  BY DEF GiveUp, InstallInv, TypeOK, FilesOK, DataOK
<1>2. MachineOK' /\ InstallerOK' /\ LaunchingOK'
  BY DEF GiveUp, InstallInv, TypeOK, MachineOK, InstallerOK, LaunchingOK
<1>3. CredentialsKept' /\ PasswordIsWritten' /\ ClusterIsMadeOnce'
  BY DEF GiveUp, InstallInv, CredentialsKept, PasswordIsWritten,
      ClusterIsMadeOnce
<1>4. Answered' /\ Passed'
  BY DEF GiveUp, InstallInv, Answered, Passed
<1>. QED
  BY <1>1, <1>2, <1>3, <1>4 DEF InstallInv, TypeOK

LEMMA RebootInv == InstallInv /\ Reboot => InstallInv'
<1>. SUFFICES ASSUME InstallInv, Reboot PROVE InstallInv'
  OBVIOUS
<1>1. FilesOK' /\ DataOK'
  BY DEF Reboot, InstallInv, TypeOK, FilesOK, DataOK
<1>2. MachineOK' /\ InstallerOK' /\ LaunchingOK'
  BY DEF Reboot, End, Startable, InstallInv, TypeOK, MachineOK, InstallerOK,
      LaunchingOK
<1>3. CredentialsKept' /\ PasswordIsWritten' /\ ClusterIsMadeOnce'
  BY DEF Reboot, End, Startable, InstallInv, CredentialsKept,
      PasswordIsWritten, ClusterIsMadeOnce
<1>4. Answered' /\ Passed'
  BY DEF Reboot, End, InstallInv, Answered, Passed, AnsweredAt
<1>. QED
  BY <1>1, <1>2, <1>3, <1>4 DEF InstallInv, TypeOK

LEMMA UninstallInv == InstallInv /\ Uninstall => InstallInv'
<1>. SUFFICES ASSUME InstallInv, Uninstall PROVE InstallInv'
  OBVIOUS
<1>1. FilesOK' /\ DataOK'
  BY DEF Uninstall, InstallInv, TypeOK, FilesOK, DataOK
<1>2. MachineOK' /\ InstallerOK' /\ LaunchingOK'
  BY DEF Uninstall, End, InstallInv, TypeOK, MachineOK, InstallerOK,
      LaunchingOK
<1>3. CredentialsKept' /\ PasswordIsWritten' /\ ClusterIsMadeOnce'
  BY DEF Uninstall, End, InstallInv, CredentialsKept, PasswordIsWritten,
      ClusterIsMadeOnce
<1>4. Answered' /\ Passed'
  BY DEF Uninstall, End, Answered, Passed, AnsweredAt
<1>. QED
  BY <1>1, <1>2, <1>3, <1>4 DEF InstallInv, TypeOK

(* Other programs come and go at ports the service does not hold.          *)
LEMMA OtherProgramsInv == ASSUME InstallInv, NEW p \in Ports, OtherPrograms(p) PROVE InstallInv'
<1>1. TypeOK'
  BY DEF OtherPrograms, InstallInv, TypeOK, FilesOK, DataOK, MachineOK, InstallerOK, LaunchingOK
<1>2. CredentialsKept' /\ PasswordIsWritten' /\ ClusterIsMadeOnce'
  BY DEF OtherPrograms, InstallInv, CredentialsKept, PasswordIsWritten, ClusterIsMadeOnce
<1>3. Answered' /\ Passed'
  BY DEF OtherPrograms, InstallInv, Answered, AnsweredAt, Passed
<1>. QED
  BY <1>1, <1>2, <1>3 DEF InstallInv

LEMMA NothingInstalls == InstallInv /\ UNCHANGED vars => InstallInv'
<1>. SUFFICES ASSUME InstallInv, UNCHANGED vars PROVE InstallInv'
  OBVIOUS
<1>1. TypeOK'
  BY DEF vars, InstallInv, TypeOK, FilesOK, DataOK, MachineOK, InstallerOK, LaunchingOK
<1>2. CredentialsKept' /\ PasswordIsWritten' /\ ClusterIsMadeOnce'
  BY DEF vars, InstallInv, CredentialsKept, PasswordIsWritten, ClusterIsMadeOnce
<1>3. Answered' /\ Passed'
  BY DEF vars, InstallInv, Answered, AnsweredAt, Passed
<1>. QED
  BY <1>1, <1>2, <1>3 DEF InstallInv

LEMMA InstallStep == InstallInv /\ [Next]_vars => InstallInv'
<1>1. InstallInv /\ Install => InstallInv'
  BY MoveLegacyFileInv, ReadPasswordInv, CreatePasswordFileInv,
     MissPasswordInv, FillPasswordFileInv, InspectClusterInv, InitdbInv,
     InitdbFailsInv, SelectPortInv, StopServiceInv, UnregisterInv,
     RegisterServiceInv, WritePortFileInv, StartServiceInv,
     WaitForPostgresInv, CreateDatabaseInv, WriteEnvInv, MigrateInv,
     InitializeRbacInv
     DEF Install
<1>2. InstallInv /\ Environment => InstallInv'
  BY RebootInv, UninstallInv, OtherProgramsInv DEF Environment
<1>. QED
  BY <1>1, <1>2, RunInv, CrashInv, PrepareInv, WriteBackInv,
     MayNotWriteBackInv, LaunchInv, ServeInv, GiveUpInv, NothingInstalls
     DEF Next

-----------------------------------------------------------------------------
(* Nothing in Setup rests on the catalogue being incomplete.               *)
LEMMA CatalogueMayGrow ==
  ASSUME InstallInv, permissions' = permissions \cup Codes,
         UNCHANGED <<files, cluster, clusterPassword, database, machine, installer, launching>>
  PROVE  InstallInv'
<1>1. TypeOK'
  BY DEF InstallInv, TypeOK, FilesOK, DataOK, MachineOK, InstallerOK, LaunchingOK
<1>2. CredentialsKept' /\ PasswordIsWritten' /\ ClusterIsMadeOnce'
  BY DEF InstallInv, CredentialsKept, PasswordIsWritten, ClusterIsMadeOnce
<1>3. Answered' /\ Passed'
  BY DEF InstallInv, Answered, AnsweredAt, Passed
<1>. QED
  BY <1>1, <1>2, <1>3 DEF InstallInv

-----------------------------------------------------------------------------
(* The scripts.  A transaction that may still commit was admitted by what  *)
(* is true now: what would make it false has overtaken it.                 *)
Attempts ==
  [task : {"install", "operator"}, admitted : BOOLEAN, locked : BOOLEAN, overtaken : BOOLEAN]

AccountsOK ==
  /\ account \in [Emails -> {"none", "user", "operator"}]
  /\ installs \in Nat
  /\ attempt \in [Processes -> Attempts \cup {NoAttempt}]

Alive(p, task) == p \in Attempting(task) /\ attempt[p].admitted /\ ~attempt[p].overtaken

InstalledIsSeen ==
  /\ installs <= 1
  /\ installs > 0 => \E e \in Emails : ~Unused(e)
  /\ \A p \in Processes : Alive(p, "install") => installs = 0

OperatorIsSeen ==
  /\ \A e \in Emails : account[e] = "operator" => e \in active \cup retired
  /\ \A p \in Processes : Alive(p, "operator") =>
       \A e \in Emails : account[e] = "operator" => e \in retired

ScriptsInv ==
  AccountsOK /\ InstalledIsSeen /\ OperatorIsSeen /\ ScriptsRunOnce /\ AdministratorsHoldEverything

USE DEF accounts

LEMMA ScriptsInit == SetupInit => ScriptsInv
  BY DEF SetupInit, ScriptsInv, AccountsOK, InstalledIsSeen, OperatorIsSeen, Alive,
         Attempting, ScriptsRunOnce, AdministratorsHoldEverything

(* Attempts may go, and accounts stay as they are.                         *)
LEMMA AttemptsMayEnd ==
  ASSUME ScriptsInv, UNCHANGED accounts,
         attempt' \in [Processes -> Attempts \cup {NoAttempt}],
         \A p \in Processes : attempt'[p] = attempt[p] \/ attempt'[p] = NoAttempt
  PROVE  ScriptsInv'
  BY DEF ScriptsInv, AccountsOK, InstalledIsSeen, OperatorIsSeen, Alive, Attempting, Unused,
         ScriptsRunOnce, AdministratorsHoldEverything

LEMMA RegisterUserScripts ==
  ASSUME ScriptsInv, NEW e \in Emails, RegisterUser(e)
  PROVE  ScriptsInv'
<1>1. AccountsOK' /\ InstalledIsSeen'
  BY DEF RegisterUser, Unused, ScriptsInv, AccountsOK, InstalledIsSeen, Alive, Attempting
<1>2. OperatorIsSeen' /\ ScriptsRunOnce'
  BY DEF RegisterUser, Unused, ScriptsInv, AccountsOK, OperatorIsSeen, Alive, Attempting,
         ScriptsRunOnce
<1>3. AdministratorsHoldEverything'
  BY DEF RegisterUser, ScriptsInv, AdministratorsHoldEverything
<1>. QED
  BY <1>1, <1>2, <1>3 DEF ScriptsInv

LEMMA SetActiveScripts ==
  ASSUME ScriptsInv, NEW e \in Emails, SetActive(e)
  PROVE  ScriptsInv'
<1>1. AccountsOK' /\ InstalledIsSeen' /\ AdministratorsHoldEverything'
  BY DEF SetActive, Unused, ScriptsInv, AccountsOK, InstalledIsSeen, Alive, Attempting,
         AdministratorsHoldEverything
<1>2. OperatorIsSeen' /\ ScriptsRunOnce'
  BY DEF SetActive, ScriptsInv, AccountsOK, OperatorIsSeen, Alive, Attempting, ScriptsRunOnce
<1>. QED
  BY <1>1, <1>2 DEF ScriptsInv

(* A snapshot without users was taken before any local installation; one   *)
(* without active operators sees those there are as deactivated.           *)
LEMMA BeginScripts ==
  ASSUME ScriptsInv, NEW p \in Processes, NEW task \in {"install", "operator"}, Begin(p, task)
  PROVE  ScriptsInv'
<1>1. /\ AccountsOK
      /\ Admissible(task) \in BOOLEAN
      /\ attempt' = [attempt EXCEPT ![p] =
           [task |-> task, admitted |-> Admissible(task), locked |-> FALSE, overtaken |-> FALSE]]
  BY DEF Begin, ScriptsInv, Admissible
<1>2. AccountsOK' /\ AdministratorsHoldEverything' /\ ScriptsRunOnce'
  BY <1>1 DEF Begin, ScriptsInv, AccountsOK, Attempts, AdministratorsHoldEverything, ScriptsRunOnce
<1>3. ASSUME NEW q \in Processes, NEW t \in {"install", "operator"}, Alive(q, t)'
      PROVE  Alive(q, t) \/ (q = p /\ t = task /\ Admissible(t))
  BY <1>1, <1>3 DEF Alive, Attempting, AccountsOK
<1>4. InstalledIsSeen'
  BY <1>3 DEF Begin, ScriptsInv, AccountsOK, InstalledIsSeen, Unused, Admissible
<1>5. OperatorIsSeen'
  BY <1>3 DEF Begin, ScriptsInv, AccountsOK, OperatorIsSeen, Admissible, ActiveOperators
<1>. QED
  BY <1>2, <1>4, <1>5 DEF ScriptsInv

LEMMA LockScripts ==
  ASSUME ScriptsInv, NEW p \in Processes, Lock(p)
  PROVE  ScriptsInv'
<1>1. AccountsOK'
  BY DEF Lock, ScriptsInv, AccountsOK, Attempts
<1>2. ASSUME NEW q \in Processes, NEW t \in {"install", "operator"}, Alive(q, t)'
      PROVE  Alive(q, t)
  BY <1>2 DEF Lock, ScriptsInv, AccountsOK, Attempts, Alive, Attempting
<1>3. InstalledIsSeen' /\ OperatorIsSeen'
  BY <1>2 DEF Lock, ScriptsInv, InstalledIsSeen, OperatorIsSeen, Unused
<1>. QED
  BY <1>1, <1>3 DEF Lock, ScriptsInv, AdministratorsHoldEverything, ScriptsRunOnce

(* Whoever commits has overtaken the other transactions with its task.     *)
LEMMA OvertakeEnds ==
  ASSUME AccountsOK, NEW p \in Processes, NEW task \in {"install", "operator"},
         Overtake(p, task)
  PROVE  /\ attempt' \in [Processes -> Attempts \cup {NoAttempt}]
         /\ \A q \in Processes : ~Alive(q, task)'
         /\ \A q \in Processes, t \in {"install", "operator"} : Alive(q, t)' => Alive(q, t)
<1>1. attempt' \in [Processes -> Attempts \cup {NoAttempt}]
  BY DEF Overtake, AccountsOK, Attempts, Attempting
<1>2. \A q \in Processes : ~Alive(q, task)'
  BY DEF Overtake, AccountsOK, Attempts, Alive, Attempting
<1>3. \A q \in Processes, t \in {"install", "operator"} : Alive(q, t)' => Alive(q, t)
  BY DEF Overtake, AccountsOK, Attempts, Alive, Attempting
<1>. QED
  BY <1>1, <1>2, <1>3

LEMMA InstallLocalScripts ==
  ASSUME ScriptsInv, NEW p \in Processes, NEW e \in Emails, InstallLocal(p, e)
  PROVE  ScriptsInv'
<1>1. /\ attempt' \in [Processes -> Attempts \cup {NoAttempt}]
      /\ \A q \in Processes : ~Alive(q, "install")'
      /\ \A q \in Processes, t \in {"install", "operator"} : Alive(q, t)' => Alive(q, t)
  BY OvertakeEnds DEF InstallLocal, ScriptsInv
<1>2. installs = 0
  BY DEF InstallLocal, MayCommit, ScriptsInv, InstalledIsSeen, Alive
<1>3. AccountsOK' /\ InstalledIsSeen'
  BY <1>1, <1>2 DEF InstallLocal, ScriptsInv, AccountsOK, InstalledIsSeen, Unused
<1>4. OperatorIsSeen' /\ ScriptsRunOnce'
  BY <1>1, <1>2 DEF InstallLocal, ScriptsInv, AccountsOK, OperatorIsSeen, ScriptsRunOnce, Unused
<1>5. AdministratorsHoldEverything'
  BY DEF InstallLocal, ScriptsInv, AdministratorsHoldEverything
<1>. QED
  BY <1>3, <1>4, <1>5 DEF ScriptsInv

LEMMA BootstrapOperatorScripts ==
  ASSUME ScriptsInv, NEW p \in Processes, NEW e \in Emails, BootstrapOperator(p, e)
  PROVE  ScriptsInv'
<1>1. /\ attempt' \in [Processes -> Attempts \cup {NoAttempt}]
      /\ \A q \in Processes : ~Alive(q, "operator")'
      /\ \A q \in Processes, t \in {"install", "operator"} : Alive(q, t)' => Alive(q, t)
  BY OvertakeEnds DEF BootstrapOperator, ScriptsInv
<1>2. \A f \in Emails : account[f] = "operator" => f \in retired
  BY DEF BootstrapOperator, MayCommit, ScriptsInv, OperatorIsSeen, Alive
<1>3. AccountsOK' /\ InstalledIsSeen'
  BY <1>1 DEF BootstrapOperator, ScriptsInv, AccountsOK, InstalledIsSeen, Unused
<1>4. OperatorIsSeen' /\ ScriptsRunOnce'
  BY <1>1, <1>2 DEF BootstrapOperator, ScriptsInv, AccountsOK, OperatorIsSeen, ScriptsRunOnce
<1>5. AdministratorsHoldEverything'
  BY DEF BootstrapOperator, ScriptsInv, AdministratorsHoldEverything
<1>. QED
  BY <1>3, <1>4, <1>5 DEF ScriptsInv

LEMMA ScriptsStep == ScriptsInv /\ [SetupNext]_setup => ScriptsInv'
<1>. SUFFICES ASSUME ScriptsInv, [SetupNext]_setup PROVE ScriptsInv'
  OBVIOUS
<1>1. CASE SetupStep
  BY <1>1, AttemptsMayEnd DEF SetupStep, ScriptsInv, AccountsOK
<1>2. CASE ConfigureOperators
  BY <1>2 DEF ConfigureOperators, ScriptsInv, AccountsOK, InstalledIsSeen, OperatorIsSeen,
              Alive, Attempting, Unused, ScriptsRunOnce, AdministratorsHoldEverything
<1>3. ASSUME NEW p \in Processes, Abort(p) PROVE ScriptsInv'
  BY <1>3, AttemptsMayEnd DEF Abort, ScriptsInv, AccountsOK
<1>4. CASE UNCHANGED setup
  BY <1>4, AttemptsMayEnd DEF setup, ScriptsInv, AccountsOK
<1>. QED
  BY <1>1, <1>2, <1>3, <1>4, RegisterUserScripts, SetActiveScripts, BeginScripts, LockScripts,
     InstallLocalScripts, BootstrapOperatorScripts DEF SetupNext

LEMMA SetupInstallStep == InstallInv /\ [SetupNext]_setup => InstallInv'
<1>. SUFFICES ASSUME InstallInv, [SetupNext]_setup PROVE InstallInv'
  OBVIOUS
<1>1. CASE SetupStep
  BY <1>1, InstallStep DEF SetupStep
<1>2. ASSUME NEW e \in Emails, RegisterUser(e) PROVE InstallInv'
  BY <1>2, CatalogueMayGrow DEF RegisterUser
<1>3. ASSUME NEW e \in Emails, NEW p \in Processes, InstallLocal(p, e) PROVE InstallInv'
  BY <1>3, CatalogueMayGrow DEF InstallLocal
<1>4. CASE UNCHANGED vars
  BY <1>4, NothingInstalls
<1>. QED
  BY <1>1, <1>2, <1>3, <1>4
  DEF SetupNext, setup, ConfigureOperators, SetActive, BootstrapOperator, Begin, Lock, Abort

-----------------------------------------------------------------------------
(* Setup finds the cluster's password again wherever it died: one of the   *)
(* places it looks at has it, for any passwords, files and ports.          *)
THEOREM PasswordsAreKept == SetupSpec => []CredentialsKept
<1>1. SetupInit => InstallInv
  BY InitInv DEF SetupInit
<1>2. InstallInv => CredentialsKept
  BY DEF InstallInv
<1>. QED
  BY <1>1, <1>2, SetupInstallStep, PTL DEF SetupSpec

(* After PASS the launcher's server reaches its database with a complete   *)
(* catalogue, whatever Setup found and however often it was run.           *)
THEOREM PassedSystemsServe == SetupSpec => InstalledServes
<1>1. SetupInit => InstallInv
  BY InitInv DEF SetupInit
<1>2. InstallInv =>
        (at = "passed" /\ ~overwritten /\ portFile \notin taken /\ Serve
           => launcher' = "serving" /\ Codes \subseteq permissions)
  BY DEF InstallInv, Passed, ClusterIsMadeOnce, Serve
<1>. QED
  BY <1>1, <1>2, SetupInstallStep, PTL DEF SetupSpec, InstalledServes

(* Every ADMIN role holds every permission of this version, on a catalogue *)
(* however old, and whoever made the account.                              *)
THEOREM AdministratorsAreComplete == SetupSpec => []AdministratorsHoldEverything
<1>1. ScriptsInv => AdministratorsHoldEverything
  BY DEF ScriptsInv
<1>. QED
  BY <1>1, ScriptsInit, ScriptsStep, PTL DEF SetupSpec

(* However many processes run the scripts at once, one organization is     *)
(* installed locally, and one operator made while none is left.            *)
THEOREM BootstrapsAreOneShot == SetupSpec => []ScriptsRunOnce
<1>1. ScriptsInv => ScriptsRunOnce
  BY DEF ScriptsInv
<1>. QED
  BY <1>1, ScriptsInit, ScriptsStep, PTL DEF SetupSpec
=============================================================================
