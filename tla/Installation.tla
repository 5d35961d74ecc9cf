---------------------------- MODULE Installation ----------------------------
(***************************************************************************)
(* Setup on Windows: src/installer/install-runtime.cjs with                *)
(* initialize-rbac.cjs, which Setup runs and which may be run again after  *)
(* whatever happened, the launcher OmniKesLauncher.cmd with                *)
(* prepare-user-env.cjs, and the uninstaller of OmniKes.iss.               *)
(*                                                                         *)
(* Its state is on the disk and in the service manager: a password file, a *)
(* PostgreSQL cluster with the password it was made with, a service that   *)
(* was registered for some port, a file with the port, and the .env file   *)
(* with the URL of the database.  The installer writes them one after the  *)
(* other and may die between any two; other programs take and release      *)
(* ports, and the computer restarts.                                       *)
(*                                                                         *)
(* External are initdb, pg_ctl, the service manager and prisma migrate: as *)
(* the installer uses them.  A wait that times out on a slow computer ends *)
(* the installer where it is, like a crash.  .env and the port file are    *)
(* short and written in one call; only the password file, whose content    *)
(* makes the difference, is created and filled in two steps.               *)
(***************************************************************************)
EXTENDS Integers, FiniteSets

CONSTANTS
  Ports,        \* the reserved range, 5433 to 5532
  Passwords,
  Codes,        \* the permission codes of this version
  NoFile,       \* there is no such file, or no such line in it
  Blank,        \* the file was created and not yet filled
  NoPort,       \* the service is not registered; there is no port file
  NoUrl         \* there is no .env file, or it has no DATABASE_URL

ASSUME InstallationAssumption ==
  /\ Ports \subseteq Nat
  /\ {NoFile, Blank} \cap Passwords = {} /\ NoFile # Blank
  /\ NoPort \notin Ports

VARIABLES
  legacyFile,       \* the password file in the data directory, of older builds
  dbPasswordFile,   \* the password file in ProgramData
  envPassword,      \* OMNIKES_POSTGRES_PASSWORD in the .env file
  url,              \* DATABASE_URL in it
  portFile,         \* postgresql-port.txt
  cluster,          \* the data directory
  clusterPassword,  \* what the cluster was made with
  service,          \* the port in the registered command line of the service
  running,          \* the service accepts connections at that port
  taken,            \* the ports other programs listen at
  database,         \* "none", "created" or "migrated"
  permissions,      \* the rows of the permission catalogue
  at,               \* where the installer is
  password, port,   \* what it has read or chosen
  launcher,         \* the launcher, and how the server it started answers
  prepared,         \* the user has launched OmniKes before
  envRead,          \* the URL the launcher read, of a .env it writes back
  overwritten       \* it has put another URL back than it found

files == <<legacyFile, dbPasswordFile, envPassword, url, portFile>>
data == <<cluster, clusterPassword, database, permissions>>
machine == <<service, running, taken>>
installer == <<at, password, port>>
launching == <<launcher, prepared, envRead, overwritten>>
vars == <<files, data, machine, installer, launching>>

Ended == {"idle", "passed", "failed", "crashed"}

(* netstat lists a listener at p. *)
portIsListening(p) == p \in taken \/ (running /\ service = p)

Free == {p \in Ports : ~portIsListening(p)}

(* The data directory has its PG_VERSION. *)
HasVersion == cluster \in {"versioned", "complete"}

(* The service runs when it is started. *)
Startable == service # NoPort /\ cluster = "complete" /\ service \notin taken

(* waitForPostgres: psql logs in at p with the password. *)
Answers(p) == running /\ service = p /\ password = clusterPassword

(* A computer without OmniKes. *)
Fresh ==
  /\ legacyFile = NoFile /\ dbPasswordFile = NoFile /\ envPassword = NoFile
  /\ cluster = "none" /\ clusterPassword = NoFile
  /\ portFile = NoPort /\ service = NoPort /\ url = NoUrl
  /\ database = "none" /\ permissions = {}

(* An older build was here.  It left the password of its cluster in the    *)
(* data directory, in ProgramData or in .env, and perhaps another one that *)
(* was generated since; its catalogue may lack codes.                      *)
Older ==
  \E p \in Passwords, q \in Ports :
    /\ legacyFile \in Passwords \cup {NoFile}
    /\ dbPasswordFile \in Passwords \cup {NoFile}
    /\ envPassword \in {p, NoFile}
    /\ \/ p \in {legacyFile, dbPasswordFile}
       \/ envPassword = p /\ legacyFile = NoFile /\ dbPasswordFile = NoFile
    /\ cluster = "complete" /\ clusterPassword = p
    /\ portFile = q /\ service = q /\ url = [port |-> q, password |-> p]
    /\ database = "migrated" /\ permissions \in SUBSET Codes

(* Its initdb had failed, on a directory the password was written to.      *)
OlderWithoutCluster ==
  /\ legacyFile \in Passwords
  /\ dbPasswordFile = NoFile /\ envPassword = NoFile
  /\ cluster = "none" /\ clusterPassword = NoFile
  /\ portFile = NoPort /\ service = NoPort /\ url = NoUrl
  /\ database = "none" /\ permissions = {}

Init ==
  /\ Fresh \/ Older \/ OlderWithoutCluster
  /\ running = FALSE
  /\ taken = {}
  /\ at = "idle" /\ password = NoFile /\ port = NoPort
  /\ launcher = "closed" /\ prepared \in BOOLEAN
  /\ envRead = NoUrl /\ overwritten = FALSE

-----------------------------------------------------------------------------
Goto(place) == at' = place /\ UNCHANGED <<password, port>>

End(how) == at' = how /\ password' = NoFile /\ port' = NoPort

(* An error is thrown; Setup reports it, and everything stays as it is. *)
Fail == End("failed") /\ UNCHANGED <<files, data, machine, launching>>

Run ==
  /\ at \in Ended
  /\ Goto("legacy")
  /\ UNCHANGED <<files, data, machine, launching>>

(* Slip: the older file is dropped when there is a newer one. *)
MoveLegacyFileUnread ==
  /\ at = "legacy"
  /\ dbPasswordFile' = IF dbPasswordFile = NoFile THEN legacyFile ELSE dbPasswordFile
  /\ legacyFile' = NoFile
  /\ Goto("password")
  /\ UNCHANGED <<envPassword, url, portFile, data, machine, launching>>

(* The older password file is moved out of the data directory, unless      *)
(* there is another with another password.                                 *)
MoveLegacyFile ==
  /\ at = "legacy"
  /\ IF legacyFile \notin {NoFile, dbPasswordFile} /\ dbPasswordFile # NoFile THEN Fail
     ELSE MoveLegacyFileUnread

(* The password is the file's, else the .env file's, else a new one if     *)
(* there is no cluster yet.                                                *)
ReadPassword ==
  /\ at = "password"
  /\ dbPasswordFile \in Passwords
  /\ password' = dbPasswordFile
  /\ at' = "cluster"
  /\ UNCHANGED <<port, files, data, machine, launching>>

CreatePasswordFile ==
  /\ at = "password"
  /\ dbPasswordFile = NoFile
  /\ envPassword # NoFile \/ ~HasVersion
  /\ password' \in IF envPassword # NoFile THEN {envPassword} ELSE Passwords
  /\ dbPasswordFile' = Blank
  /\ at' = "fill"
  /\ UNCHANGED <<port, legacyFile, envPassword, url, portFile, data, machine, launching>>

(* The file is there and empty, which the flag wx refuses to overwrite; or *)
(* nothing tells the password of the cluster there is.                     *)
MissPassword ==
  /\ at = "password"
  /\ \/ dbPasswordFile = Blank
     \/ dbPasswordFile = NoFile /\ envPassword = NoFile /\ HasVersion
  /\ Fail

FillPasswordFile ==
  /\ at = "fill"
  /\ dbPasswordFile' = password
  /\ Goto("cluster")
  /\ UNCHANGED <<legacyFile, envPassword, url, portFile, data, machine, launching>>

(* A cluster that has its PG_VERSION is kept, and so is anything else that *)
(* is in the directory.                                                    *)
InspectCluster ==
  /\ at = "cluster"
  /\ \/ /\ HasVersion
        /\ Goto("service")
        /\ UNCHANGED <<files, data, machine, launching>>
     \/ /\ cluster = "torn"
        /\ Fail
     \/ /\ cluster = "none"
        /\ cluster' = "torn"
        /\ Goto("initdb")
        /\ UNCHANGED <<files, clusterPassword, database, permissions, machine, launching>>

(* initdb: directories, then PG_VERSION, then the rest; when it fails it   *)
(* removes what it made, when it is killed it cannot.                      *)
Initdb ==
  /\ at = "initdb"
  /\ \/ /\ cluster = "torn"
        /\ cluster' = "versioned"
        /\ UNCHANGED <<clusterPassword, installer>>
     \/ /\ cluster = "versioned"
        /\ cluster' = "complete"
        /\ clusterPassword' = dbPasswordFile
        /\ Goto("service")
  /\ UNCHANGED <<files, database, permissions, machine, launching>>

InitdbFails ==
  /\ at = "initdb"
  /\ cluster' = "none"
  /\ End("failed")
  /\ UNCHANGED <<files, clusterPassword, database, permissions, machine, launching>>

(* choosePort: the first port of the range nobody listens at. *)
choosePort(p) == p \in Free /\ \A q \in Free : p <= q

KeepsPort ==
  /\ portFile # NoPort
  /\ IF running THEN Answers(portFile) ELSE ~portIsListening(portFile)

(* Slip: the port is kept, whoever listens at it. *)
SelectPortBlindly ==
  /\ at = "service"
  /\ port' \in Ports
  /\ IF portFile # NoPort THEN port' = portFile ELSE choosePort(port')
  /\ at' = IF service = NoPort THEN "register" ELSE "start"
  /\ UNCHANGED <<password, files, data, machine, launching>>

(* The port stays if the service answers there, or is stopped and nobody   *)
(* else listens; a service that answers too slowly loses it.  The service  *)
(* is registered again unless it stays.                                    *)
SelectPort ==
  /\ at = "service"
  /\ \/ /\ port' \in Ports
        /\ \/ KeepsPort /\ port' = portFile
           \/ (running \/ ~KeepsPort) /\ choosePort(port')
        /\ at' = IF service = NoPort THEN "register"
                 ELSE IF port' # portFile THEN "stop" ELSE "start"
        /\ UNCHANGED <<password, files, data, machine, launching>>
     \/ /\ (running \/ ~KeepsPort) /\ Free = {}
        /\ Fail

StopService ==
  /\ at = "stop"
  /\ running' = FALSE
  /\ Goto("unregister")
  /\ UNCHANGED <<files, data, service, taken, launching>>

Unregister ==
  /\ at = "unregister"
  /\ service' = NoPort
  /\ running' = FALSE
  /\ Goto("register")
  /\ UNCHANGED <<files, data, taken, launching>>

RegisterService ==
  /\ at = "register"
  /\ IF portIsListening(port) THEN Fail
     ELSE /\ service' = port
          /\ Goto("port file")
          /\ UNCHANGED <<files, data, running, taken, launching>>

WritePortFile ==
  /\ at \in {"port file", "port file again"}
  /\ portFile' = port
  /\ Goto(IF at = "port file" THEN "start" ELSE "migrate")
  /\ UNCHANGED <<legacyFile, dbPasswordFile, envPassword, url, data, machine, launching>>

(* sc start; a service that runs already is as good. *)
StartService ==
  /\ at = "start"
  /\ running' = (running \/ Startable)
  /\ Goto("wait")
  /\ UNCHANGED <<files, data, service, taken, launching>>

WaitForPostgres ==
  /\ at = "wait"
  /\ IF Answers(port) THEN Goto("database") /\ UNCHANGED <<files, data, machine, launching>>
     ELSE Fail

CreateDatabase ==
  /\ at = "database"
  /\ IF Answers(port)
     THEN /\ database' = IF database = "none" THEN "created" ELSE database
          /\ Goto("env")
          /\ UNCHANGED <<files, cluster, clusterPassword, permissions, machine, launching>>
     ELSE Fail

(* Slip: a .env file that is there is left as it is. *)
WriteEnvOnce ==
  /\ at = "env"
  /\ url' = IF url = NoUrl THEN [port |-> port, password |-> password] ELSE url
  /\ overwritten' = FALSE
  /\ Goto("port file again")
  /\ UNCHANGED <<legacyFile, dbPasswordFile, envPassword, portFile, data, machine,
                 launcher, prepared, envRead>>

(* The .env file is made, or its DATABASE_URL replaced or appended. *)
WriteEnv ==
  /\ at = "env"
  /\ url' = [port |-> port, password |-> password]
  /\ overwritten' = FALSE
  /\ Goto("port file again")
  /\ UNCHANGED <<legacyFile, dbPasswordFile, envPassword, portFile, data, machine,
                 launcher, prepared, envRead>>

Migrate ==
  /\ at = "migrate"
  /\ IF Answers(port)
     THEN /\ database' = "migrated"
          /\ Goto("rbac")
          /\ UNCHANGED <<files, cluster, clusterPassword, permissions, machine, launching>>
     ELSE Fail

(* initialize-rbac: the missing codes, in one transaction. *)
InitializeRbac ==
  /\ at = "rbac"
  /\ IF Answers(port)
     THEN /\ permissions' = permissions \cup Codes
          /\ End("passed")
          /\ UNCHANGED <<files, cluster, clusterPassword, database, machine, launching>>
     ELSE Fail

Install ==
  \/ MoveLegacyFile \/ ReadPassword \/ CreatePasswordFile \/ MissPassword
  \/ FillPasswordFile \/ InspectCluster \/ Initdb \/ InitdbFails
  \/ SelectPort \/ StopService \/ Unregister \/ RegisterService \/ WritePortFile
  \/ StartService \/ WaitForPostgres \/ CreateDatabase
  \/ WriteEnv \/ Migrate \/ InitializeRbac

Crash ==
  /\ at \notin Ended
  /\ End("crashed")
  /\ UNCHANGED <<files, data, machine, launching>>

-----------------------------------------------------------------------------
(* OmniKesLauncher.cmd needs a port file.  The user's first launch reads   *)
(* .env, to add a line to it, ...                                          *)
Prepare ==
  /\ launcher = "closed" /\ ~prepared
  /\ portFile # NoPort
  /\ prepared' = TRUE
  /\ envRead' = url
  /\ launcher' = IF url = NoUrl THEN "ready" ELSE "preparing"
  /\ UNCHANGED <<overwritten, files, data, machine, installer>>

(* ... and writes it back, if this user may.                               *)
WriteBack ==
  /\ launcher = "preparing"
  /\ url' = envRead
  /\ overwritten' = (overwritten \/ url' # url)
  /\ envRead' = NoUrl
  /\ launcher' = "ready"
  /\ UNCHANGED <<prepared, legacyFile, dbPasswordFile, envPassword, portFile, data,
                 machine, installer>>

MayNotWriteBack ==
  /\ launcher = "preparing"
  /\ launcher' = "closed" /\ envRead' = NoUrl
  /\ UNCHANGED <<prepared, overwritten, files, data, machine, installer>>

(* It starts the service, if this user may, ...                            *)
Launch ==
  /\ launcher = "ready" \/ (launcher = "closed" /\ prepared)
  /\ portFile # NoPort
  /\ IF service = NoPort THEN launcher' = "closed" /\ UNCHANGED running
     ELSE launcher' = "waiting" /\ running' \in {running, running \/ Startable}
  /\ UNCHANGED <<prepared, envRead, overwritten, files, data, service, taken, installer>>

(* ... waits until a PostgreSQL, its own or another, is ready at the port  *)
(* in the file, and starts the server with the .env file.  /api/health     *)
(* tells whether the server reaches its database.                          *)
Serve ==
  /\ launcher = "waiting"
  /\ portFile \in taken \/ (running /\ service = portFile)
  /\ launcher' = IF /\ running /\ database # "none"
                    /\ url = [port |-> service, password |-> clusterPassword]
                 THEN "serving" ELSE "degraded"
  /\ UNCHANGED <<prepared, envRead, overwritten, files, data, machine, installer>>

GiveUp ==
  /\ launcher = "waiting"
  /\ ~(running /\ service = portFile)
  /\ launcher' = "closed"
  /\ UNCHANGED <<prepared, envRead, overwritten, files, data, machine, installer>>

-----------------------------------------------------------------------------
Reboot ==
  /\ running' = Startable
  /\ launcher' = "closed" /\ envRead' = NoUrl
  /\ IF at \in Ended THEN UNCHANGED installer ELSE End("crashed")
  /\ UNCHANGED <<prepared, overwritten, files, data, service, taken>>

(* The service and the program go; what was not part of the program stays: *)
(* .env, and everything in ProgramData.                                    *)
Uninstall ==
  /\ at \in Ended
  /\ service' = NoPort /\ running' = FALSE
  /\ End("idle")
  /\ launcher' = "closed" /\ envRead' = NoUrl
  /\ UNCHANGED <<prepared, overwritten, files, data, taken>>

OtherPrograms(p) ==
  /\ ~(running /\ service = p)
  /\ taken' = IF p \in taken THEN taken \ {p} ELSE taken \cup {p}
  /\ UNCHANGED <<files, data, service, running, installer, launching>>

Environment == Reboot \/ Uninstall \/ \E p \in Ports : OtherPrograms(p)

Next ==
  \/ Run \/ Install \/ Crash
  \/ Prepare \/ WriteBack \/ MayNotWriteBack \/ Launch \/ Serve \/ GiveUp
  \/ Environment

Spec == Init /\ [][Next]_vars

-----------------------------------------------------------------------------
FilesOK ==
  /\ legacyFile \in Passwords \cup {NoFile}
  /\ dbPasswordFile \in Passwords \cup {NoFile, Blank}
  /\ envPassword \in Passwords \cup {NoFile}
  /\ url \in [port : Ports, password : Passwords] \cup {NoUrl}
  /\ portFile \in Ports \cup {NoPort}

DataOK ==
  /\ cluster \in {"none", "torn", "versioned", "complete"}
  /\ clusterPassword \in Passwords \cup {NoFile}
  /\ database \in {"none", "created", "migrated"}
  /\ permissions \subseteq Codes

MachineOK == service \in Ports \cup {NoPort} /\ running \in BOOLEAN /\ taken \subseteq Ports

InstallerOK == password \in Passwords \cup {NoFile} /\ port \in Ports \cup {NoPort}

LaunchingOK ==
  /\ launcher \in {"closed", "preparing", "ready", "waiting", "serving", "degraded"}
  /\ envRead \in [port : Ports, password : Passwords] \cup {NoUrl}
  /\ prepared \in BOOLEAN /\ overwritten \in BOOLEAN

TypeOK == FilesOK /\ DataOK /\ MachineOK /\ InstallerOK /\ LaunchingOK

(* The password of a cluster is never lost, wherever the installer dies    *)
(* ("Both were preserved; refusing to initialize or change database        *)
(* credentials"): one of the places the installer looks at has it.         *)
CredentialsKept ==
  cluster = "complete" => clusterPassword \in {legacyFile, dbPasswordFile, envPassword}

(* After PASS, whatever was found on the computer, file, .env, service and *)
(* cluster mean the same port, password and database: the server that the  *)
(* launcher starts reaches it, with a complete permission catalogue.       *)
(* Except that another program's PostgreSQL is taken for it, and that a    *)
(* first launch during Setup puts the older .env back.                     *)
InstalledServes ==
  [][at = "passed" /\ ~overwritten /\ portFile \notin taken /\ Serve
       => launcher' = "serving" /\ Codes \subseteq permissions]_vars

(* A service that answers too late loses its port. *)
Slow == SelectPort /\ KeepsPort /\ (at' = "failed" \/ port' # portFile)

Disturbance == Crash \/ InitdbFails \/ Slow \/ Environment

(* What the installer refuses to repair: initdb was killed, the password   *)
(* file was not filled, two files disagree; or cannot: no port is free, or *)
(* it was killed between the registration at a new port and the port file, *)
(* and the port in the file is free again: then it is kept, the service is *)
(* not registered anew, and does not answer there.                         *)
Beyond ==
  \/ cluster \in {"torn", "versioned"}
  \/ dbPasswordFile = Blank
  \/ legacyFile \notin {NoFile, dbPasswordFile} /\ dbPasswordFile # NoFile
  \/ Free = {}
  \/ portFile # NoPort /\ service \notin {NoPort, portFile}

(* Once the disturbances end, running Setup again after each failure ends  *)
(* with an installed system, except in the cases named.                    *)
RerunsSucceed ==
  <>[][~Disturbance]_vars => ([]<>(at = "passed") \/ <>[]Beyond)
=============================================================================
