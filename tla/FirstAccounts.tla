--------------------------- MODULE FirstAccounts ----------------------------
(***************************************************************************)
(* The first accounts of an installed system: whoever launches OmniKes     *)
(* registers (src/src/services/registration.service.ts), or the installer  *)
(* of an organization is run (src/scripts/install-local.ts), and the       *)
(* platform operator is created                                            *)
(* (src/src/services/platform-operator-bootstrap.service.ts).              *)
(*                                                                         *)
(* The two scripts run in one SERIALIZABLE transaction each, which first   *)
(* takes an advisory lock.  Its snapshot is that of the statement which    *)
(* waits for the lock: what the lock's last holder committed is not in it. *)
(* It is PostgreSQL's serializability check that turns such a transaction  *)
(* away.  Registration runs READ COMMITTED, unaware of both.               *)
(*                                                                         *)
(* Setup goes on meanwhile: this module composes the two.                  *)
(***************************************************************************)
EXTENDS Installation

CONSTANTS
  Emails,
  Processes,    \* that run the scripts
  NoAttempt

VARIABLES
  account,      \* per email: "none", "user" or "operator"
  active,       \* the accounts that are active
  retired,      \* the operators that were ever deactivated
  installs,     \* organizations that install-local created
  roles,        \* the permissions of the ADMIN roles there are
  operatorRole, \* the platform role is configured
  attempt       \* the transactions of the scripts

accounts == <<account, active, retired, installs, roles, operatorRole>>
setup == <<vars, accounts, attempt>>

Online == running /\ database = "migrated"

Unused(e) == account[e] = "none"

ActiveOperators == {e \in active : account[e] = "operator"}

SetupInit ==
  /\ Init
  /\ account = [e \in Emails |-> "none"] /\ active = {} /\ retired = {}
  /\ installs = 0 /\ roles = {} /\ operatorRole = FALSE
  /\ attempt = [p \in Processes |-> NoAttempt]

(* A step of Installation; transactions end with the server they run in.   *)
SetupStep ==
  /\ Next
  /\ attempt' = IF running' THEN attempt ELSE [p \in Processes |-> NoAttempt]
  /\ UNCHANGED accounts

-----------------------------------------------------------------------------
(* Slip: the catalogue is taken as it is. *)
RegisterUserUnrepaired(e) ==
  /\ launcher = "serving" /\ Online
  /\ Unused(e) /\ permissions # {}
  /\ roles' = roles \cup {permissions}
  /\ account' = [account EXCEPT ![e] = "user"]
  /\ active' = active \cup {e}
  /\ UNCHANGED <<vars, retired, installs, operatorRole, attempt>>

(* register: the email is looked up, and then under its unique index; the  *)
(* missing codes are added, and the new role gets all there are.  Nobody   *)
(* removes a code, so that it does not matter when they are read.          *)
RegisterUser(e) ==
  /\ launcher = "serving" /\ Online
  /\ Unused(e)
  /\ permissions' = permissions \cup Codes
  /\ roles' = roles \cup {permissions'}
  /\ account' = [account EXCEPT ![e] = "user"]
  /\ active' = active \cup {e}
  /\ UNCHANGED <<files, cluster, clusterPassword, database, machine, installer, launching,
                 retired, installs, operatorRole, attempt>>

(* The seed is the only place that makes the operators' platform role.     *)
ConfigureOperators ==
  /\ Online /\ ~operatorRole
  /\ operatorRole' = TRUE
  /\ UNCHANGED <<vars, account, active, retired, installs, roles, attempt>>

(* What a script finds in its snapshot: may it go on? *)
Admissible(task) ==
  IF task = "install" THEN \A e \in Emails : Unused(e)
  ELSE operatorRole /\ ActiveOperators = {} /\ \E e \in Emails : ~Unused(e)

(* The snapshot is taken, and the advisory lock asked for.                 *)
Begin(p, task) ==
  /\ Online
  /\ attempt[p] = NoAttempt
  /\ attempt' = [attempt EXCEPT ![p] =
       [task |-> task, admitted |-> Admissible(task), locked |-> FALSE, overtaken |-> FALSE]]
  /\ UNCHANGED <<vars, accounts>>

Attempting(task) == {p \in Processes : attempt[p] # NoAttempt /\ attempt[p].task = task}

Lock(p) ==
  /\ attempt[p] # NoAttempt
  /\ \A q \in Attempting(attempt[p].task) : ~attempt[q].locked
  /\ attempt' = [attempt EXCEPT ![p].locked = TRUE]
  /\ UNCHANGED <<vars, accounts>>

(* Slip: isolation level REPEATABLE READ. *)
MayCommitRepeatable(p, task) ==
  /\ p \in Attempting(task)
  /\ attempt[p].locked /\ attempt[p].admitted

(* Its snapshot admitted it, and no transaction with the same task, which  *)
(* read what this one writes, has committed since.                         *)
MayCommit(p, task) ==
  /\ p \in Attempting(task)
  /\ attempt[p].locked /\ attempt[p].admitted /\ ~attempt[p].overtaken

Overtake(p, task) ==
  attempt' = [q \in Processes |->
    IF q = p THEN NoAttempt
    ELSE IF q \in Attempting(task) THEN [attempt[q] EXCEPT !.overtaken = TRUE]
    ELSE attempt[q]]

InstallLocal(p, e) ==
  /\ MayCommit(p, "install")
  /\ Unused(e)
  /\ permissions' = permissions \cup Codes
  /\ roles' = roles \cup {Codes}
  /\ account' = [account EXCEPT ![e] = "user"]
  /\ active' = active \cup {e}
  /\ installs' = installs + 1
  /\ Overtake(p, "install")
  /\ UNCHANGED <<files, cluster, clusterPassword, database, machine, installer, launching,
                 retired, operatorRole>>

BootstrapOperator(p, e) ==
  /\ MayCommit(p, "operator")
  /\ Unused(e)
  /\ account' = [account EXCEPT ![e] = "operator"]
  /\ active' = active \cup {e}
  /\ Overtake(p, "operator")
  /\ UNCHANGED <<vars, retired, installs, roles, operatorRole>>

(* Refused, not serializable, or the process dies.                         *)
Abort(p) ==
  /\ attempt[p] # NoAttempt
  /\ attempt' = [attempt EXCEPT ![p] = NoAttempt]
  /\ UNCHANGED <<vars, accounts>>

(* AdminUserService.update with isActive.                                  *)
SetActive(e) ==
  /\ Online /\ launcher = "serving"
  /\ account[e] = "operator"
  /\ active' = IF e \in active THEN active \ {e} ELSE active \cup {e}
  /\ retired' = retired \cup {e}
  /\ UNCHANGED <<vars, account, installs, roles, operatorRole, attempt>>

SetupNext ==
  \/ SetupStep \/ ConfigureOperators
  \/ \E e \in Emails :
       \/ RegisterUser(e) \/ SetActive(e)
       \/ \E p \in Processes : InstallLocal(p, e) \/ BootstrapOperator(p, e)
  \/ \E p \in Processes :
       Begin(p, "install") \/ Begin(p, "operator") \/ Lock(p) \/ Abort(p)

(* The installer goes on, and after a failure somebody runs it again.      *)
SetupSpec ==
  SetupInit /\ [][SetupNext]_setup /\ WF_vars(Install) /\ WF_vars(at # "passed" /\ Run)

-----------------------------------------------------------------------------
(* Whoever gets an ADMIN role gets every permission of this version, on a  *)
(* catalogue however old ("registration must remain reliable if that       *)
(* optional bootstrap step was skipped").                                  *)
AdministratorsHoldEverything == \A role \in roles : Codes \subseteq role

(* However many processes start at once, one organization is installed     *)
(* locally, and there is one platform operator that nobody ever            *)
(* deactivated ("one-shot bootstrap of the first platform operator").      *)
ScriptsRunOnce ==
  /\ installs <= 1
  /\ \A e, f \in Emails :
       account[e] = "operator" /\ account[f] = "operator" /\ {e, f} \cap retired = {}
         => e = f
=============================================================================
